----------------------- MODULE ProposalLedger_proofs -----------------------
(***************************************************************************)
(* The propose ledger for any number of candidates, entities, servers and  *)
(* calls: what live folding left is what a replay yields, each candidate   *)
(* is decided once and acted upon as the verdict allows, and candidates    *)
(* and entities belong to each other.                                      *)
(***************************************************************************)
EXTENDS ProposalLedger, Integers, WellFoundedInduction, FiniteSetTheorems, TLAPS

(***************************************************************************)
(* Induction over the natural numbers, and what follows from it for a      *)
(* function that is defined by recursion over 0 .. N, as a replay and      *)
(* a batch are.  A set stands where an induction theorem would have a      *)
(* predicate: the numbers or the values that have the property.            *)
(***************************************************************************)

\* A non-empty set of natural numbers has a least element.
LEMMA NatMin ==
  ASSUME NEW T \in SUBSET Nat, T # {}
  PROVE  \E x \in T : \A y \in T : x <= y
<1> DEFINE R == OpToRel(<, Nat)
<1>1. IsWellFoundedOn(R, Nat)
  BY NatLessThanWellFounded
<1>2. PICK x \in T : \A y \in T : ~ (<<y, x>> \in R)
  <2> HIDE DEF R
  <2> QED BY <1>1, WFMin
<1>3. \A y \in T : <<y, x>> \in R <=> y < x
  BY DEF OpToRel
<1> HIDE DEF R
<1>4. \A y \in T : ~ (y < x)
  BY <1>2, <1>3
<1> QED BY <1>4

\* Induction over the natural numbers, stated with the set of good ones.
LEMMA Induct ==
  ASSUME NEW S, 0 \in S, \A n \in Nat : n \in S => n + 1 \in S
  PROVE  \A n \in Nat : n \in S
<1> SUFFICES ASSUME {n \in Nat : n \notin S} # {} PROVE FALSE
  OBVIOUS
<1>1. PICK x \in {n \in Nat : n \notin S} :
             \A y \in {n \in Nat : n \notin S} : x <= y
  BY NatMin
<1>2. x # 0 /\ x - 1 \in Nat /\ (x - 1) + 1 = x
  OBVIOUS
<1>3. x - 1 \in S
  BY <1>1, <1>2
<1> QED BY <1>2, <1>3

\* What holds at 0 and is passed on from each place to the next holds all along.
LEMMA Along ==
  ASSUME NEW N \in Nat, NEW S, NEW u, u[0] \in S,
         \A i \in 1 .. N : u[i - 1] \in S => u[i] \in S
  PROVE  \A i \in 0 .. N : u[i] \in S
<1> DEFINE T == {n \in Nat : n <= N => u[n] \in S}
<1>1. 0 \in T
  OBVIOUS
<1>2. ASSUME NEW n \in Nat, n \in T PROVE n + 1 \in T
  <2> SUFFICES ASSUME n + 1 <= N PROVE u[n + 1] \in S
    OBVIOUS
  <2>1. n + 1 \in 1 .. N /\ (n + 1) - 1 = n /\ u[n] \in S
    BY <1>2
  <2> QED BY <2>1
<1>3. \A n \in Nat : n \in T
  <2> HIDE DEF T
  <2> QED BY <1>1, <1>2, Induct
<1> QED BY <1>3

\* One step of a recursion on S for each place, and a solution of it from z.
StepsOn(G, N, S) == G \in [1 .. N -> [S -> S]]

Solves(w, z, G, N, S) ==
  /\ w \in [0 .. N -> S]
  /\ w[0] = z
  /\ \A i \in 1 .. N : w[i] = G[i][w[i - 1]]

\* A recursion whose steps stay in S has a solution.
LEMMA RecursionExists ==
  ASSUME NEW N \in Nat, NEW S, NEW z \in S, NEW G, StepsOn(G, N, S)
  PROVE  \E w : Solves(w, z, G, N, S)
<1> USE DEF StepsOn
<1> DEFINE Trace(w, n) == w[0] = z /\ \A i \in 1 .. n : w[i] = G[i][w[i - 1]]
           T == {n \in Nat : n <= N => \E w \in [0 .. n -> S] : Trace(w, n)}
<1>1. 0 \in T
  <2> DEFINE w == [i \in 0 .. 0 |-> z]
  <2>1. w \in [0 .. 0 -> S] /\ Trace(w, 0)
    OBVIOUS
  <2> QED BY <2>1
<1>2. ASSUME NEW n \in Nat, n \in T PROVE n + 1 \in T
  <2> SUFFICES ASSUME n + 1 <= N PROVE \E w \in [0 .. n + 1 -> S] : Trace(w, n + 1)
    OBVIOUS
  <2>1. PICK w \in [0 .. n -> S] : Trace(w, n)
    BY <1>2
  <2> DEFINE x == G[n + 1][w[n]]
             u == [i \in 0 .. n + 1 |-> IF i = n + 1 THEN x ELSE w[i]]
  <2>2. x \in S
    <3>1. n + 1 \in 1 .. N /\ n \in 0 .. n
      OBVIOUS
    <3>2. G[n + 1] \in [S -> S] /\ w[n] \in S
      BY <2>1, <3>1
    <3> QED BY <3>2
  <2>3. u \in [0 .. n + 1 -> S] /\ u[0] = z /\ u[n + 1] = x
    <3> HIDE DEF x
    <3> QED BY <2>1, <2>2
  <2>4. \A i \in 1 .. n + 1 : u[i] = G[i][u[i - 1]]
    <3> TAKE i \in 1 .. n + 1
    <3>1. i - 1 \in 0 .. n /\ i - 1 \in 0 .. n + 1 /\ i - 1 # n + 1 /\ i \in 0 .. n + 1
      OBVIOUS
    <3>2. u[i - 1] = w[i - 1]
      BY <3>1
    <3>3. CASE i = n + 1
      BY <3>2, <3>3, <2>3
    <3>4. CASE i # n + 1
      <4>1. i \in 1 .. n /\ u[i] = w[i]
        BY <3>1, <3>4
      <4> HIDE DEF u
      <4> QED BY <2>1, <3>2, <4>1
    <3> QED BY <3>3, <3>4
  <2> HIDE DEF u
  <2> QED BY <2>3, <2>4
<1>3. \A n \in Nat : n \in T
  <2> HIDE DEF T
  <2> QED BY <1>1, <1>2, Induct
<1> QED BY <1>3 DEF Solves

(***************************************************************************)
(* Events, rows and tables.                                                *)
(***************************************************************************)

Acting == {"TaskProposed", "InboxItemTriaged", "ReplyDraftProposed"}

\* The tables of the entities hold finitely many rows.
Tables == UNION {[D -> Entity] : D \in {X \in SUBSET Id : IsFiniteSet(X)}}

View == [proposals : [Candidate -> Row \union {None}], entities : Tables]

LEMMA EventFields ==
  ASSUME NEW e \in Event
  PROVE  /\ e.type \in Acting \union {"ProposalGenerated", "ProposalRejected", "ProposalFeedback",
                                      "TaskApplied"}
         /\ e.type \in {"ProposalGenerated", "ProposalRejected", "ProposalFeedback"} =>
              e.cand \in Candidate
         /\ e.type = "ProposalGenerated" => /\ e.summary \in {"text", "redacted"}
                                            /\ e \in [type : {"ProposalGenerated"}, cand : Candidate,
                                                      summary : {"text", "redacted"}]
         /\ e.type \in Acting => e.id \in Id /\ e.cand \in Candidate \union {None}
         /\ e.type = "ReplyDraftProposed" => e.cand \in Candidate
         /\ e.type = "TaskProposed" => e.due \in BOOLEAN
         /\ e.type = "InboxItemTriaged" => e.to \in ItemState
         /\ e.type = "TaskApplied" => e.id \in Id /\ e.to \in TaskState /\ e.due \in BOOLEAN
BY DEF Event, Acting

LEMMA TablesOf ==
  ASSUME NEW f \in Tables
  PROVE  /\ IsFiniteSet(DOMAIN f) /\ DOMAIN f \subseteq Id
         /\ f = [i \in DOMAIN f |-> f[i]]
         /\ \A i \in DOMAIN f : f[i] \in Entity
BY DEF Tables

LEMMA TablesAre ==
  ASSUME NEW D, D \subseteq Id, IsFiniteSet(D), NEW f \in [D -> Entity]
  PROVE  f \in Tables
BY DEF Tables

LEMMA PutType ==
  ASSUME NEW f \in Tables, NEW i \in Id, NEW x \in Entity
  PROVE  Put(f, i, x) \in Tables /\ DOMAIN Put(f, i, x) = DOMAIN f \union {i}
<1>1. DOMAIN f \union {i} \subseteq Id /\ IsFiniteSet(DOMAIN f \union {i})
  BY TablesOf, FS_AddElement
<1>2. Put(f, i, x) \in [DOMAIN f \union {i} -> Entity]
  BY TablesOf DEF Put
<1> QED BY <1>1, <1>2, TablesAre

LEMMA PlannedType ==
  ASSUME NEW c \in Candidate
  PROVE  Planned(c) \in Id
BY LedgerAssumption DEF Planned, nthId, Id
-----------------------------------------------------------------------------
(***************************************************************************)
(* What one event does to a view.                                          *)
(***************************************************************************)

\* The row r of candidate c after one event.
RowAfter(r, c, e) ==
  IF e.type = "ProposalGenerated" THEN
    IF e.cand # c THEN r
    ELSE [state   |-> IF r = None THEN "pending" ELSE r.state,
          entity  |-> Planned(c),
          summary |-> e.summary,
          reason  |-> IF r = None THEN "none" ELSE r.reason]
  ELSE IF r = None \/ r.state # "pending" \/ e.type = "TaskApplied" THEN r
  ELSE IF e.type = "TaskProposed" /\ e.cand # None THEN
    IF e.cand # c THEN r
    ELSE [state |-> "applied", entity |-> e.id, summary |-> r.summary, reason |-> r.reason]
  ELSE IF e.type \in Acting THEN
    IF r.entity # e.id THEN r
    ELSE [state |-> "applied", entity |-> r.entity, summary |-> r.summary, reason |-> r.reason]
  ELSE IF e.cand # c THEN r
  ELSE IF e.type = "ProposalRejected" THEN
    [state |-> "rejected", entity |-> r.entity, summary |-> r.summary, reason |-> "rejection"]
  ELSE [state |-> r.state, entity |-> r.entity, summary |-> r.summary, reason |-> "feedback"]

LEMMA RowFields ==
  ASSUME NEW r \in Row
  PROVE  /\ [r EXCEPT !.state = "applied"] =
              [state |-> "applied", entity |-> r.entity, summary |-> r.summary, reason |-> r.reason]
         /\ \A i : [r EXCEPT !.state = "applied", !.entity = i] =
              [state |-> "applied", entity |-> i, summary |-> r.summary, reason |-> r.reason]
         /\ [r EXCEPT !.state = "rejected", !.reason = "rejection"] =
              [state |-> "rejected", entity |-> r.entity, summary |-> r.summary,
               reason |-> "rejection"]
         /\ [r EXCEPT !.reason = "feedback"] =
              [state |-> r.state, entity |-> r.entity, summary |-> r.summary,
               reason |-> "feedback"]
         /\ [r EXCEPT !.summary = "redacted"] =
              [state |-> r.state, entity |-> r.entity, summary |-> "redacted",
               reason |-> r.reason]
<1>1. DOMAIN r = {"state", "entity", "summary", "reason"}
  BY DEF Row
<1>2. [r EXCEPT !.state = "applied"] =
        [state |-> "applied", entity |-> r.entity, summary |-> r.summary, reason |-> r.reason]
  BY <1>1
<1>3. ASSUME NEW i
      PROVE  [r EXCEPT !.state = "applied", !.entity = i] =
               [state |-> "applied", entity |-> i, summary |-> r.summary, reason |-> r.reason]
  <2> DEFINE q == [r EXCEPT !.state = "applied"]
  <2>1. /\ DOMAIN q = {"state", "entity", "summary", "reason"} /\ q.state = "applied"
        /\ q.summary = r.summary /\ q.reason = r.reason
    BY <1>1
  <2> HIDE DEF q
  <2>2. [q EXCEPT !.entity = i] =
          [state |-> "applied", entity |-> i, summary |-> r.summary, reason |-> r.reason]
    BY <2>1
  <2> QED BY <2>2 DEF q
<1>4. [r EXCEPT !.state = "rejected", !.reason = "rejection"] =
        [state |-> "rejected", entity |-> r.entity, summary |-> r.summary, reason |-> "rejection"]
  <2> DEFINE q == [r EXCEPT !.state = "rejected"]
  <2>1. /\ DOMAIN q = {"state", "entity", "summary", "reason"} /\ q.state = "rejected"
        /\ q.summary = r.summary /\ q.entity = r.entity
    BY <1>1
  <2> HIDE DEF q
  <2>2. [q EXCEPT !.reason = "rejection"] =
          [state |-> "rejected", entity |-> r.entity, summary |-> r.summary,
           reason |-> "rejection"]
    BY <2>1
  <2> QED BY <2>2 DEF q
<1>5. [r EXCEPT !.reason = "feedback"] =
        [state |-> r.state, entity |-> r.entity, summary |-> r.summary, reason |-> "feedback"]
  BY <1>1
<1>6. [r EXCEPT !.summary = "redacted"] =
        [state |-> r.state, entity |-> r.entity, summary |-> "redacted", reason |-> r.reason]
  BY <1>1
<1> QED BY <1>2, <1>3, <1>4, <1>5, <1>6

LEMMA RowAfterType ==
  ASSUME NEW c \in Candidate, NEW r \in Row \union {None}, NEW e \in Event
  PROVE  RowAfter(r, c, e) \in Row \union {None}
<1>1. Planned(c) \in Id
  BY PlannedType
<1>2. /\ e.type \in Acting => e.id \in Id
      /\ e.type = "ProposalGenerated" => e.summary \in {"text", "redacted"}
  BY EventFields
<1>3. e.type = "TaskProposed" => e.type \in Acting
  BY DEF Acting
<1> QED BY <1>1, <1>2, <1>3 DEF RowAfter, Row

Grows(v, w) == DOMAIN v.entities \subseteq DOMAIN w.entities

LEMMA FoldIs ==
  ASSUME NEW v \in View, NEW e \in Event
  PROVE  LET w == Fold(v, e) IN
         /\ w \in View
         /\ Grows(v, w)
         /\ e.type \in Acting => e.id \in DOMAIN w.entities
         /\ \A c \in Candidate : w.proposals[c] = RowAfter(v.proposals[c], c, e)
<1> DEFINE P == v.proposals
           E == v.entities
           Goal(w) == /\ w \in View
                      /\ Grows(v, w)
                      /\ e.type \in Acting => e.id \in DOMAIN w.entities
                      /\ \A c \in Candidate : w.proposals[c] = RowAfter(v.proposals[c], c, e)
<1>1. P \in [Candidate -> Row \union {None}] /\ E \in Tables
  BY DEF View
<1>2. \A x : /\ [v EXCEPT !.proposals = x] = [proposals |-> x, entities |-> E]
             /\ [v EXCEPT !.entities = x] = [proposals |-> P, entities |-> x]
  BY DEF View
<1>3. ASSUME NEW Q \in [Candidate -> Row \union {None}], NEW F \in Tables,
             DOMAIN E \subseteq DOMAIN F, e.type \in Acting => e.id \in DOMAIN F,
             \A c \in Candidate : Q[c] = RowAfter(P[c], c, e)
      PROVE  Goal([proposals |-> Q, entities |-> F])
  BY <1>3 DEF View, Grows
<1> HIDE DEF Goal
<1>4. CASE e.type = "ProposalGenerated"
  <2> DEFINE Q == GenerateRow(v, e)
  <2>1. e.cand \in Candidate /\ e.summary \in {"text", "redacted"} /\ Planned(e.cand) \in Id
    BY <1>4, EventFields, PlannedType
  <2>2. Q = [P EXCEPT ![e.cand] =
               [state   |-> IF P[e.cand] = None THEN "pending" ELSE P[e.cand].state,
                entity  |-> Planned(e.cand),
                summary |-> e.summary,
                reason  |-> IF P[e.cand] = None THEN "none" ELSE P[e.cand].reason]]
    BY DEF GenerateRow
  <2>3. Q \in [Candidate -> Row \union {None}]
    BY <1>1, <2>1, <2>2 DEF Row
  <2>4. \A c \in Candidate : Q[c] = RowAfter(P[c], c, e)
    BY <1>1, <1>4, <2>1, <2>2 DEF RowAfter
  <2>5. Fold(v, e) = [proposals |-> Q, entities |-> E]
    BY <1>2, <1>4 DEF Fold
  <2> HIDE DEF Q
  <2>6. Goal([proposals |-> Q, entities |-> E])
    BY <1>1, <1>3, <1>4, <2>3, <2>4 DEF Acting
  <2> QED BY <2>5, <2>6 DEF Goal
<1>5. CASE e.type \in {"ProposalRejected", "ProposalFeedback"}
  <2> DEFINE Q == IF e.type = "ProposalRejected" THEN RejectRow(v, e) ELSE FeedbackRow(v, e)
  <2>1. e.cand \in Candidate /\ e.type \notin Acting
    BY <1>5, EventFields DEF Acting
  <2>2. ASSUME NEW c \in Candidate PROVE Q[c] = RowAfter(P[c], c, e)
    <3>1. Q[c] = IF c = e.cand /\ P[c] # None /\ P[c].state = "pending"
                 THEN IF e.type = "ProposalRejected"
                      THEN [P[c] EXCEPT !.state = "rejected", !.reason = "rejection"]
                      ELSE [P[c] EXCEPT !.reason = "feedback"]
                 ELSE P[c]
      BY <1>1, <2>1 DEF RejectRow, FeedbackRow, IsPending
    <3>2. P[c] \in Row \union {None}
      BY <1>1
    <3> HIDE DEF P, Q
    <3>3. CASE P[c] = None
      BY <1>5, <3>1, <3>3 DEF RowAfter
    <3>4. CASE P[c] \in Row
      BY <1>5, <2>1, <3>1, <3>4, RowFields, LedgerAssumption DEF RowAfter
    <3> QED BY <3>2, <3>3, <3>4
  <2>3. Q = [c \in Candidate |-> Q[c]]
    BY <1>1 DEF RejectRow, FeedbackRow
  <2>4. Fold(v, e) = [proposals |-> Q, entities |-> E]
    BY <1>2, <1>5 DEF Fold
  <2> HIDE DEF Q
  <2>5. Q \in [Candidate -> Row \union {None}]
    BY <1>1, <2>2, <2>3, RowAfterType
  <2>6. Goal([proposals |-> Q, entities |-> E])
    BY <1>1, <1>3, <2>1, <2>2, <2>5
  <2> QED BY <2>4, <2>6 DEF Goal
<1>6. CASE e.type = "TaskApplied"
  <2> DEFINE F == ApplyTask(v, e)
  <2>1. /\ e.id \in Id /\ e.to \in TaskState /\ e.due \in BOOLEAN
        /\ IsFiniteSet(DOMAIN E) /\ DOMAIN E \subseteq Id /\ E \in [DOMAIN E -> Entity]
    BY <1>1, <1>6, EventFields, TablesOf
  <2>2. F \in [DOMAIN E -> Entity]
    <3>1. ASSUME e.id \in DOMAIN E
          PROVE  [state |-> e.to, due |-> E[e.id].due \/ e.due] \in Entity
      BY <2>1 DEF Entity
    <3> QED BY <2>1, <3>1 DEF ApplyTask
  <2>3. F \in Tables /\ DOMAIN F = DOMAIN E
    BY <2>1, <2>2, TablesAre
  <2>4. Fold(v, e) = [proposals |-> P, entities |-> F]
    BY <1>2, <1>6 DEF Fold
  <2> HIDE DEF F
  <2>5. Goal([proposals |-> P, entities |-> F])
    BY <1>1, <1>3, <1>6, <2>3 DEF Acting, RowAfter
  <2> QED BY <2>4, <2>5 DEF Goal
<1>7. CASE e.type \in Acting
  <2> DEFINE Q == IF e.type = "TaskProposed" THEN markProposalAppliedFor(v, e.cand, e.id)
                  ELSE markProposalApplied(v, e.id)
             x == CASE e.type = "TaskProposed" ->
                         [state |-> IF e.id \in DOMAIN E THEN E[e.id].state ELSE "proposed",
                          due |-> e.due]
                    [] e.type = "InboxItemTriaged" -> [state |-> e.to, due |-> FALSE]
                    [] e.type = "ReplyDraftProposed" -> [state |-> "open", due |-> FALSE]
             F == Put(E, e.id, x)
  <2>1. e.id \in Id /\ e.cand \in Candidate \union {None}
    BY <1>7, EventFields
  <2>2. x \in Entity
    BY <1>1, <1>7, EventFields, TablesOf DEF Acting, Entity, TaskState, ItemState
  <2>3. F \in Tables /\ DOMAIN F = DOMAIN E \union {e.id}
    BY <1>1, <2>1, <2>2, PutType
  <2>4. ASSUME NEW c \in Candidate PROVE Q[c] = RowAfter(P[c], c, e)
    <3> DEFINE own == e.type = "TaskProposed" /\ e.cand # None
    <3>1. Q[c] = IF /\ P[c] # None /\ P[c].state = "pending"
                    /\ IF own THEN c = e.cand ELSE P[c].entity = e.id
                 THEN IF own THEN [P[c] EXCEPT !.state = "applied", !.entity = e.id]
                      ELSE [P[c] EXCEPT !.state = "applied"]
                 ELSE P[c]
      BY <1>1, <2>1 DEF markProposalAppliedFor, markProposalApplied, IsPending
    <3>2. P[c] \in Row \union {None}
      BY <1>1
    <3>3. e.type # "ProposalGenerated" /\ e.type # "TaskApplied"
      BY <1>7 DEF Acting
    <3> HIDE DEF P, Q
    <3>4. CASE P[c] = None
      BY <3>1, <3>3, <3>4 DEF RowAfter
    <3>5. CASE P[c] \in Row
      BY <1>7, <3>1, <3>3, <3>5, RowFields, LedgerAssumption DEF RowAfter
    <3> QED BY <3>2, <3>4, <3>5
  <2>5. Q = [c \in Candidate |-> Q[c]]
    BY <1>1 DEF markProposalAppliedFor, markProposalApplied
  <2> HIDE DEF Q
  <2>6. Q \in [Candidate -> Row \union {None}]
    BY <1>1, <2>4, <2>5, RowAfterType
  <2> USE DEF Q
  <2>7. Fold(v, e) = [proposals |-> Q, entities |-> F]
    <3>1. CASE e.type = "TaskProposed"
      BY <3>1 DEF Fold, ProposeTask
    <3>2. CASE e.type = "InboxItemTriaged"
      BY <3>2 DEF Fold
    <3>3. CASE e.type = "ReplyDraftProposed"
      BY <3>3 DEF Fold
    <3> QED BY <1>7, <3>1, <3>2, <3>3 DEF Acting
  <2> HIDE DEF Q, F
  <2>8. Goal([proposals |-> Q, entities |-> F])
    BY <1>3, <2>3, <2>4, <2>6
  <2> QED BY <2>7, <2>8 DEF Goal
<1> QED BY <1>4, <1>5, <1>6, <1>7, EventFields DEF Goal
-----------------------------------------------------------------------------
(***************************************************************************)
(* Replay and redaction.                                                   *)
(***************************************************************************)

\* Views is well defined: it starts empty and folds the events in order.
LEMMA ViewsDef ==
  ASSUME NEW l \in Seq(Event)
  PROVE  /\ DOMAIN Views(l) = 0 .. Len(l)
         /\ Views(l)[0] = NoView
         /\ \A i \in 1 .. Len(l) : Views(l)[i] = Fold(Views(l)[i - 1], l[i])
         /\ \A i \in 0 .. Len(l) : Views(l)[i] \in View
<1> DEFINE N == Len(l)
           G == [i \in 1 .. N |-> [v \in View |-> Fold(v, l[i])]]
           Next_(v) == [i \in 0 .. N |-> IF i = 0 THEN NoView ELSE Fold(v[i - 1], l[i])]
<1>1. N \in Nat /\ \A i \in 1 .. N : l[i] \in Event
  OBVIOUS
<1>2. NoView \in View
  <2>1. [i \in {} |-> None] \in [{} -> Entity]
    OBVIOUS
  <2>2. [i \in {} |-> None] \in Tables
    BY <2>1, FS_EmptySet, TablesAre
  <2> QED BY <2>2 DEF NoView, View
<1>3. StepsOn(G, N, View)
  BY <1>1, FoldIs DEF StepsOn
<1>4. PICK w : Solves(w, NoView, G, N, View)
  <2> HIDE DEF G, N
  <2> QED BY <1>1, <1>2, <1>3, RecursionExists
<1>5. w = Next_(w)
  <2>1. \A i \in 1 .. N : w[i] = Fold(w[i - 1], l[i])
    <3> TAKE i \in 1 .. N
    <3>1. i - 1 \in 0 .. N
      BY <1>1
    <3>2. w[i - 1] \in View
      BY <1>4, <3>1 DEF Solves
    <3> QED BY <1>4, <3>2 DEF Solves
  <2> HIDE DEF G
  <2>2. \A i \in 0 .. N : w[i] = IF i = 0 THEN NoView ELSE Fold(w[i - 1], l[i])
    BY <1>1, <1>4, <2>1 DEF Solves
  <2> QED BY <1>4, <2>2 DEF Solves
<1>6. Views(l) = Next_(Views(l))
  <2>1. Views(l) = CHOOSE v : v = Next_(v)
    BY DEF Views
  <2> HIDE DEF Next_
  <2> QED BY <1>5, <2>1
<1> HIDE DEF Views
<1> DEFINE V == Views(l)
<1>7. DOMAIN V = 0 .. N /\ \A i \in 0 .. N : V[i] = IF i = 0 THEN NoView ELSE Fold(V[i - 1], l[i])
  <2>1. V = Next_(V)
    BY <1>6
  <2> HIDE DEF V
  <2>2. DOMAIN Next_(V) = 0 .. N
    OBVIOUS
  <2>3. \A i \in 0 .. N : Next_(V)[i] = IF i = 0 THEN NoView ELSE Fold(V[i - 1], l[i])
    OBVIOUS
  <2> HIDE DEF Next_
  <2>4. DOMAIN V = 0 .. N
    BY <2>1, <2>2
  <2>5. \A i \in 0 .. N : V[i] = IF i = 0 THEN NoView ELSE Fold(V[i - 1], l[i])
    BY <2>1, <2>3
  <2> QED BY <2>4, <2>5
<1> HIDE DEF V
<1>8. V[0] = NoView /\ \A i \in 1 .. N : V[i] = Fold(V[i - 1], l[i])
  BY <1>1, <1>7
<1>9. \A i \in 0 .. N : V[i] \in View
  <2>1. \A i \in 1 .. N : V[i - 1] \in View => V[i] \in View
    BY <1>1, <1>8, FoldIs
  <2> HIDE DEF N
  <2> QED BY <1>1, <1>2, <1>8, <2>1, Along
<1> QED BY <1>7, <1>8, <1>9 DEF V

LEMMA ReplayType ==
  ASSUME NEW l \in Seq(Event)
  PROVE  Replay(l) \in View
BY ViewsDef DEF Replay

LEMMA ReplayEmpty == Replay(<< >>) = NoView
<1>1. << >> \in Seq(Event) /\ Len(<< >>) = 0
  OBVIOUS
<1> QED BY <1>1, ViewsDef DEF Replay

\* One more event is one more fold: what record does live, a rebuild does again.
LEMMA ReplayAppend ==
  ASSUME NEW l \in Seq(Event), NEW e \in Event
  PROVE  Replay(Append(l, e)) = Fold(Replay(l), e)
<1> DEFINE k == Append(l, e)
           N == Len(l)
           S == {n \in Nat : Views(k)[n] = Views(l)[n]}
           u == [i \in 0 .. N |-> i]
<1>1. /\ k \in Seq(Event) /\ Len(k) = N + 1 /\ N \in Nat /\ k[N + 1] = e
      /\ \A i \in 1 .. N : k[i] = l[i]
  OBVIOUS
<1> HIDE DEF k
<1>2. /\ Views(k)[0] = NoView /\ Views(l)[0] = NoView
      /\ \A i \in 1 .. N + 1 : Views(k)[i] = Fold(Views(k)[i - 1], k[i])
      /\ \A i \in 1 .. N : Views(l)[i] = Fold(Views(l)[i - 1], l[i])
  BY <1>1, ViewsDef
<1> HIDE DEF N
<1>3. \A i \in 0 .. N : u[i] \in S
  <2>1. u[0] \in S
    BY <1>1, <1>2
  <2>2. ASSUME NEW i \in 1 .. N, u[i - 1] \in S PROVE u[i] \in S
    <3>1. /\ i \in 1 .. N + 1 /\ i \in Nat /\ i - 1 \in 0 .. N /\ i \in 0 .. N
      BY <1>1
    <3>2. u[i - 1] = i - 1 /\ u[i] = i
      BY <3>1
    <3>3. Views(k)[i - 1] = Views(l)[i - 1]
      BY <2>2, <3>2
    <3>4. Views(k)[i] = Views(l)[i]
      BY <1>1, <1>2, <3>1, <3>3
    <3> QED BY <3>1, <3>2, <3>4
  <2> HIDE DEF S, u
  <2> QED BY <1>1, <2>1, <2>2, Along
<1>4. Views(k)[N] = Views(l)[N]
  <2>1. u[N] = N /\ N \in 0 .. N
    BY <1>1
  <2> QED BY <1>3, <2>1
<1>5. N + 1 \in 1 .. N + 1 /\ (N + 1) - 1 = N
  BY <1>1
<1>6. Views(k)[N + 1] = Fold(Views(l)[N], e)
  BY <1>1, <1>2, <1>4, <1>5
<1>7. Replay(k) = Views(k)[N + 1] /\ Replay(l) = Views(l)[N]
  BY <1>1 DEF Replay, N
<1> QED BY <1>6, <1>7 DEF k

RedactEvent(e, c) ==
  IF e.type = "ProposalGenerated" /\ e.cand = c THEN [e EXCEPT !.summary = "redacted"] ELSE e

Redacted(r) == IF r = None THEN None ELSE [r EXCEPT !.summary = "redacted"]

LEMMA RedactsActing ==
  ASSUME NEW e \in Event, NEW c \in Candidate
  PROVE  /\ RedactEvent(e, c) \in Event /\ RedactEvent(e, c).type = e.type
         /\ e.type # "ProposalGenerated" => RedactEvent(e, c) = e
         /\ e.type \in Acting => RedactEvent(e, c) = e
<1>1. CASE e.type = "ProposalGenerated"
  <2>1. [e EXCEPT !.summary = "redacted"] \in
          [type : {"ProposalGenerated"}, cand : Candidate, summary : {"text", "redacted"}]
    BY <1>1, EventFields
  <2> QED BY <1>1, <2>1 DEF RedactEvent, Event, Acting
<1>2. CASE e.type # "ProposalGenerated"
  BY <1>2 DEF RedactEvent
<1> QED BY <1>1, <1>2

LEMMA RedactLogIs ==
  ASSUME NEW l \in Seq(Event), NEW c \in Candidate
  PROVE  /\ RedactLog(l, c) \in Seq(Event)
         /\ Len(RedactLog(l, c)) = Len(l)
         /\ \A n \in 1 .. Len(l) : RedactLog(l, c)[n] = RedactEvent(l[n], c)
<1>1. \A e \in Event : RedactEvent(e, c) \in Event
  BY RedactsActing
<1>2. RedactLog(l, c) = [n \in 1 .. Len(l) |-> RedactEvent(l[n], c)]
  BY DEF RedactLog, RedactEvent
<1>3. \A n \in 1 .. Len(l) : l[n] \in Event
  OBVIOUS
<1> QED BY <1>1, <1>2, <1>3

LEMMA RedactRowIs ==
  ASSUME NEW v \in View, NEW c \in Candidate
  PROVE  /\ RedactRow(v, c) \in View
         /\ RedactRow(v, c).entities = v.entities
         /\ \A d \in Candidate : RedactRow(v, c).proposals[d] =
              IF d = c THEN Redacted(v.proposals[d]) ELSE v.proposals[d]
<1> DEFINE P == v.proposals
           Q == [P EXCEPT ![c] = Redacted(P[c])]
<1>1. P \in [Candidate -> Row \union {None}] /\ v.entities \in Tables
  BY DEF View
<1>2. RedactRow(v, c) = [proposals |-> Q, entities |-> v.entities]
  BY DEF RedactRow, Redacted, View
<1>3. Redacted(P[c]) \in Row \union {None}
  BY <1>1 DEF Redacted, Row
<1>4. Q \in [Candidate -> Row \union {None}]
  BY <1>1, <1>3
<1> QED BY <1>1, <1>2, <1>4 DEF View

LEMMA SameView ==
  ASSUME NEW v \in View, NEW w \in View, v.entities = w.entities,
         \A d \in Candidate : v.proposals[d] = w.proposals[d]
  PROVE  v = w
<1>1. v.proposals = w.proposals
  BY DEF View
<1> QED BY <1>1 DEF View

LEMMA RedactedRow ==
  ASSUME NEW r \in Row \union {None}
  PROVE  /\ Redacted(r) \in Row \union {None}
         /\ Redacted(r) = None <=> r = None
         /\ r # None => /\ Redacted(r).state = r.state /\ Redacted(r).entity = r.entity
                        /\ Redacted(r).reason = r.reason /\ Redacted(r).summary = "redacted"
BY LedgerAssumption DEF Redacted, Row


\* What the redaction does to rows commutes with what an event does to them.
LEMMA RowRedacted ==
  ASSUME NEW c \in Candidate, NEW r \in Row \union {None}, NEW e \in Event
  PROVE  /\ Redacted(RowAfter(r, c, e)) = RowAfter(Redacted(r), c, RedactEvent(e, c))
         /\ \A d \in Candidate : d # c => RowAfter(r, d, RedactEvent(e, c)) = RowAfter(r, d, e)
<1>1. /\ RedactEvent(e, c) = e \/ /\ e.type = "ProposalGenerated" /\ e.cand = c
                                  /\ RedactEvent(e, c) = [e EXCEPT !.summary = "redacted"]
  BY DEF RedactEvent
<1>2. Redacted(None) = None
  BY DEF Redacted
<1>3. \A s \in Row : Redacted(s) = [state |-> s.state, entity |-> s.entity,
                                   summary |-> "redacted", reason |-> s.reason]
  BY RowFields, LedgerAssumption DEF Redacted
<1>4. CASE e.type = "ProposalGenerated"
  <2>1. e \in [type : {"ProposalGenerated"}, cand : Candidate, summary : {"text", "redacted"}]
    BY <1>4, EventFields
  <2> DEFINE f == RedactEvent(e, c)
  <2>2. /\ f.type = "ProposalGenerated" /\ f.cand = e.cand
        /\ e.cand = c => f.summary = "redacted"
        /\ e.cand # c => f = e
    BY <1>4, <2>1 DEF RedactEvent
  <2> HIDE DEF f
  <2>3. \A d \in Candidate : d # c => RowAfter(r, d, f) = RowAfter(r, d, e)
    BY <1>4, <2>2 DEF RowAfter
  <2>4. Redacted(RowAfter(r, c, e)) = RowAfter(Redacted(r), c, f)
    <3>1. CASE e.cand # c
      BY <1>4, <2>2, <3>1 DEF RowAfter
    <3>2. CASE e.cand = c
      <4> DEFINE s == IF r = None THEN "pending" ELSE r.state
                 q == IF r = None THEN "none" ELSE r.reason
      <4>1. /\ s = IF Redacted(r) = None THEN "pending" ELSE Redacted(r).state
            /\ q = IF Redacted(r) = None THEN "none" ELSE Redacted(r).reason
        BY <1>2, <1>3, RedactedRow
      <4>2. /\ RowAfter(r, c, e) = [state |-> s, entity |-> Planned(c), summary |-> e.summary,
                                    reason |-> q]
            /\ RowAfter(Redacted(r), c, f) = [state |-> s, entity |-> Planned(c),
                                              summary |-> "redacted", reason |-> q]
        BY <1>4, <2>2, <3>2, <4>1 DEF RowAfter
      <4>3. RowAfter(r, c, e) \in Row
        <5>1. /\ s \in {"pending", "applied", "rejected"} /\ Planned(c) \in Id
              /\ q \in {"none", "feedback", "rejection"} /\ e.summary \in {"text", "redacted"}
          BY <2>1, PlannedType DEF Row
        <5> HIDE DEF s, q
        <5> QED BY <4>2, <5>1 DEF Row
      <4> HIDE DEF s, q
      <4>4. Redacted(RowAfter(r, c, e)) = [state |-> s, entity |-> Planned(c),
                                           summary |-> "redacted", reason |-> q]
        BY <1>3, <4>2, <4>3
      <4> QED BY <4>2, <4>4
    <3> QED BY <3>1, <3>2
  <2> QED BY <2>3, <2>4 DEF f
<1>5. CASE e.type # "ProposalGenerated"
  <2>1. RedactEvent(e, c) = e
    BY <1>5 DEF RedactEvent
  <2>2. CASE r = None
    BY <1>2, <1>5, <2>1, <2>2 DEF RowAfter
  <2>3. CASE r \in Row
    <3>1. RowAfter(r, c, e) \in Row
      <4>1. RowAfter(r, c, e) \in Row \union {None} /\ (e.type = "TaskProposed" => e.id \in Id)
        BY RowAfterType, EventFields DEF Acting
      <4> QED BY <1>5, <2>3, <4>1, LedgerAssumption DEF RowAfter, Row
    <3>2. Redacted(RowAfter(r, c, e)) =
            [state |-> RowAfter(r, c, e).state, entity |-> RowAfter(r, c, e).entity,
             summary |-> "redacted", reason |-> RowAfter(r, c, e).reason]
      BY <1>3, <3>1
    <3>3. Redacted(r) = [state |-> r.state, entity |-> r.entity, summary |-> "redacted",
                         reason |-> r.reason]
      BY <1>3, <2>3
    <3>4. Redacted(r) # None /\ r # None
      BY <2>3, RedactedRow, LedgerAssumption
    <3>5. RowAfter(Redacted(r), c, e) =
            [state |-> RowAfter(r, c, e).state, entity |-> RowAfter(r, c, e).entity,
             summary |-> "redacted", reason |-> RowAfter(r, c, e).reason]
      BY <1>5, <3>3, <3>4 DEF RowAfter
    <3> QED BY <2>1, <3>2, <3>5
  <2> QED BY <2>2, <2>3
<1> QED BY <1>4, <1>5

\* Folding a redacted event over a redacted view redacts the fold.
LEMMA FoldRedacted ==
  ASSUME NEW v \in View, NEW e \in Event, NEW c \in Candidate
  PROVE  Fold(RedactRow(v, c), RedactEvent(e, c)) = RedactRow(Fold(v, e), c)
<1> DEFINE w == RedactRow(v, c)
           f == RedactEvent(e, c)
<1>1. /\ w \in View /\ w.entities = v.entities
      /\ \A d \in Candidate : w.proposals[d] = IF d = c THEN Redacted(v.proposals[d])
                                                ELSE v.proposals[d]
  BY RedactRowIs
<1>2. f \in Event /\ f.type = e.type /\ (e.type # "ProposalGenerated" => f = e)
  BY RedactsActing
<1> HIDE DEF w, f
<1> DEFINE x == Fold(w, f)
           u == Fold(v, e)
           y == RedactRow(u, c)
<1>3. x \in View /\ u \in View
  BY <1>1, <1>2, FoldIs
<1>4. /\ y \in View /\ y.entities = u.entities
      /\ \A d \in Candidate : y.proposals[d] = IF d = c THEN Redacted(u.proposals[d])
                                                ELSE u.proposals[d]
  BY <1>3, RedactRowIs
<1>5. x.entities = u.entities
  <2>1. \A q : /\ [v EXCEPT !.proposals = q] = [proposals |-> q, entities |-> v.entities]
               /\ [v EXCEPT !.entities = q] = [proposals |-> v.proposals, entities |-> q]
               /\ [w EXCEPT !.proposals = q] = [proposals |-> q, entities |-> w.entities]
               /\ [w EXCEPT !.entities = q] = [proposals |-> w.proposals, entities |-> q]
    BY <1>1 DEF View
  <2>2. CASE e.type \in {"ProposalGenerated", "ProposalRejected", "ProposalFeedback"}
    BY <1>1, <1>2, <2>1, <2>2 DEF Fold
  <2>3. CASE e.type = "TaskApplied"
    <3>1. f = e /\ ApplyTask(w, e) = ApplyTask(v, e)
      <4>1. f = e
        BY <1>2, <2>3
      <4>2. w.entities = v.entities
        BY <1>1
      <4> QED BY <4>1, <4>2, Zenon DEF ApplyTask
    <3>2. /\ Fold(w, e) = [w EXCEPT !.entities = ApplyTask(w, e)]
          /\ Fold(v, e) = [v EXCEPT !.entities = ApplyTask(v, e)]
      BY <2>3, Zenon DEF Fold
    <3>3. PICK q : q = ApplyTask(w, e) /\ q = ApplyTask(v, e)
      BY <3>1
    <3>4. /\ Fold(w, e) = [proposals |-> w.proposals, entities |-> q]
          /\ Fold(v, e) = [proposals |-> v.proposals, entities |-> q]
      BY <2>1, <3>2, <3>3, Zenon
    <3> QED BY <3>1, <3>4
  <2>4. CASE e.type \in Acting
    <3>1. f = e
      BY <1>2, <2>4 DEF Acting
    <3>2. CASE e.type = "TaskProposed"
      BY <1>1, <3>1, <3>2 DEF Fold, ProposeTask
    <3>3. CASE e.type = "InboxItemTriaged"
      BY <1>1, <3>1, <3>3 DEF Fold
    <3>4. CASE e.type = "ReplyDraftProposed"
      BY <1>1, <3>1, <3>4 DEF Fold
    <3> QED BY <2>4, <3>2, <3>3, <3>4 DEF Acting
  <2> QED BY <2>2, <2>3, <2>4, EventFields
<1>6. ASSUME NEW d \in Candidate PROVE x.proposals[d] = y.proposals[d]
  <2>1. /\ x.proposals[d] = RowAfter(w.proposals[d], d, f)
        /\ u.proposals[d] = RowAfter(v.proposals[d], d, e)
        /\ v.proposals[d] \in Row \union {None}
    BY <1>1, <1>2, FoldIs DEF View
  <2> HIDE DEF x, u, y
  <2> QED BY <1>1, <1>4, <2>1, RowRedacted DEF f
<1>7. x = y
  <2> HIDE DEF x, u, y
  <2> QED BY <1>3, <1>4, <1>5, <1>6, SameView
<1> QED BY <1>7 DEF w, f

\* A rebuild of the redacted log yields the redacted view.
LEMMA ReplayRedact ==
  ASSUME NEW l \in Seq(Event), NEW c \in Candidate
  PROVE  Replay(RedactLog(l, c)) = RedactRow(Replay(l), c)
<1> DEFINE k == RedactLog(l, c)
           N == Len(l)
           V == Views(l)
           W == Views(k)
           S == {n \in Nat : W[n] = RedactRow(V[n], c)}
           u == [i \in 0 .. N |-> i]
<1>1. /\ k \in Seq(Event) /\ Len(k) = N /\ N \in Nat
      /\ \A n \in 1 .. N : k[n] = RedactEvent(l[n], c) /\ l[n] \in Event
  BY RedactLogIs
<1> HIDE DEF k
<1>2. /\ V[0] = NoView /\ \A i \in 1 .. N : V[i] = Fold(V[i - 1], l[i])
      /\ W[0] = NoView /\ \A i \in 1 .. N : W[i] = Fold(W[i - 1], k[i])
      /\ \A i \in 0 .. N : V[i] \in View
  BY <1>1, ViewsDef
<1> HIDE DEF N, V, W
<1>3. NoView = RedactRow(NoView, c)
  <2>1. NoView \in View /\ \A d \in Candidate : NoView.proposals[d] = None
    <3>1. NoView \in View
      BY <1>1, <1>2
    <3> QED BY <3>1 DEF NoView
  <2>2. /\ RedactRow(NoView, c) \in View
        /\ RedactRow(NoView, c).entities = NoView.entities
        /\ \A d \in Candidate : RedactRow(NoView, c).proposals[d] = NoView.proposals[d]
    <3>1. \A d \in Candidate :
            RedactRow(NoView, c).proposals[d] =
              IF d = c THEN Redacted(NoView.proposals[d]) ELSE NoView.proposals[d]
      BY <2>1, RedactRowIs
    <3>2. Redacted(None) = None
      BY DEF Redacted
    <3>3. \A d \in Candidate : RedactRow(NoView, c).proposals[d] = NoView.proposals[d]
      BY <2>1, <3>1, <3>2
    <3> QED BY <2>1, <3>3, RedactRowIs
  <2> QED BY <2>1, <2>2, SameView
<1>4. \A i \in 0 .. N : u[i] \in S
  <2>1. u[0] \in S
    BY <1>1, <1>2, <1>3
  <2>2. ASSUME NEW i \in 1 .. N, u[i - 1] \in S PROVE u[i] \in S
    <3>1. i \in Nat /\ i - 1 \in 0 .. N /\ i \in 0 .. N
      BY <1>1
    <3>2. u[i - 1] = i - 1 /\ u[i] = i
      BY <3>1
    <3>3. W[i - 1] = RedactRow(V[i - 1], c)
      BY <2>2, <3>2
    <3>4. W[i] = RedactRow(V[i], c)
      BY <1>1, <1>2, <3>1, <3>3, FoldRedacted
    <3> QED BY <3>1, <3>2, <3>4
  <2> HIDE DEF S, u
  <2> QED BY <1>1, <2>1, <2>2, Along
<1>5. W[N] = RedactRow(V[N], c)
  <2>1. u[N] = N /\ N \in 0 .. N
    BY <1>1
  <2> QED BY <1>4, <2>1
<1> QED BY <1>1, <1>5 DEF Replay, V, W, N, k
-----------------------------------------------------------------------------
(***************************************************************************)
(* Counting what became of a candidate, and minting.                       *)
(***************************************************************************)

Made(l, c) == {n \in DOMAIN l : l[n].type \in Acting /\ l[n].cand = c}

Count(l, c) == Cardinality(Made(l, c))

LEMMA MadeFinite ==
  ASSUME NEW l \in Seq(Event), NEW c \in Candidate
  PROVE  IsFiniteSet(Made(l, c)) /\ Count(l, c) \in Nat /\ Made(l, c) \subseteq 1 .. Len(l)
<1>1. Made(l, c) \subseteq 1 .. Len(l) /\ 1 \in Int /\ Len(l) \in Int
  BY DEF Made
<1>2. IsFiniteSet(1 .. Len(l))
  BY <1>1, FS_Interval
<1>3. IsFiniteSet(Made(l, c))
  BY <1>1, <1>2, FS_Subset
<1> QED BY <1>1, <1>3, FS_CardinalityType DEF Count

LEMMA CountAppend ==
  ASSUME NEW l \in Seq(Event), NEW e \in Event, NEW c \in Candidate
  PROVE  Count(Append(l, e), c) =
           IF e.type \in Acting /\ e.cand = c THEN Count(l, c) + 1 ELSE Count(l, c)
<1>1. /\ Len(l) \in Nat /\ DOMAIN Append(l, e) = 1 .. Len(l) + 1 /\ DOMAIN l = 1 .. Len(l)
      /\ Append(l, e)[Len(l) + 1] = e /\ \A n \in 1 .. Len(l) : Append(l, e)[n] = l[n]
  OBVIOUS
<1>2. IsFiniteSet(Made(l, c)) /\ Made(l, c) \subseteq 1 .. Len(l)
  BY MadeFinite
<1>3. Len(l) + 1 \notin Made(l, c)
  BY <1>1, <1>2
<1>4. CASE e.type \in Acting /\ e.cand = c
  <2>1. Made(Append(l, e), c) = Made(l, c) \union {Len(l) + 1}
    <3> DEFINE k == Append(l, e)
    <3>1. \A n \in 1 .. Len(l) : k[n] = l[n]
      BY <1>1
    <3>2. k[Len(l) + 1] = e /\ DOMAIN k = 1 .. Len(l) + 1 /\ DOMAIN l = 1 .. Len(l)
      BY <1>1
    <3> HIDE DEF k
    <3>3. \A n : n \in 1 .. Len(l) + 1 <=> n \in 1 .. Len(l) \/ n = Len(l) + 1
      BY <1>1
    <3>4. \A n : n \in Made(k, c) <=> n \in Made(l, c) \/ n = Len(l) + 1
      BY <1>4, <3>1, <3>2, <3>3, Zenon DEF Made
    <3>5. Made(k, c) = Made(l, c) \union {Len(l) + 1}
      BY <3>4
    <3> QED BY <3>5, Zenon DEF k
  <2>2. Cardinality(Made(l, c) \union {Len(l) + 1}) = Cardinality(Made(l, c)) + 1
    <3> PICK T : T = Made(l, c)
      OBVIOUS
    <3>1. IsFiniteSet(T) /\ Len(l) + 1 \notin T
      BY <1>2, <1>3
    <3>2. Cardinality(T \union {Len(l) + 1}) = Cardinality(T) + 1
      BY <3>1, FS_AddElement
    <3> QED BY <3>2
  <2> QED BY <1>4, <2>1, <2>2 DEF Count
<1>5. CASE ~(e.type \in Acting /\ e.cand = c)
  <2>1. Made(Append(l, e), c) = Made(l, c)
    BY <1>1, <1>5 DEF Made
  <2> QED BY <1>5, <2>1 DEF Count
<1> QED BY <1>4, <1>5

LEMMA CountRedact ==
  ASSUME NEW l \in Seq(Event), NEW c \in Candidate, NEW d \in Candidate
  PROVE  Count(RedactLog(l, d), c) = Count(l, c)
<1>1. /\ DOMAIN RedactLog(l, d) = 1 .. Len(l) /\ DOMAIN l = 1 .. Len(l)
      /\ \A n \in 1 .. Len(l) : RedactLog(l, d)[n] = RedactEvent(l[n], d) /\ l[n] \in Event
  BY RedactLogIs
<1>2. \A e \in Event : /\ RedactEvent(e, d).type = e.type
                       /\ e.type \in Acting => RedactEvent(e, d) = e
  BY RedactsActing
<1>3. Made(RedactLog(l, d), c) = Made(l, c)
  BY <1>1, <1>2 DEF Made
<1> QED BY <1>3 DEF Count

\* A minted id has no row: among one more ids than there are rows one is free.
LEMMA MintFree ==
  ASSUME NEW v \in View, NEW b \in Base
  PROVE  /\ mintEntityId(v, b) \in Id \ DOMAIN v.entities
         /\ mintEntityId(v, b)[1] = b
<1> DEFINE D == DOMAIN v.entities
           N == Cardinality(D)
           Free == {n \in 1 .. N + 1 : nthId(b, n) \notin D}
<1>1. IsFiniteSet(D) /\ N \in Nat
  BY TablesOf, FS_CardinalityType DEF View
<1> HIDE DEF D, N
<1>2. Free # {}
  <2> SUFFICES ASSUME \A n \in 1 .. N + 1 : nthId(b, n) \in D PROVE FALSE
    OBVIOUS
  <2> DEFINE f == [n \in 1 .. N + 1 |-> nthId(b, n)]
  <2>1. f \in Injection(1 .. N + 1, D)
    BY DEF Injection, IsInjective, nthId
  <2>2. Cardinality(1 .. N + 1) <= N
    BY <1>1, <2>1, FS_Injection DEF ExistsInjection, N
  <2>3. Cardinality(1 .. N + 1) = N + 1
    BY <1>1, FS_Interval
  <2> QED BY <1>1, <2>2, <2>3
<1>3. PICK x \in Free : \A y \in Free : x <= y
  <2>1. Free \in SUBSET Nat
    BY <1>1
  <2> HIDE DEF Free
  <2> QED BY <1>2, <2>1, NatMin
<1>4. /\ x \in 1 .. N + 1 /\ nthId(b, x) \notin D
      /\ \A m \in 1 .. x - 1 : nthId(b, m) \in D
  <2>1. \A m \in 1 .. x - 1 : m \in 1 .. N + 1 /\ ~ (x <= m)
    BY <1>1, <1>3
  <2> QED BY <1>3, <2>1
<1>5. PICK n \in 1 .. N + 1 : mintEntityId(v, b) = nthId(b, n) /\ nthId(b, n) \notin D
  BY <1>4 DEF mintEntityId, D, N
<1> QED BY <1>1, <1>5 DEF nthId, Id, D
-----------------------------------------------------------------------------
(***************************************************************************)
(* What log and projections keep together, event by event.                 *)
(***************************************************************************)

HasEntity(v, b) == \E i \in DOMAIN v.entities : i[1] = b

IsDone(e) == e.type = "InboxItemTriaged" /\ e.cand = None /\ e.to = "done"

\* A pending row still names the id its candidate was generated with.
PlannedOK(v) == \A c \in Candidate : IsPending(v, c) => v.proposals[c].entity = Planned(c)

\* No entity is ever deleted: what the log created is there.
Logged(l, v) ==
  \A n \in 1 .. Len(l) : l[n].type \in Acting => l[n].id \in DOMAIN v.entities

MakesMinted(e) == e.type \in Acting /\ e.cand \in Minted

Apart(l) ==
  \A m, n \in 1 .. Len(l) :
     MakesMinted(l[m]) /\ MakesMinted(l[n]) /\ m # n => l[m].id # l[n].id

DoneHas(l, v) ==
  \A n \in 1 .. Len(l) : IsDone(l[n]) => HasEntity(v, TaskOf[l[n].id[1]])

\* `a` is whether calls never overlap.
LInv(a, l, v) ==
  /\ l \in Seq(Event)
  /\ v = Replay(l)
  /\ PlannedOK(v)
  /\ Logged(l, v)
  /\ a => Apart(l)
  /\ DoneHas(l, v)

\* An event that may be recorded over the view v.
Fits(a, v, e) ==
  /\ e \in Event
  /\ a /\ MakesMinted(e) => e.id \notin DOMAIN v.entities
  /\ IsDone(e) => HasEntity(v, TaskOf[e.id[1]])

LEMMA LInvEmpty ==
  ASSUME NEW a
  PROVE  LInv(a, << >>, NoView)
<1>1. << >> \in Seq(Event) /\ Len(<< >>) = 0 /\ 1 .. 0 = {}
  OBVIOUS
<1>2. \A c \in Candidate : ~ IsPending(NoView, c)
  BY DEF IsPending, NoView
<1> QED BY <1>1, <1>2, ReplayEmpty DEF LInv, PlannedOK, Logged, Apart, DoneHas

LEMMA Extend ==
  ASSUME NEW a, NEW l, NEW v, NEW e, LInv(a, l, v), Fits(a, v, e)
  PROVE  LInv(a, Append(l, e), Fold(v, e))
<1> DEFINE k == Append(l, e)
           w == Fold(v, e)
           N == Len(l)
<1>1. /\ l \in Seq(Event) /\ e \in Event /\ N \in Nat
      /\ k \in Seq(Event) /\ Len(k) = N + 1 /\ k[N + 1] = e
      /\ \A n \in 1 .. N : k[n] = l[n]
  BY DEF LInv, Fits
<1>2. \A n \in 1 .. N + 1 : n \in 1 .. N \/ n = N + 1
  BY <1>1
<1>3. v \in View /\ w = Replay(k)
  BY <1>1, ReplayType, ReplayAppend DEF LInv
<1>4. /\ Grows(v, w)
      /\ e.type \in Acting => e.id \in DOMAIN w.entities
      /\ \A c \in Candidate : w.proposals[c] = RowAfter(v.proposals[c], c, e)
  BY <1>1, <1>3, FoldIs
<1> HIDE DEF k, w, N
<1>5. PlannedOK(w)
  <2> SUFFICES ASSUME NEW c \in Candidate, IsPending(w, c)
               PROVE  w.proposals[c].entity = Planned(c)
    BY DEF PlannedOK
  <2> DEFINE r == v.proposals[c]
             s == w.proposals[c]
  <2>1. r \in Row \union {None} /\ s = RowAfter(r, c, e)
    BY <1>3, <1>4 DEF View
  <2>2. r # None /\ r.state = "pending" => r.entity = Planned(c)
    BY DEF LInv, PlannedOK, IsPending
  <2>3. s # None /\ s.state = "pending"
    BY DEF IsPending
  <2> HIDE DEF r, s
  <2>4. s.entity = Planned(c)
    BY <2>1, <2>2, <2>3, LedgerAssumption DEF RowAfter
  <2> QED BY <2>4 DEF s
<1>6. Logged(k, w)
  <2> SUFFICES ASSUME NEW n \in 1 .. N + 1, k[n].type \in Acting
               PROVE  k[n].id \in DOMAIN w.entities
    BY <1>1 DEF Logged
  <2>1. CASE n \in 1 .. N
    BY <1>1, <1>4, <2>1 DEF LInv, Logged, Grows, N
  <2>2. CASE n = N + 1
    BY <1>1, <1>4, <2>2
  <2> QED BY <1>2, <2>1, <2>2
<1>7. a => Apart(k)
  <2> SUFFICES ASSUME a, NEW m \in 1 .. N + 1, NEW n \in 1 .. N + 1,
                      MakesMinted(k[m]), MakesMinted(k[n]), m # n
               PROVE  k[m].id # k[n].id
    BY <1>1 DEF Apart
  <2>1. \A i \in 1 .. N : MakesMinted(l[i]) => l[i].id \in DOMAIN v.entities
    BY DEF LInv, Logged, MakesMinted, N
  <2>2. MakesMinted(e) => e.id \notin DOMAIN v.entities
    BY DEF Fits
  <2>3. CASE m \in 1 .. N /\ n \in 1 .. N
    BY <1>1, <2>3 DEF LInv, Apart, N
  <2> QED BY <1>1, <1>2, <2>1, <2>2, <2>3
<1>8. DoneHas(k, w)
  <2>1. \A b : HasEntity(v, b) => HasEntity(w, b)
    BY <1>4 DEF HasEntity, Grows
  <2> QED BY <1>1, <1>2, <2>1 DEF LInv, DoneHas, Fits, N
<1> QED BY <1>1, <1>3, <1>5, <1>6, <1>7, <1>8 DEF LInv, k, w

LEMMA Redacts ==
  ASSUME NEW a, NEW l, NEW v, NEW c \in Candidate, LInv(a, l, v)
  PROVE  LInv(a, RedactLog(l, c), RedactRow(v, c))
<1> DEFINE k == RedactLog(l, c)
           w == RedactRow(v, c)
<1>1. l \in Seq(Event) /\ v = Replay(l) /\ v \in View
  BY ReplayType DEF LInv
<1>2. k \in Seq(Event) /\ Len(k) = Len(l) /\ w = Replay(k)
  BY <1>1, RedactLogIs, ReplayRedact
<1>3. /\ w.entities = v.entities
      /\ \A d \in Candidate : /\ v.proposals[d] \in Row \union {None}
                              /\ w.proposals[d] = IF d = c THEN Redacted(v.proposals[d])
                                                   ELSE v.proposals[d]
  BY <1>1, RedactRowIs DEF View
<1>4. \A n \in 1 .. Len(l) : /\ k[n].type = l[n].type
                             /\ l[n].type \in Acting => k[n] = l[n]
  <2>1. \A n \in 1 .. Len(l) : k[n] = RedactEvent(l[n], c) /\ l[n] \in Event
    BY <1>1, RedactLogIs
  <2> HIDE DEF k
  <2> QED BY <2>1, RedactsActing
<1> HIDE DEF k, w
<1>5. PlannedOK(w)
  <2>1. \A d \in Candidate : IsPending(w, d) =>
          IsPending(v, d) /\ w.proposals[d].entity = v.proposals[d].entity
    BY <1>3, RedactedRow DEF IsPending
  <2> QED BY <2>1 DEF LInv, PlannedOK
<1>6. Logged(k, w)
  BY <1>2, <1>3, <1>4 DEF LInv, Logged
<1>7. a => Apart(k)
  BY <1>2, <1>4 DEF LInv, Apart, MakesMinted
<1>8. DoneHas(k, w)
  <2>1. \A n \in 1 .. Len(l) : IsDone(k[n]) => IsDone(l[n]) /\ k[n] = l[n]
    BY <1>4 DEF IsDone, Acting
  <2>2. \A b : HasEntity(v, b) => HasEntity(w, b)
    BY <1>3 DEF HasEntity
  <2> QED BY <1>2, <2>1, <2>2 DEF LInv, DoneHas
<1> QED BY <1>2, <1>5, <1>6, <1>7, <1>8 DEF LInv, k, w

Decided(r) == r # None /\ r.state \in {"applied", "rejected"}

\* A decided row keeps verdict and reason.
Kept(r, s) == Decided(r) => s # None /\ s.state = r.state /\ s.reason = r.reason

\* A redacted summary of a decided row stays redacted.
Shut(r, s) == Decided(r) /\ r.summary = "redacted" => s.summary = "redacted"

\* What one event makes of the state of a candidate.
LEMMA StateAfter ==
  ASSUME NEW v \in View, NEW e \in Event, NEW c \in Candidate, PlannedOK(v),
         e.type \in Acting /\ e.type # "TaskProposed" /\ e.cand = c => e.id = Planned(c)
  PROVE  LET w == Fold(v, e)
             x == StateOf(v, c)
             y == StateOf(w, c)
         IN  /\ x \in {"unknown", "pending", "applied", "rejected"}
             /\ Kept(v.proposals[c], w.proposals[c])
             /\ ~ (e.type = "ProposalGenerated" /\ e.cand = c) =>
                  Shut(v.proposals[c], w.proposals[c])
             /\ \/ y = x
                \/ e.type = "ProposalGenerated" /\ e.cand = c /\ x = "unknown" /\ y = "pending"
                \/ e.type = "ProposalRejected" /\ e.cand = c /\ x = "pending" /\ y = "rejected"
                \/ e.type \in Acting /\ x = "pending" /\ y = "applied"
             /\ e.type \in Acting /\ e.cand = c /\ x = "pending" => y = "applied"
             /\ e.type = "ProposalRejected" /\ e.cand = c /\ x = "pending" => y = "rejected"
<1> DEFINE r == v.proposals[c]
           s == Fold(v, e).proposals[c]
<1>1. r \in Row \union {None} /\ s = RowAfter(r, c, e)
  BY FoldIs DEF View
<1>2. s \in Row \union {None}
  BY <1>1, RowAfterType
<1>3. /\ StateOf(v, c) = IF r = None THEN "unknown" ELSE r.state
      /\ StateOf(Fold(v, e), c) = IF s = None THEN "unknown" ELSE s.state
  BY DEF StateOf
<1>4. r # None /\ r.state = "pending" => r.entity = Planned(c)
  BY DEF PlannedOK, IsPending
<1>5. /\ e.type \in Acting \union {"ProposalGenerated", "ProposalRejected", "ProposalFeedback",
                                  "TaskApplied"}
  BY EventFields
<1> HIDE DEF r, s
<1>6. CASE e.type = "ProposalGenerated"
  <2>1. CASE e.cand = c
    <3>1. s = [state   |-> IF r = None THEN "pending" ELSE r.state,
               entity  |-> Planned(c),
               summary |-> e.summary,
               reason  |-> IF r = None THEN "none" ELSE r.reason]
      BY <1>1, <1>6, <2>1 DEF RowAfter
    <3>2. s # None
      <4>1. /\ Planned(c) \in Id /\ e.summary \in {"text", "redacted"}
        BY <1>6, EventFields, PlannedType
      <4>2. s \in Row
        BY <1>1, <3>1, <4>1 DEF Row
      <4> QED BY <4>2, LedgerAssumption
    <3> QED BY <1>1, <1>3, <1>6, <2>1, <3>1, <3>2, LedgerAssumption
            DEF Kept, Shut, Decided, Row, r, s, Acting
  <2>2. CASE e.cand # c
    <3>1. s = r
      BY <1>1, <1>6, <2>2 DEF RowAfter
    <3> QED BY <1>1, <1>3, <1>6, <2>2, <3>1 DEF Kept, Shut, Decided, Row, r, s, Acting
  <2> QED BY <2>1, <2>2
<1>7. CASE e.type # "ProposalGenerated"
  <2>1. CASE r = None
    <3>1. s = None
      BY <1>1, <1>7, <2>1 DEF RowAfter
    <3> QED BY <1>3, <1>7, <2>1, <3>1 DEF Kept, Shut, Decided, r, s
  <2>2. CASE r \in Row /\ r.state # "pending"
    <3>1. s = r /\ r # None
      BY <1>1, <1>7, <2>2, LedgerAssumption DEF RowAfter
    <3> QED BY <1>3, <1>7, <2>2, <3>1 DEF Kept, Shut, Decided, Row, r, s
  <2>3. CASE r \in Row /\ r.state = "pending"
    <3>1. r # None /\ ~ Decided(r)
      BY <2>3, LedgerAssumption DEF Decided
    <3>2. /\ s # None /\ s.state \in {"pending", "applied", "rejected"}
          /\ s.state = "applied" => e.type \in Acting
          /\ s.state = "rejected" => e.type = "ProposalRejected" /\ e.cand = c
          /\ e.type \in Acting /\ e.cand = c => s.state = "applied"
          /\ e.type = "ProposalRejected" /\ e.cand = c => s.state = "rejected"
      <4>1. s \in Row
        BY <1>1, <1>2, <1>7, <2>3, <3>1, EventFields, LedgerAssumption DEF RowAfter, Row, Acting
      <4>2. c # None /\ s # None
        BY <4>1, LedgerAssumption
      <4>3. s.state = RowAfter(r, c, e).state
        BY <1>1
      <4> QED BY <1>1, <1>4, <1>5, <1>7, <2>3, <3>1, <4>1, <4>2 DEF RowAfter, Row, Acting
    <3> QED BY <1>3, <1>7, <2>3, <3>1, <3>2 DEF Kept, Shut, r, s
  <2> QED BY <1>1, <2>1, <2>2, <2>3
<1> QED BY <1>6, <1>7
-----------------------------------------------------------------------------
(***************************************************************************)
(* A batch, operation by operation.                                        *)
(***************************************************************************)

\* Only a task or a decision is made under another id than the planned one.
Own(e) ==
  e.type \in Acting /\ e.type # "TaskProposed" /\ e.cand # None => e.id = Planned(e.cand)

LEMMA CandidateEvent ==
  ASSUME NEW a, NEW v \in View, NEW c \in Candidate
  PROVE  LET e == candidateToEvent(v, c) IN
         /\ e \in Event /\ e.type \in Acting /\ e.cand = c
         /\ Own(e)
         /\ Fits(a, v, e)
         /\ ~ IsDone(e)
         /\ MakesMinted(e) => e.id \notin DOMAIN v.entities
<1> DEFINE e == candidateToEvent(v, c)
           m == mintEntityId(v, BaseOf[c])
<1>1. /\ BaseOf[c] \in Base /\ Planned(c) \in Id /\ c # None
      /\ m \in Id /\ m \notin DOMAIN v.entities
  BY PlannedType, LedgerAssumption, MintFree
<1> HIDE DEF m
<1>2. CASE c \in Minted
  <2>1. e = [type |-> "TaskProposed", id |-> m, cand |-> c, due |-> FALSE]
    BY <1>2, LedgerAssumption DEF candidateToEvent, Proposed, m
  <2>2. e \in Event
    <3> HIDE DEF e
    <3>1. e \in [type : {"TaskProposed"}, id : Id, cand : Candidate \union {None}, due : BOOLEAN]
      BY <1>1, <2>1
    <3> QED BY <3>1 DEF Event
  <2> HIDE DEF e
  <2> QED BY <1>1, <2>1, <2>2 DEF Fits, Own, IsDone, Acting, e
<1>3. CASE c \in Triage /\ c \notin Minted
  <2>1. e = [type |-> "InboxItemTriaged", id |-> Planned(c), cand |-> c, to |-> Target[c]]
    BY <1>3, LedgerAssumption DEF candidateToEvent, Triaged
  <2>2. Target[c] \in ItemState
    BY <1>3, LedgerAssumption
  <2>3. e \in Event
    <3> HIDE DEF e
    <3>1. e \in [type : {"InboxItemTriaged"}, id : Id, cand : Candidate \union {None}, to : ItemState]
      BY <1>1, <2>1, <2>2
    <3> QED BY <3>1 DEF Event
  <2> HIDE DEF e
  <2> QED BY <1>1, <1>3, <2>1, <2>3 DEF Fits, Own, IsDone, Acting, MakesMinted, e
<1>4. CASE c \in Drafted /\ c \notin Minted
  <2>1. e = [type |-> "ReplyDraftProposed", id |-> Planned(c), cand |-> c]
    BY <1>4, LedgerAssumption DEF candidateToEvent, Draft
  <2>2. e \in Event
    <3> HIDE DEF e
    <3>1. e \in [type : {"ReplyDraftProposed"}, id : Id, cand : Candidate]
      BY <1>1, <2>1
    <3> QED BY <3>1 DEF Event
  <2> HIDE DEF e
  <2> QED BY <1>1, <1>4, <2>1, <2>2 DEF Fits, Own, IsDone, Acting, MakesMinted, e
<1> QED BY <1>2, <1>3, <1>4 DEF Candidate

BatchState == [log : Seq(Event), db : View, seen : SUBSET Candidate, ok : BOOLEAN]

\* What the batch has made of a candidate so far.  One without a row is acted upon at
\* most once, because the batch remembers it.
Moved(c, s) ==
  LET x == StateOf(db, c)
      y == StateOf(s.db, c)
      m == Count(log, c)
      n == Count(s.log, c)
  IN  \/ y = x /\ n = m
      \/ x = "pending" /\ y = "rejected" /\ n = m
      \/ x = "pending" /\ y = "applied" /\ n \in {m, m + 1}
      \/ x = "unknown" /\ y = "unknown" /\ n = m + 1 /\ c \in s.seen

BatchInv(s) ==
  /\ LInv(alone, s.log, s.db)
  /\ Grows(db, s.db)
  /\ \A c \in Candidate : /\ Moved(c, s)
                          /\ Kept(db.proposals[c], s.db.proposals[c])
                          /\ Shut(db.proposals[c], s.db.proposals[c])

LEMMA GrowsOn ==
  ASSUME NEW u, NEW v, NEW w, Grows(u, v), Grows(v, w)
  PROVE  Grows(u, w)
BY DEF Grows

LEMMA KeptOn ==
  ASSUME NEW q, NEW r, NEW s
  PROVE  /\ Kept(q, r) /\ Kept(r, s) => Kept(q, s)
         /\ Kept(q, r) /\ Shut(q, r) /\ Shut(r, s) => Shut(q, s)
BY DEF Kept, Shut, Decided

LEMMA BatchEvent ==
  ASSUME NEW s \in BatchState, BatchInv(s), NEW e \in Event, Fits(alone, s.db, e), Own(e),
         e.type # "ProposalGenerated", e.cand \in Candidate,
         NEW t \in BatchState, t.log = Append(s.log, e), t.db = Fold(s.db, e),
         t.seen = IF e.type \in Acting THEN s.seen \union {e.cand} ELSE s.seen,
         e.type \in Acting => /\ e.cand \notin s.seen
                              /\ StateOf(s.db, e.cand) \in {"unknown", "pending"}
  PROVE  BatchInv(t)
<1>1. LInv(alone, s.log, s.db) /\ s.db \in View /\ s.log \in Seq(Event)
  BY DEF BatchInv, BatchState
<1>2. LInv(alone, t.log, t.db)
  BY <1>1, Extend
<1>3. Grows(db, t.db)
  BY <1>1, FoldIs, GrowsOn DEF BatchInv
<1>4. ASSUME NEW c \in Candidate
      PROVE  /\ Moved(c, t)
             /\ Kept(db.proposals[c], t.db.proposals[c])
             /\ Shut(db.proposals[c], t.db.proposals[c])
  <2> DEFINE x == StateOf(s.db, c)
             y == StateOf(t.db, c)
  <2>1. c # None
    BY LedgerAssumption
  <2>2. e.type \in Acting /\ e.type # "TaskProposed" /\ e.cand = c => e.id = Planned(c)
    BY <2>1 DEF Own
  <2>3. PlannedOK(s.db)
    BY <1>1 DEF LInv
  <2>4. /\ x \in {"unknown", "pending", "applied", "rejected"}
        /\ Kept(s.db.proposals[c], t.db.proposals[c])
        /\ Shut(s.db.proposals[c], t.db.proposals[c])
        /\ \/ y = x
           \/ e.type = "ProposalRejected" /\ x = "pending" /\ y = "rejected"
           \/ e.type \in Acting /\ x = "pending" /\ y = "applied"
        /\ e.type \in Acting /\ e.cand = c /\ x = "pending" => y = "applied"
    BY <1>1, <2>2, <2>3, StateAfter
  <2>8. e.type = "ProposalRejected" => e.type \notin Acting
    BY DEF Acting
  <2>5. Kept(db.proposals[c], t.db.proposals[c]) /\ Shut(db.proposals[c], t.db.proposals[c])
    BY <2>4, KeptOn DEF BatchInv
  <2>6. Count(t.log, c) = IF e.type \in Acting /\ e.cand = c THEN Count(s.log, c) + 1
                          ELSE Count(s.log, c)
    BY <1>1, CountAppend
  <2>7. Moved(c, s)
    BY DEF BatchInv
  <2> HIDE DEF x, y
  <2>9. Moved(c, t)
    <3>1. CASE e.type \in Acting /\ e.cand = c
      <4>1. x \in {"unknown", "pending"} /\ c \notin s.seen /\ c \in t.seen
        BY <3>1 DEF x
      <4>2. x = StateOf(db, c) /\ Count(s.log, c) = Count(log, c)
        BY <2>7, <4>1 DEF Moved, x
      <4> QED BY <2>4, <2>6, <2>8, <3>1, <4>1, <4>2 DEF Moved, y
    <3>2. CASE ~(e.type \in Acting /\ e.cand = c)
      <4>1. Count(t.log, c) = Count(s.log, c) /\ s.seen \subseteq t.seen
        BY <2>6, <3>2
      <4> QED BY <2>4, <2>7, <4>1 DEF Moved, x, y
    <3> QED BY <3>1, <3>2
  <2> QED BY <2>5, <2>9
<1> QED BY <1>2, <1>3, <1>4 DEF BatchInv

LEMMA BatchRedact ==
  ASSUME NEW s \in BatchState, BatchInv(s), NEW c \in Candidate,
         NEW t \in BatchState, t.log = RedactLog(s.log, c), t.db = RedactRow(s.db, c),
         t.seen = s.seen
  PROVE  BatchInv(t)
<1>1. LInv(alone, s.log, s.db) /\ s.db \in View /\ s.log \in Seq(Event)
  BY DEF BatchInv, BatchState
<1>2. LInv(alone, t.log, t.db)
  BY <1>1, Redacts
<1>3. /\ t.db.entities = s.db.entities
      /\ \A d \in Candidate : t.db.proposals[d] = IF d = c THEN Redacted(s.db.proposals[d])
                                                  ELSE s.db.proposals[d]
  BY <1>1, RedactRowIs
<1>4. Grows(db, t.db)
  BY <1>3 DEF BatchInv, Grows
<1>5. ASSUME NEW d \in Candidate
      PROVE  /\ Moved(d, t)
             /\ Kept(db.proposals[d], t.db.proposals[d])
             /\ Shut(db.proposals[d], t.db.proposals[d])
  <2> DEFINE r == s.db.proposals[d]
             q == t.db.proposals[d]
  <2>1. r \in Row \union {None} /\ (q = r \/ q = Redacted(r))
    BY <1>1, <1>3 DEF View
  <2> HIDE DEF r, q
  <2>2. /\ q = None <=> r = None
        /\ r # None => q.state = r.state /\ q.reason = r.reason
        /\ r # None /\ r.summary = "redacted" => q.summary = "redacted"
    BY <2>1, RedactedRow
  <2>3. Kept(r, q) /\ Shut(r, q)
    BY <2>2 DEF Kept, Shut, Decided
  <2>4. Kept(db.proposals[d], q) /\ Shut(db.proposals[d], q)
    BY <2>3, KeptOn DEF BatchInv, r
  <2>5. StateOf(t.db, d) = StateOf(s.db, d)
    BY <2>2 DEF StateOf, r, q
  <2>6. Count(t.log, d) = Count(s.log, d)
    BY <1>1, CountRedact
  <2>7. Moved(d, t)
    BY <2>5, <2>6 DEF BatchInv, Moved
  <2> QED BY <2>4, <2>7 DEF q
<1> QED BY <1>2, <1>4, <1>5 DEF BatchInv

LEMMA StateIs ==
  ASSUME NEW v \in View, NEW c \in Candidate
  PROVE  /\ StateOf(v, c) \in {"unknown", "pending", "applied", "rejected"}
         /\ IsPending(v, c) <=> StateOf(v, c) = "pending"
         /\ Decided(v.proposals[c]) <=> StateOf(v, c) \in {"applied", "rejected"}
BY DEF View, Row, StateOf, IsPending, Decided

LEMMA BatchFields ==
  ASSUME NEW s, DOMAIN s = {"log", "db", "seen", "ok"},
         s = [f \in DOMAIN s |-> s[f]], NEW x
  PROVE  /\ [s EXCEPT !.log = x] = [log |-> x, db |-> s.db, seen |-> s.seen, ok |-> s.ok]
         /\ [s EXCEPT !.db = x] = [log |-> s.log, db |-> x, seen |-> s.seen, ok |-> s.ok]
         /\ [s EXCEPT !.seen = x] = [log |-> s.log, db |-> s.db, seen |-> x, ok |-> s.ok]
<1>1. [s EXCEPT !.log = x] = [log |-> x, db |-> s.db, seen |-> s.seen, ok |-> s.ok]
  OBVIOUS
<1>2. [s EXCEPT !.db = x] = [log |-> s.log, db |-> x, seen |-> s.seen, ok |-> s.ok]
  OBVIOUS
<1>3. [s EXCEPT !.seen = x] = [log |-> s.log, db |-> s.db, seen |-> x, ok |-> s.ok]
  OBVIOUS
<1> QED BY <1>1, <1>2, <1>3

LEMMA BatchStepInv ==
  ASSUME NEW s \in BatchState, BatchInv(s), NEW o \in Op
  PROVE  BatchStep(s, o) \in BatchState /\ BatchInv(BatchStep(s, o))
<1> DEFINE c == o.cand
<1>1. c \in Candidate /\ o.action \in {"apply", "reject"} /\ c # None
  BY LedgerAssumption DEF Op
<1>2. /\ s.log \in Seq(Event) /\ s.db \in View /\ s.seen \in SUBSET Candidate
      /\ s.ok \in BOOLEAN
  BY DEF BatchState
<1>3. StateOf(s.db, c) \in {"unknown", "pending", "applied", "rejected"}
  BY <1>1, <1>2, StateIs
<1> HIDE DEF c
<1>4. CASE o.action = "apply"
  <2>1. BatchStep(s, o) = applyCandidateStep(s, c)
    BY <1>4 DEF BatchStep, c
  <2>2. CASE StateOf(s.db, c) = "rejected"
    <3> DEFINE t == [s EXCEPT !.ok = FALSE]
    <3>1. t \in BatchState /\ t.log = s.log /\ t.db = s.db /\ t.seen = s.seen
      BY DEF BatchState
    <3>2. BatchStep(s, o) = t
      BY <2>1, <2>2 DEF applyCandidateStep
    <3> HIDE DEF t
    <3>3. BatchInv(t)
      BY <3>1 DEF BatchInv, Moved
    <3> QED BY <3>1, <3>2, <3>3
  <2>3. CASE StateOf(s.db, c) # "rejected" /\ Skipped(s.db, c, s.seen)
    BY <2>1, <2>3 DEF applyCandidateStep
  <2>4. CASE StateOf(s.db, c) # "rejected" /\ ~ Skipped(s.db, c, s.seen)
    <3> DEFINE e == candidateToEvent(s.db, c)
               t == [s EXCEPT !.log = Append(@, e), !.db = Fold(@, e), !.seen = @ \union {c}]
    <3>1. /\ e \in Event /\ e.type \in Acting /\ e.cand = c /\ Own(e) /\ Fits(alone, s.db, e)
      BY <1>1, <1>2, CandidateEvent
    <3>2. BatchStep(s, o) = t
      BY <2>1, <2>4 DEF applyCandidateStep
    <3> HIDE DEF e
    <3>3. Append(s.log, e) \in Seq(Event) /\ Fold(s.db, e) \in View
      BY <1>2, <3>1, FoldIs
    <3>4. t = [log |-> Append(s.log, e), db |-> Fold(s.db, e), seen |-> s.seen \union {c},
               ok |-> s.ok]
      <4> DEFINE p == [s EXCEPT !.log = Append(@, e)]
                 q == [p EXCEPT !.db = Fold(@, e)]
      <4>1. DOMAIN s = {"log", "db", "seen", "ok"} /\ s = [f \in DOMAIN s |-> s[f]]
        BY DEF BatchState
      <4>2. p = [log |-> Append(s.log, e), db |-> s.db, seen |-> s.seen, ok |-> s.ok]
        BY <4>1, BatchFields
      <4>3. t = [q EXCEPT !.seen = @ \union {c}]
        BY <4>2
      <4>4. p.db = s.db /\ p.log = Append(s.log, e) /\ p.seen = s.seen /\ p.ok = s.ok
            /\ DOMAIN p = {"log", "db", "seen", "ok"} /\ p = [f \in DOMAIN p |-> p[f]]
        BY <4>2
      <4> HIDE DEF p, t
      <4>5. q = [log |-> Append(s.log, e), db |-> Fold(s.db, e), seen |-> s.seen, ok |-> s.ok]
        <5>1. q = [p EXCEPT !.db = Fold(p.db, e)]
          OBVIOUS
        <5>2. q = [log |-> p.log, db |-> Fold(p.db, e), seen |-> p.seen, ok |-> p.ok]
          BY <4>4, <5>1, BatchFields, Zenon
        <5> QED BY <4>4, <5>2
      <4>6. q.seen = s.seen
            /\ DOMAIN q = {"log", "db", "seen", "ok"} /\ q = [f \in DOMAIN q |-> q[f]]
        BY <4>5
      <4> HIDE DEF q
      <4>7. t = [log |-> q.log, db |-> q.db, seen |-> s.seen \union {c}, ok |-> q.ok]
        BY <4>3, <4>6, BatchFields
      <4> QED BY <4>5, <4>7
    <3> HIDE DEF t
    <3>5. t \in BatchState
      BY <1>1, <1>2, <3>3, <3>4 DEF BatchState
    <3>6. c \notin s.seen /\ StateOf(s.db, c) \in {"unknown", "pending"}
      BY <1>3, <2>4 DEF Skipped
    <3>7. e.type # "ProposalGenerated"
      BY <3>1 DEF Acting
    <3>8. BatchInv(t)
      BY <1>1, <3>1, <3>4, <3>5, <3>6, <3>7, BatchEvent
    <3> QED BY <3>2, <3>5, <3>8
  <2> QED BY <2>2, <2>3, <2>4
<1>5. CASE o.action = "reject"
  <2>1. BatchStep(s, o) = rejectCandidateStep(s, c)
    BY <1>5 DEF BatchStep, c
  <2>2. CASE ~ IsPending(s.db, c)
    BY <2>1, <2>2 DEF rejectCandidateStep
  <2>3. CASE IsPending(s.db, c)
    <3> DEFINE e == Rejected(c)
               u == [log |-> Append(s.log, e), db |-> Fold(s.db, e), seen |-> s.seen, ok |-> s.ok]
               t == [log |-> RedactLog(Append(s.log, e), c), db |-> RedactRow(Fold(s.db, e), c),
                     seen |-> s.seen, ok |-> s.ok]
    <3>1. /\ e \in Event /\ e.type = "ProposalRejected" /\ e.cand = c /\ e.type \notin Acting
          /\ Own(e) /\ Fits(alone, s.db, e)
      <4>1. e \in [type : {"ProposalRejected", "ProposalFeedback"}, cand : Candidate]
        BY <1>1 DEF Rejected
      <4> QED BY <4>1 DEF Event, Rejected, Acting, Own, Fits, MakesMinted, IsDone
    <3>2. BatchStep(s, o) = t
      BY <2>1, <2>3 DEF rejectCandidateStep, BatchState
    <3> HIDE DEF e
    <3>3. Append(s.log, e) \in Seq(Event) /\ Fold(s.db, e) \in View
      BY <1>2, <3>1, FoldIs
    <3>4. RedactLog(Append(s.log, e), c) \in Seq(Event) /\ RedactRow(Fold(s.db, e), c) \in View
      BY <1>1, <3>3, RedactLogIs, RedactRowIs
    <3>5. u \in BatchState /\ t \in BatchState
      BY <1>2, <3>3, <3>4 DEF BatchState
    <3>6. /\ u.log = Append(s.log, e) /\ u.db = Fold(s.db, e) /\ u.seen = s.seen
          /\ t.log = RedactLog(u.log, c) /\ t.db = RedactRow(u.db, c) /\ t.seen = u.seen
      OBVIOUS
    <3> HIDE DEF u, t
    <3>7. BatchInv(u)
      BY <1>1, <3>1, <3>5, <3>6, BatchEvent
    <3>8. BatchInv(t)
      BY <1>1, <3>5, <3>6, <3>7, BatchRedact
    <3> QED BY <3>2, <3>5, <3>8
  <2> QED BY <2>2, <2>3
<1> QED BY <1>1, <1>4, <1>5

\* A batch leaves its invariant, whatever it was asked to do.
LEMMA BatchRunInv ==
  ASSUME NEW operations \in Seq(Op), LInv(alone, log, db)
  PROVE  BatchRun(operations) \in BatchState /\ BatchInv(BatchRun(operations))
<1> DEFINE N == Len(operations)
           Good == {s \in BatchState : BatchInv(s)}
           G == [i \in 1 .. N |-> [s \in Good |-> BatchStep(s, operations[i])]]
           Next_(s) == [i \in 0 .. N |-> IF i = 0 THEN Batch0
                                         ELSE BatchStep(s[i - 1], operations[i])]
<1>1. N \in Nat /\ \A i \in 1 .. N : operations[i] \in Op
  OBVIOUS
<1>2. Batch0 \in Good
  <2> DEFINE z == [log |-> log, db |-> db, seen |-> {}, ok |-> TRUE]
  <2>1. log \in Seq(Event) /\ db \in View
    BY ReplayType DEF LInv
  <2>2. z \in BatchState /\ z.log = log /\ z.db = db
    BY <2>1 DEF BatchState
  <2> HIDE DEF z
  <2>3. BatchInv(z)
    BY <2>2 DEF BatchInv, Moved, Grows, Kept, Shut, Decided
  <2> QED BY <2>2, <2>3 DEF Batch0, z
<1>3. StepsOn(G, N, Good)
  BY <1>1, BatchStepInv DEF StepsOn
<1>4. PICK w : Solves(w, Batch0, G, N, Good)
  <2> HIDE DEF G, N, Good
  <2> QED BY <1>1, <1>2, <1>3, RecursionExists
<1>5. w = Next_(w)
  <2>1. \A i \in 1 .. N : w[i] = BatchStep(w[i - 1], operations[i])
    <3> TAKE i \in 1 .. N
    <3>1. i - 1 \in 0 .. N
      BY <1>1
    <3> HIDE DEF Good
    <3>2. w[i - 1] \in Good
      BY <1>4, <3>1 DEF Solves
    <3> QED BY <1>4, <3>2 DEF Solves
  <2> HIDE DEF G, Good
  <2>2. \A i \in 0 .. N : w[i] = IF i = 0 THEN Batch0 ELSE BatchStep(w[i - 1], operations[i])
    BY <1>1, <1>4, <2>1 DEF Solves
  <2> QED BY <1>4, <2>2 DEF Solves
<1> DEFINE V == CHOOSE s : s = Next_(s)
<1>6. BatchRun(operations) = V[N]
  BY DEF BatchRun
<1>7. V = Next_(V)
  <2> HIDE DEF Next_
  <2> QED BY <1>5
<1> HIDE DEF V
<1>8. V[0] = Batch0 /\ \A i \in 1 .. N : V[i] = BatchStep(V[i - 1], operations[i])
  <2>1. \A i \in 0 .. N : Next_(V)[i] = IF i = 0 THEN Batch0
                                        ELSE BatchStep(V[i - 1], operations[i])
    OBVIOUS
  <2> HIDE DEF Next_
  <2>2. \A i \in 0 .. N : V[i] = IF i = 0 THEN Batch0 ELSE BatchStep(V[i - 1], operations[i])
    BY <1>7, <2>1
  <2> HIDE DEF N
  <2> QED BY <1>1, <2>2
<1>9. \A i \in 0 .. N : V[i] \in Good
  <2>1. \A i \in 1 .. N : V[i - 1] \in Good => V[i] \in Good
    BY <1>1, <1>8, BatchStepInv
  <2> HIDE DEF N, Good
  <2> QED BY <1>1, <1>2, <1>8, <2>1, Along
<1>10. N \in 0 .. N
  BY <1>1
<1> QED BY <1>6, <1>9, <1>10
-----------------------------------------------------------------------------
(***************************************************************************)
(* What one transaction does, for the log, the projections and every       *)
(* candidate.                                                              *)
(***************************************************************************)

\* How a candidate moves in one step: the disjuncts of Verdicts!Next.
Step(a, x, y, m, n) ==
  \/ y = x /\ n = m
  \/ x = "unknown" /\ y = "pending" /\ n = m
  \/ x = "pending" /\ y = "rejected" /\ n = m
  \/ x = "pending" /\ y = "applied" /\ n \in {m, m + 1}
  \/ x = "unknown" /\ y = "unknown" /\ n = m + 1
  \/ ~ a /\ x \in {"applied", "rejected"} /\ y = x /\ n = m + 1

Progress(a, l, v, k, w) ==
  /\ LInv(a, k, w)
  /\ Grows(v, w)
  /\ \A c \in Candidate :
        /\ Step(a, StateOf(v, c), StateOf(w, c), Count(l, c), Count(k, c))
        /\ Kept(v.proposals[c], w.proposals[c])
        /\ a => Shut(v.proposals[c], w.proposals[c])

\* Where calls do not overlap, what a queued event is based on still holds.
Fresh(a, v, e) ==
  a => /\ e.type = "ProposalGenerated" => StateOf(v, e.cand) = "unknown"
       /\ e.type \in Acting /\ e.cand # None => StateOf(v, e.cand) \in {"unknown", "pending"}
       /\ MakesMinted(e) => e.id \notin DOMAIN v.entities

LEMMA NoProgress ==
  ASSUME NEW a, NEW l, NEW v, LInv(a, l, v)
  PROVE  Progress(a, l, v, l, v)
BY DEF Progress, Grows, Step, Kept, Shut, Decided

LEMMA RecordProgress ==
  ASSUME NEW a \in BOOLEAN, NEW l, NEW v, NEW e, LInv(a, l, v), Fits(a, v, e), Own(e),
         Fresh(a, v, e), e.type # "ProposalRejected"
  PROVE  Progress(a, l, v, Append(l, e), Fold(v, e))
<1>1. l \in Seq(Event) /\ v \in View /\ e \in Event /\ PlannedOK(v)
  BY ReplayType DEF LInv, Fits
<1>2. LInv(a, Append(l, e), Fold(v, e)) /\ Grows(v, Fold(v, e))
  BY <1>1, Extend, FoldIs
<1>3. ASSUME NEW c \in Candidate
      PROVE  /\ Step(a, StateOf(v, c), StateOf(Fold(v, e), c), Count(l, c), Count(Append(l, e), c))
             /\ Kept(v.proposals[c], Fold(v, e).proposals[c])
             /\ a => Shut(v.proposals[c], Fold(v, e).proposals[c])
  <2> DEFINE x == StateOf(v, c)
             y == StateOf(Fold(v, e), c)
  <2>1. c # None
    BY LedgerAssumption
  <2>2. e.type \in Acting /\ e.type # "TaskProposed" /\ e.cand = c => e.id = Planned(c)
    BY <2>1 DEF Own
  <2>3. /\ x \in {"unknown", "pending", "applied", "rejected"}
        /\ Kept(v.proposals[c], Fold(v, e).proposals[c])
        /\ ~ (e.type = "ProposalGenerated" /\ e.cand = c) =>
             Shut(v.proposals[c], Fold(v, e).proposals[c])
        /\ \/ y = x
           \/ e.type = "ProposalGenerated" /\ x = "unknown" /\ y = "pending"
           \/ e.type \in Acting /\ x = "pending" /\ y = "applied"
        /\ e.type \in Acting /\ e.cand = c /\ x = "pending" => y = "applied"
    BY <1>1, <2>2, StateAfter
  <2>4. Count(Append(l, e), c) = IF e.type \in Acting /\ e.cand = c THEN Count(l, c) + 1
                                 ELSE Count(l, c)
    BY <1>1, CountAppend
  <2>5. a => /\ e.type = "ProposalGenerated" /\ e.cand = c => x = "unknown"
             /\ e.type \in Acting /\ e.cand = c => x \in {"unknown", "pending"}
    BY <2>1 DEF Fresh
  <2>6. e.type = "ProposalGenerated" => e.type \notin Acting
    BY DEF Acting
  <2>7. x = "unknown" => ~ Decided(v.proposals[c])
    BY <1>1, StateIs
  <2> HIDE DEF x, y
  <2>8. Step(a, x, y, Count(l, c), Count(Append(l, e), c))
    BY <2>3, <2>4, <2>5, <2>6 DEF Step
  <2>9. a => Shut(v.proposals[c], Fold(v, e).proposals[c])
    BY <2>3, <2>5, <2>7 DEF Shut
  <2> QED BY <2>3, <2>8, <2>9 DEF x, y
<1> QED BY <1>2, <1>3 DEF Progress

LEMMA BatchProgress ==
  ASSUME NEW s \in BatchState, BatchInv(s)
  PROVE  Progress(alone, log, db, s.log, s.db)
<1>1. \A c \in Candidate : Step(alone, StateOf(db, c), StateOf(s.db, c), Count(log, c), Count(s.log, c))
  BY DEF BatchInv, Moved, Step
<1> QED BY <1>1 DEF BatchInv, Progress
-----------------------------------------------------------------------------
(***************************************************************************)
(* The calls under way.                                                    *)
(***************************************************************************)

\* The events a call has decided to record.  A second one follows only where a human
\* triages an item, and the item is not closed before its entity exists.
Awaits(a, v, out) ==
  /\ \A n \in 1 .. Len(out) :
        /\ out[n] \in Event /\ out[n].type # "ProposalRejected"
        /\ Own(out[n])
        /\ Fresh(a, v, out[n])
  /\ \A n \in 1 .. Len(out) : IsDone(out[n]) =>
        \/ HasEntity(v, TaskOf[out[n].id[1]])
        \/ \E m \in 1 .. n - 1 :
              out[m].type = "TaskProposed" /\ out[m].id[1] = TaskOf[out[n].id[1]]
  /\ Len(out) > 1 => \A n \in 1 .. Len(out) : out[n].type \in Acting /\ out[n].cand = None

CallInv(a, v, r) ==
  /\ r \in Call
  /\ Awaits(a, v, r.out)
  /\ a => \A n \in 1 .. Len(r.todo) : StateOf(v, r.todo[n]) # "rejected"

LEMMA IdleCall ==
  ASSUME NEW a, NEW v
  PROVE  CallInv(a, v, Idle)
<1>1. /\ Idle.out = << >> /\ Idle.todo = << >> /\ Len(<< >>) = 0 /\ 1 .. 0 = {} /\ ~ (0 > 1)
      /\ Idle \in Call
  BY DEF Idle, Call
<1> QED BY <1>1 DEF CallInv, Awaits

\* A call that overlaps others relies only on entities that exist.
LEMMA OtherCall ==
  ASSUME NEW v, NEW w, NEW r, CallInv(FALSE, v, r), Grows(v, w)
  PROVE  CallInv(FALSE, w, r)
<1>1. \A b : HasEntity(v, b) => HasEntity(w, b)
  BY DEF HasEntity, Grows
<1> QED BY <1>1 DEF CallInv, Awaits, Fresh

LEMMA WriteCall ==
  ASSUME NEW a \in BOOLEAN, NEW l, NEW v, LInv(a, l, v), NEW r, CallInv(a, v, r),
         r.out # << >>, NEW t \in Call, t.todo = r.todo, t.out = Tail(r.out)
  PROVE  LET e == Head(r.out) IN
         /\ Fits(a, v, e) /\ Own(e) /\ Fresh(a, v, e) /\ e.type # "ProposalRejected"
         /\ CallInv(a, Fold(v, e), t)
<1> DEFINE o == r.out
           e == o[1]
           N == Len(o)
           w == Fold(v, e)
<1>1. /\ o \in Seq(Event) /\ N \in Nat /\ 1 \in 1 .. N /\ Head(r.out) = e /\ e \in Event
      /\ Len(t.out) = N - 1 /\ \A n \in 1 .. N - 1 : t.out[n] = o[n + 1] /\ n + 1 \in 1 .. N
      /\ \A n \in 1 .. N - 1 : N > 1
  BY DEF CallInv, Call
<1>2. v \in View /\ PlannedOK(v)
  BY ReplayType DEF LInv
<1>3. Awaits(a, v, o)
  BY DEF CallInv
<1> HIDE DEF o, N
<1>4. e.type # "ProposalRejected" /\ Own(e) /\ Fresh(a, v, e)
  BY <1>1, <1>3 DEF Awaits, N
<1>5. IsDone(e) => HasEntity(v, TaskOf[e.id[1]])
  <2>1. 1 .. 1 - 1 = {}
    OBVIOUS
  <2> QED BY <1>1, <1>3, <2>1 DEF Awaits, N
<1>6. Fits(a, v, e)
  BY <1>1, <1>4, <1>5 DEF Fits, Fresh
<1>7. /\ w \in View /\ Grows(v, w)
      /\ e.type \in Acting => e.id \in DOMAIN w.entities
  BY <1>1, <1>2, FoldIs
<1> HIDE DEF e, w
<1>8. Awaits(a, w, t.out)
  <2>1. \A n \in 1 .. N - 1 : o[n + 1].type \in Acting /\ o[n + 1].cand = None
    BY <1>1, <1>3 DEF Awaits, N
  <2>2. ASSUME NEW n \in 1 .. N - 1
        PROVE  /\ t.out[n] \in Event /\ t.out[n].type # "ProposalRejected" /\ Own(t.out[n])
               /\ Fresh(a, w, t.out[n])
    <3>1. o[n + 1] \in Event /\ o[n + 1].type # "ProposalRejected" /\ Own(o[n + 1])
      BY <1>1, <1>3 DEF Awaits, N
    <3>2. Fresh(a, w, o[n + 1])
      BY <2>1, LedgerAssumption DEF Fresh, MakesMinted, Acting, Candidate
    <3> QED BY <1>1, <3>1, <3>2
  <2>3. ASSUME NEW n \in 1 .. N - 1, IsDone(t.out[n])
        PROVE  \/ HasEntity(w, TaskOf[t.out[n].id[1]])
               \/ \E m \in 1 .. n - 1 :
                     t.out[m].type = "TaskProposed" /\ t.out[m].id[1] = TaskOf[t.out[n].id[1]]
    <3> DEFINE b == TaskOf[t.out[n].id[1]]
    <3>1. t.out[n] = o[n + 1] /\ n + 1 \in 1 .. N
      BY <1>1
    <3>2. \/ HasEntity(v, b)
          \/ \E m \in 1 .. (n + 1) - 1 : o[m].type = "TaskProposed" /\ o[m].id[1] = b
      BY <1>3, <2>3, <3>1 DEF Awaits, N
    <3> HIDE DEF b
    <3>3. HasEntity(v, b) => HasEntity(w, b)
      BY <1>7 DEF HasEntity, Grows
    <3>4. ASSUME NEW m \in 1 .. (n + 1) - 1, o[m].type = "TaskProposed", o[m].id[1] = b
          PROVE  \/ HasEntity(w, b)
                 \/ \E i \in 1 .. n - 1 : t.out[i].type = "TaskProposed" /\ t.out[i].id[1] = b
      <4>1. CASE m = 1
        BY <1>7, <3>4, <4>1 DEF HasEntity, Acting, e
      <4>2. CASE m # 1
        <5>1. m - 1 \in 1 .. n - 1 /\ m - 1 \in 1 .. N - 1 /\ (m - 1) + 1 = m
          BY <1>1, <4>2
        <5>2. t.out[m - 1] = o[m]
          BY <1>1, <5>1
        <5> QED BY <3>4, <5>1, <5>2
      <4> QED BY <4>1, <4>2
    <3> QED BY <3>2, <3>3, <3>4 DEF b
  <2>4. Len(t.out) > 1 => \A n \in 1 .. N - 1 : t.out[n].type \in Acting /\ t.out[n].cand = None
    BY <1>1, <2>1
  <2> QED BY <1>1, <2>2, <2>3, <2>4 DEF Awaits
<1>9. a => \A n \in 1 .. Len(t.todo) : StateOf(w, t.todo[n]) # "rejected"
  <2> SUFFICES ASSUME a, NEW n \in 1 .. Len(r.todo) PROVE StateOf(w, r.todo[n]) # "rejected"
    OBVIOUS
  <2>1. StateOf(v, r.todo[n]) # "rejected" /\ r.todo[n] \in Candidate
    BY DEF CallInv, Call
  <2>2. e.type \in Acting /\ e.type # "TaskProposed" /\ e.cand = r.todo[n] =>
          e.id = Planned(r.todo[n])
    BY <1>4, <2>1, LedgerAssumption DEF Own
  <2>3. StateOf(Fold(v, e), r.todo[n]) # "rejected"
    BY <1>1, <1>2, <1>4, <2>1, <2>2, StateAfter
  <2> QED BY <2>3 DEF w
<1> QED BY <1>1, <1>4, <1>6, <1>8, <1>9 DEF CallInv, e, w
-----------------------------------------------------------------------------
(***************************************************************************)
(* The inductive invariant.                                                *)
(***************************************************************************)

OneCall == alone => \A p, q \in Client : run[p] # Idle /\ run[q] # Idle => p = q

IInv ==
  /\ alone \in BOOLEAN
  /\ ops \in 0 .. MaxOps
  /\ run \in [Client -> Call]
  /\ LInv(alone, log, db)
  /\ \A p \in Client : CallInv(alone, db, run[p])
  /\ OneCall

LEMMA InitInv ==
  ASSUME Init
  PROVE  IInv
<1>1. 0 \in 0 .. MaxOps
  BY ProposalLedgerAssumption
<1>2. Idle \in Call /\ \A p \in Client : run[p] = Idle
  BY DEF Init, Idle, Call
<1> QED BY <1>1, <1>2, LInvEmpty, IdleCall DEF Init, IInv, OneCall

\* A step of one server: the others are idle, or rely on what only grows.
LEMMA CallSteps ==
  ASSUME IInv, NEW p \in Client, NEW r,
         alone' = alone, ops' \in 0 .. MaxOps, run' = [run EXCEPT ![p] = r],
         Progress(alone, log, db, log', db'), CallInv(alone, db', r),
         alone => \A q \in Client : q # p => run[q] = Idle
  PROVE  IInv'
<1>1. r \in Call
  BY DEF CallInv
<1>2. run' \in [Client -> Call] /\ run'[p] = r /\ \A q \in Client : q # p => run'[q] = run[q]
  BY <1>1 DEF IInv
<1>3. ASSUME NEW q \in Client PROVE CallInv(alone, db', run'[q])
  <2>1. CASE q = p
    BY <1>2, <2>1
  <2>2. CASE q # p /\ alone
    <3>1. run'[q] = Idle
      BY <1>2, <2>2
    <3> QED BY <3>1, IdleCall
  <2>3. CASE q # p /\ ~ alone
    <3>1. CallInv(alone, db, run[q]) /\ Grows(db, db') /\ alone = FALSE
      BY <2>3 DEF IInv, Progress
    <3> QED BY <1>2, <2>3, <3>1, OtherCall
  <2> QED BY <2>1, <2>2, <2>3
<1>4. LInv(alone, log', db')
  BY DEF Progress
<1>5. OneCall'
  BY <1>2 DEF OneCall
<1> QED BY <1>2, <1>3, <1>4, <1>5 DEF IInv

\* A step of no server: no call is under way, or the calls rely on what only grows.
LEMMA StoreSteps ==
  ASSUME IInv, alone' = alone, ops' \in 0 .. MaxOps, run' = run,
         Progress(alone, log, db, log', db'),
         alone => \A q \in Client : run[q] = Idle
  PROVE  IInv'
<1>1. ASSUME NEW q \in Client PROVE CallInv(alone, db', run'[q])
  <2>1. CASE alone
    BY <2>1, IdleCall
  <2>2. CASE ~ alone
    <3>1. CallInv(alone, db, run[q]) /\ Grows(db, db') /\ alone = FALSE
      BY <2>2 DEF IInv, Progress
    <3> QED BY <2>2, <3>1, OtherCall
  <2> QED BY <2>1, <2>2
<1>2. LInv(alone, log', db')
  BY DEF Progress
<1>3. OneCall'
  BY DEF IInv, OneCall
<1> QED BY <1>1, <1>2, <1>3 DEF IInv

LEMMA CallIs ==
  ASSUME NEW r \in Call
  PROVE  /\ DOMAIN r = {"todo", "seen", "out"} /\ r = [f \in DOMAIN r |-> r[f]]
         /\ r.todo \in Seq(Candidate) /\ r.seen \in SUBSET Candidate /\ r.out \in Seq(Event)
BY DEF Call

LEMMA CallFields ==
  ASSUME NEW r \in Call, NEW x
  PROVE  /\ [r EXCEPT !.todo = x] = [todo |-> x, seen |-> r.seen, out |-> r.out]
         /\ [r EXCEPT !.seen = x] = [todo |-> r.todo, seen |-> x, out |-> r.out]
         /\ [r EXCEPT !.out = x] = [todo |-> r.todo, seen |-> r.seen, out |-> x]
<1>0. DOMAIN r = {"todo", "seen", "out"} /\ r = [f \in DOMAIN r |-> r[f]]
  BY CallIs
<1>1. [r EXCEPT !.todo = x] = [todo |-> x, seen |-> r.seen, out |-> r.out]
  BY <1>0
<1>2. [r EXCEPT !.seen = x] = [todo |-> r.todo, seen |-> x, out |-> r.out]
  BY <1>0
<1>3. [r EXCEPT !.out = x] = [todo |-> r.todo, seen |-> r.seen, out |-> x]
  BY <1>0
<1> QED BY <1>1, <1>2, <1>3

LEMMA IdleIs == Idle \in Call /\ Idle.todo = << >> /\ Idle.seen = {} /\ Idle.out = << >>
BY DEF Idle, Call

\* A call that starts with the events it will record.
LEMMA EnqueueSteps ==
  ASSUME IInv, NEW p \in Client, NEW events, Enqueue(p, events),
         events \in Seq(Event), Awaits(alone, db, events)
  PROVE  IInv' /\ alone' = alone /\ Progress(alone, log, db, log', db')
<1> DEFINE r == [Idle EXCEPT !.out = events]
<1>1. /\ alone' = alone /\ log' = log /\ db' = db /\ ops' \in 0 .. MaxOps
      /\ run' = [run EXCEPT ![p] = r]
      /\ alone => \A q \in Client : run[q] = Idle
  BY ProposalLedgerAssumption DEF Enqueue, Starts, MayStart, IInv
<1>2. r = [todo |-> << >>, seen |-> {}, out |-> events]
  <2>1. r = [todo |-> Idle.todo, seen |-> Idle.seen, out |-> events]
    BY IdleIs, CallFields
  <2> QED BY <2>1, IdleIs
<1> HIDE DEF r
<1>3. r \in Call /\ r.out = events /\ r.todo = << >> /\ Len(<< >>) = 0 /\ 1 .. 0 = {}
  BY <1>2 DEF Call
<1>4. CallInv(alone, db, r)
  BY <1>3 DEF CallInv
<1>5. Progress(alone, log, db, log', db')
  BY <1>1, NoProgress DEF IInv
<1> QED BY <1>1, <1>4, <1>5, CallSteps

\* One event that needs nothing before it.
LEMMA AwaitsOne ==
  ASSUME NEW a, NEW v, NEW e \in Event, e.type # "ProposalRejected", Own(e), Fresh(a, v, e),
         ~ IsDone(e)
  PROVE  << e >> \in Seq(Event) /\ Awaits(a, v, << e >>)
<1>1. Len(<< e >>) = 1 /\ << e >>[1] = e /\ ~ (1 > 1) /\ \A n \in 1 .. 1 : n = 1
  OBVIOUS
<1> QED BY <1>1 DEF Awaits
-----------------------------------------------------------------------------
(***************************************************************************)
(* Every action keeps the invariant and moves each candidate as it may.    *)
(***************************************************************************)

Steps == IInv' /\ alone' = alone /\ Progress(alone, log, db, log', db')

LEMMA InvViews ==
  ASSUME IInv
  PROVE  /\ log \in Seq(Event) /\ db \in View /\ db = Replay(log) /\ PlannedOK(db)
         /\ DOMAIN db.entities \subseteq Id
BY ReplayType, TablesOf DEF IInv, LInv, View

LEMMA GenerateSteps ==
  ASSUME IInv, NEW p \in Client, NEW c \in Candidate, Generate(p, c)
  PROVE  Steps
<1> DEFINE e == Generated(c)
<1>1. /\ e \in Event /\ e.type = "ProposalGenerated" /\ e.cand = c
  <2>1. e \in [type : {"ProposalGenerated"}, cand : Candidate, summary : {"text", "redacted"}]
    BY DEF Generated
  <2> QED BY <2>1 DEF Event, Generated
<1>2. StateOf(db, c) = "unknown" /\ Enqueue(p, << e >>)
  BY DEF Generate
<1> HIDE DEF e
<1>3. /\ e.type # "ProposalRejected" /\ Own(e) /\ Fresh(alone, db, e) /\ ~ IsDone(e)
  BY <1>1, <1>2 DEF Own, Fresh, IsDone, MakesMinted, Acting
<1>4. << e >> \in Seq(Event) /\ Awaits(alone, db, << e >>)
  BY <1>1, <1>3, AwaitsOne
<1> QED BY <1>2, <1>4, EnqueueSteps DEF Steps

\* What a human writes names no candidate.
LEMMA ByHand ==
  ASSUME NEW a, NEW v, NEW e \in Event, e.type \in Acting, e.cand = None
  PROVE  Own(e) /\ Fresh(a, v, e) /\ e.type # "ProposalRejected"
BY LedgerAssumption DEF Own, Fresh, MakesMinted, Acting, Candidate

LEMMA ProposedEvent ==
  ASSUME NEW i \in Id, NEW d \in BOOLEAN
  PROVE  LET e == Proposed(i, None, d) IN
         e \in Event /\ e.type = "TaskProposed" /\ e.type \in Acting /\ e.cand = None /\ e.id = i
<1>1. Proposed(i, None, d) \in [type : {"TaskProposed"}, id : Id, cand : Candidate \union {None}, due : BOOLEAN]
  BY DEF Proposed
<1> QED BY <1>1 DEF Event, Proposed, Acting

LEMMA TriagedEvent ==
  ASSUME NEW i \in Id, NEW s \in ItemState
  PROVE  LET e == Triaged(i, None, s) IN
         /\ e \in Event /\ e.type = "InboxItemTriaged" /\ e.type \in Acting /\ e.cand = None
         /\ e.id = i /\ e.to = s
<1>1. Triaged(i, None, s) \in [type : {"InboxItemTriaged"}, id : Id, cand : Candidate \union {None}, to : ItemState]
  BY DEF Triaged
<1> QED BY <1>1 DEF Event, Triaged, Acting

LEMMA taskCreateSteps ==
  ASSUME IInv, NEW p \in Client, NEW b \in Base, NEW d \in BOOLEAN, taskCreate(p, b, d)
  PROVE  Steps
<1> DEFINE i == mintEntityId(db, b)
           e == Proposed(i, None, d)
<1>1. i \in Id
  BY InvViews, MintFree
<1>2. Enqueue(p, << e >>)
  BY DEF taskCreate
<1> HIDE DEF i
<1>3. e \in Event /\ e.type = "TaskProposed" /\ e.type \in Acting /\ e.cand = None
  BY <1>1, ProposedEvent
<1> HIDE DEF e
<1>4. << e >> \in Seq(Event) /\ Awaits(alone, db, << e >>)
  BY <1>3, ByHand, AwaitsOne DEF IsDone
<1> QED BY <1>2, <1>4, EnqueueSteps DEF Steps

LEMMA taskUpdateSteps ==
  ASSUME IInv, NEW p \in Client, NEW i \in DOMAIN db.entities, NEW s \in TaskState,
         NEW d \in BOOLEAN, taskUpdate(p, i, s, d)
  PROVE  Steps
<1> DEFINE e == Applied(i, s, d)
<1>1. e \in Event /\ e.type = "TaskApplied"
  <2>1. e \in [type : {"TaskApplied"}, id : Id, to : TaskState, due : BOOLEAN]
    BY InvViews DEF Applied
  <2> QED BY <2>1 DEF Event, Applied
<1>2. Enqueue(p, << e >>)
  BY DEF taskUpdate
<1> HIDE DEF e
<1>3. /\ e.type # "ProposalRejected" /\ Own(e) /\ Fresh(alone, db, e) /\ ~ IsDone(e)
  BY <1>1 DEF Own, Fresh, IsDone, MakesMinted, Acting
<1>4. << e >> \in Seq(Event) /\ Awaits(alone, db, << e >>)
  BY <1>1, <1>3, AwaitsOne
<1> QED BY <1>2, <1>4, EnqueueSteps DEF Steps

LEMMA ItemId ==
  ASSUME NEW i \in Item
  PROVE  nthId(i, 1) \in Id /\ nthId(i, 1)[1] = i
BY ProposalLedgerAssumption DEF nthId, Id

LEMMA TriageOne ==
  ASSUME IInv, NEW p \in Client, NEW i \in Item, NEW s \in {"open", "dismissed"},
         Enqueue(p, << Triaged(nthId(i, 1), None, s) >>)
  PROVE  Steps
<1> DEFINE e == Triaged(nthId(i, 1), None, s)
<1>1. e \in Event /\ e.type \in Acting /\ e.cand = None /\ e.to = s
  BY ItemId, TriagedEvent DEF ItemState
<1> HIDE DEF e
<1>2. << e >> \in Seq(Event) /\ Awaits(alone, db, << e >>)
  BY <1>1, ByHand, AwaitsOne DEF IsDone
<1>3. Enqueue(p, << e >>)
  BY DEF e
<1> QED BY <1>2, <1>3, EnqueueSteps DEF Steps

LEMMA inboxAddSteps ==
  ASSUME IInv, NEW p \in Client, NEW i \in Item, inboxAdd(p, i)
  PROVE  Steps
BY TriageOne DEF inboxAdd

\* The entity comes first, so the item it closes has one when it is closed.
LEMMA TriagePair ==
  ASSUME IInv, NEW p \in Client, NEW i \in Item, NEW x \in Id, x[1] = TaskOf[i],
         Enqueue(p, InOrder(Proposed(x, None, FALSE), Triaged(nthId(i, 1), None, "done")))
  PROVE  Steps
<1> DEFINE e == Proposed(x, None, FALSE)
           f == Triaged(nthId(i, 1), None, "done")
           o == << e, f >>
<1>1. /\ e \in Event /\ e.type = "TaskProposed" /\ e.type \in Acting /\ e.cand = None
      /\ e.id[1] = TaskOf[i]
  BY ProposedEvent
<1>2. /\ f \in Event /\ f.type \in Acting /\ f.cand = None /\ f.id[1] = i
  BY ItemId, TriagedEvent DEF ItemState
<1>3. Enqueue(p, o)
  BY DEF InOrder
<1> HIDE DEF e, f
<1>4. o \in Seq(Event) /\ Len(o) = 2 /\ o[1] = e /\ o[2] = f /\ \A n \in 1 .. 2 : n = 1 \/ n = 2
  BY <1>1, <1>2
<1> HIDE DEF o
<1>5. ~ IsDone(e)
  BY <1>1 DEF IsDone
<1>6. 1 \in 1 .. 2 - 1
  OBVIOUS
<1>7. Awaits(alone, db, o)
  <2>1. \A n \in 1 .. 2 : /\ o[n] \in Event /\ o[n].type # "ProposalRejected" /\ Own(o[n])
                          /\ Fresh(alone, db, o[n])
    BY <1>1, <1>2, <1>4, ByHand
  <2>2. \A n \in 1 .. 2 : o[n].type \in Acting /\ o[n].cand = None
    BY <1>1, <1>2, <1>4
  <2>3. \A n \in 1 .. 2 : IsDone(o[n]) =>
          \E m \in 1 .. n - 1 : o[m].type = "TaskProposed" /\ o[m].id[1] = TaskOf[o[n].id[1]]
    BY <1>1, <1>2, <1>4, <1>5, <1>6
  <2> QED BY <1>4, <2>1, <2>2, <2>3 DEF Awaits
<1> QED BY <1>3, <1>4, <1>7, EnqueueSteps DEF Steps

LEMMA inboxTriageSteps ==
  ASSUME IInv, NEW p \in Client, NEW i \in Item, inboxTriage(p, i)
  PROVE  Steps
<1>1. TaskOf[i] \in Base
  BY ProposalLedgerAssumption
<1>2. CASE Enqueue(p, << Triaged(nthId(i, 1), None, "dismissed") >>)
  BY <1>2, TriageOne
<1>3. CASE \E x \in IF Duplicates(TaskOf[i]) # {} THEN Duplicates(TaskOf[i])
                    ELSE {mintEntityId(db, TaskOf[i])} :
             Enqueue(p, InOrder(Proposed(x, None, FALSE), Triaged(nthId(i, 1), None, "done")))
  <2>1. PICK x \in IF Duplicates(TaskOf[i]) # {} THEN Duplicates(TaskOf[i])
                   ELSE {mintEntityId(db, TaskOf[i])} :
             Enqueue(p, InOrder(Proposed(x, None, FALSE), Triaged(nthId(i, 1), None, "done")))
    BY <1>3
  <2>2. \A y \in Duplicates(TaskOf[i]) : y \in Id /\ y[1] = TaskOf[i]
    BY InvViews DEF Duplicates, nthId
  <2>3. x \in Id /\ x[1] = TaskOf[i]
    BY <1>1, <2>2, InvViews, MintFree
  <2> QED BY <2>1, <2>3, TriagePair
<1> QED BY <1>2, <1>3 DEF inboxTriage

LEMMA ListsOf ==
  ASSUME NEW S, NEW cs \in Lists(S)
  PROVE  cs \in Seq(S) /\ DOMAIN cs = 1 .. Len(cs)
<1>1. PICK n \in 1 .. IF alone THEN MaxList ELSE 1 : cs \in [1 .. n -> S]
  BY DEF Lists
<1>2. n \in Nat
  BY ProposalLedgerAssumption
<1> QED BY <1>1, <1>2

LEMMA ApplySteps ==
  ASSUME IInv, NEW p \in Client, NEW cs \in Lists(Candidate), Apply(p, cs)
  PROVE  Steps
<1> DEFINE r == [Idle EXCEPT !.todo = cs]
<1>1. /\ alone' = alone /\ log' = log /\ db' = db /\ ops' \in 0 .. MaxOps
      /\ run' = [run EXCEPT ![p] = r]
      /\ alone => \A q \in Client : run[q] = Idle
  BY ProposalLedgerAssumption DEF Apply, Starts, MayStart, IInv
<1>2. cs \in Seq(Candidate) /\ \A n \in 1 .. Len(cs) : StateOf(db, cs[n]) # "rejected"
  BY ListsOf DEF Apply
<1>3. r = [todo |-> cs, seen |-> {}, out |-> << >>]
  <2>1. r = [todo |-> cs, seen |-> Idle.seen, out |-> Idle.out]
    BY IdleIs, CallFields
  <2> QED BY <2>1, IdleIs
<1> HIDE DEF r
<1>4. r \in Call /\ r.todo = cs /\ r.out = Idle.out
  BY <1>2, <1>3, IdleIs DEF Call
<1>5. CallInv(alone, db, r)
  BY <1>2, <1>4, IdleCall DEF CallInv
<1>6. Progress(alone, log, db, log', db')
  BY <1>1, NoProgress DEF IInv
<1> QED BY <1>1, <1>5, <1>6, CallSteps DEF Steps

LEMMA Others ==
  ASSUME IInv, NEW p \in Client, run[p] # Idle
  PROVE  alone => \A q \in Client : q # p => run[q] = Idle
BY DEF IInv, OneCall

LEMMA SettledCall ==
  ASSUME NEW a, NEW v, NEW r, CallInv(a, v, r)
  PROVE  CallInv(a, v, Settled(r))
BY IdleCall DEF Settled

LEMMA ResolveSteps ==
  ASSUME IInv, NEW p \in Client, Resolve(p)
  PROVE  Steps
<1> DEFINE r == run[p]
           c == Head(r.todo)
<1>1. /\ r \in Call /\ CallInv(alone, db, r) /\ r.out = << >> /\ r.todo # << >>
      /\ alone' = alone /\ log' = log /\ db' = db /\ ops' \in 0 .. MaxOps
  BY DEF Resolve, IInv
<1>2. /\ r.todo \in Seq(Candidate) /\ r.seen \in SUBSET Candidate /\ c \in Candidate
      /\ Tail(r.todo) \in Seq(Candidate) /\ Len(Tail(r.todo)) = Len(r.todo) - 1
      /\ \A n \in 1 .. Len(r.todo) - 1 : Tail(r.todo)[n] = r.todo[n + 1] /\ n + 1 \in 1 .. Len(r.todo)
      /\ c = r.todo[1] /\ 1 \in 1 .. Len(r.todo)
  BY <1>1, CallIs
<1>3. alone => \A n \in 1 .. Len(Tail(r.todo)) : StateOf(db, Tail(r.todo)[n]) # "rejected"
  BY <1>1, <1>2 DEF CallInv
<1>4. alone => StateOf(db, c) # "rejected"
  BY <1>1, <1>2 DEF CallInv
<1>5. r # Idle
  BY <1>1, IdleIs
<1>6. Progress(alone, log, db, log', db')
  BY <1>1, NoProgress DEF IInv
<1> HIDE DEF c, r
<1> DEFINE q == [r EXCEPT !.todo = Tail(@)]
<1>7. q = [todo |-> Tail(r.todo), seen |-> r.seen, out |-> r.out]
  BY <1>1, CallFields
<1> HIDE DEF q
<1>8. q \in Call /\ q.todo = Tail(r.todo) /\ q.seen = r.seen /\ q.out = << >>
  BY <1>1, <1>2, <1>7, CallIs DEF Call
<1>9. CASE run' = [run EXCEPT ![p] = Settled(q)]
  <2>1. CallInv(alone, db, q)
    BY <1>1, <1>3, <1>8 DEF CallInv
  <2>2. CallInv(alone, db, Settled(q))
    BY <2>1, SettledCall
  <2> QED BY <1>1, <1>5, <1>6, <1>9, <2>2, Others, CallSteps DEF Steps, r
<1>10. CASE /\ ~ Skipped(db, c, r.seen)
            /\ run' = [run EXCEPT ![p].todo = Tail(@),
                                  ![p].seen = @ \union {c},
                                  ![p].out  = << candidateToEvent(db, c) >>]
  <2> DEFINE e == candidateToEvent(db, c)
             t == [todo |-> Tail(r.todo), seen |-> r.seen \union {c}, out |-> << e >>]
  <2>1. /\ e \in Event /\ e.type \in Acting /\ e.cand = c /\ Own(e) /\ ~ IsDone(e)
        /\ MakesMinted(e) => e.id \notin DOMAIN db.entities
    BY <1>2, InvViews, CandidateEvent DEF c
  <2>2. StateOf(db, c) # "applied" /\ StateOf(db, c) \in {"unknown", "pending", "applied", "rejected"}
    BY <1>2, <1>10, InvViews, StateIs DEF Skipped, c
  <2>3. run' = [run EXCEPT ![p] = t]
    <3> DEFINE u == [q EXCEPT !.seen = @ \union {c}]
               w == [u EXCEPT !.out = << e >>]
    <3>1. u = [todo |-> q.todo, seen |-> q.seen \union {c}, out |-> q.out]
      BY <1>8, CallFields
    <3> HIDE DEF u
    <3>2. u \in Call /\ u.todo = Tail(r.todo) /\ u.seen = r.seen \union {c}
      BY <1>1, <1>2, <1>8, <3>1, CallIs DEF Call, c, r
    <3> HIDE DEF e
    <3>3. w = [todo |-> u.todo, seen |-> u.seen, out |-> << e >>]
      BY <3>2, CallFields
    <3>4. w = t
      BY <3>2, <3>3
    <3> HIDE DEF w, t
    <3>5. run \in [Client -> Call]
      BY DEF IInv
    <3>6. run' = [run EXCEPT ![p] = w]
      BY <1>10, <3>5 DEF w, u, q, e, r
    <3> QED BY <3>4, <3>6
  <2> HIDE DEF e
  <2>4. e.type # "ProposalRejected" /\ Fresh(alone, db, e)
    BY <1>4, <2>1, <2>2 DEF Fresh, Acting
  <2>5. << e >> \in Seq(Event) /\ Awaits(alone, db, << e >>)
    BY <2>1, <2>4, AwaitsOne
  <2>6. t \in Call /\ t.todo = Tail(r.todo) /\ t.out = << e >>
    BY <1>1, <1>2, <2>5, CallIs DEF Call, c, r
  <2> HIDE DEF t
  <2>7. CallInv(alone, db, t)
    BY <1>3, <2>5, <2>6 DEF CallInv
  <2> QED BY <1>1, <1>5, <1>6, <2>3, <2>7, Others, CallSteps DEF Steps, r
<1> QED BY <1>9, <1>10 DEF Resolve, q, r, c

LEMMA WriteSteps ==
  ASSUME IInv, NEW p \in Client, Write(p)
  PROVE  Steps
<1> DEFINE r == run[p]
           e == Head(r.out)
           q == [r EXCEPT !.out = Tail(@)]
<1>1. /\ r \in Call /\ CallInv(alone, db, r) /\ r.out # << >> /\ alone \in BOOLEAN
      /\ alone' = alone /\ log' = Append(log, e) /\ db' = Fold(db, e) /\ ops' \in 0 .. MaxOps
      /\ run' = [run EXCEPT ![p] = Settled(q)] /\ LInv(alone, log, db)
  BY DEF Write, Record, IInv
<1>2. r # Idle
  BY <1>1, IdleIs
<1> HIDE DEF r
<1>3. q = [todo |-> r.todo, seen |-> r.seen, out |-> Tail(r.out)]
  BY <1>1, CallFields
<1>4. Tail(r.out) \in Seq(Event)
  BY <1>1, CallIs
<1> HIDE DEF q
<1>5. q \in Call /\ q.todo = r.todo /\ q.out = Tail(r.out)
  BY <1>1, <1>3, <1>4, CallIs DEF Call
<1>6. /\ Fits(alone, db, e) /\ Own(e) /\ Fresh(alone, db, e) /\ e.type # "ProposalRejected"
      /\ CallInv(alone, db', q)
  BY <1>1, <1>5, WriteCall
<1> HIDE DEF e
<1>7. Progress(alone, log, db, log', db')
  BY <1>1, <1>6, RecordProgress
<1>8. CallInv(alone, db', Settled(q))
  BY <1>6, SettledCall
<1> QED BY <1>1, <1>2, <1>7, <1>8, Others, CallSteps DEF Steps, r

LEMMA DieSteps ==
  ASSUME IInv, NEW p \in Client, Die(p)
  PROVE  Steps
<1>1. /\ alone' = alone /\ log' = log /\ db' = db /\ ops' \in 0 .. MaxOps
      /\ run' = [run EXCEPT ![p] = Idle] /\ run[p] # Idle
  BY ProposalLedgerAssumption DEF Die, IInv
<1>2. Progress(alone, log, db, log', db')
  BY <1>1, NoProgress DEF IInv
<1> QED BY <1>1, <1>2, IdleCall, Others, CallSteps DEF Steps

LEMMA BatchSteps ==
  ASSUME IInv, NEW operations \in Lists(Op), Batch(operations)
  PROVE  Steps
<1>1. /\ alone' = alone /\ ops' \in 0 .. MaxOps /\ run' = run
      /\ log' = BatchRun(operations).log /\ db' = BatchRun(operations).db
      /\ alone => \A q \in Client : run[q] = Idle
  BY ProposalLedgerAssumption DEF Batch, Starts, MayStart, IInv
<1>2. BatchRun(operations) \in BatchState /\ BatchInv(BatchRun(operations))
  BY ListsOf, BatchRunInv DEF IInv
<1>3. Progress(alone, log, db, log', db')
  BY <1>1, <1>2, BatchProgress
<1> QED BY <1>1, <1>3, StoreSteps DEF Steps

LEMMA proposeFeedbackSteps ==
  ASSUME IInv, NEW c \in Candidate, proposeFeedback(c)
  PROVE  Steps
<1> DEFINE e == Feedback(c)
<1>1. /\ alone' = alone /\ ops' \in 0 .. MaxOps /\ run' = run /\ alone \in BOOLEAN
      /\ log' = Append(log, e) /\ db' = Fold(db, e) /\ LInv(alone, log, db)
      /\ alone => \A q \in Client : run[q] = Idle
  BY ProposalLedgerAssumption DEF proposeFeedback, Record, Starts, MayStart, IInv
<1>2. e \in Event /\ e.type = "ProposalFeedback"
  <2>1. e \in [type : {"ProposalRejected", "ProposalFeedback"}, cand : Candidate]
    BY DEF Feedback
  <2> QED BY <2>1 DEF Event, Feedback
<1> HIDE DEF e
<1>3. /\ Fits(alone, db, e) /\ Own(e) /\ Fresh(alone, db, e) /\ e.type # "ProposalRejected"
  BY <1>2 DEF Fits, Own, Fresh, MakesMinted, IsDone, Acting
<1>4. Progress(alone, log, db, log', db')
  BY <1>1, <1>3, RecordProgress
<1> QED BY <1>1, <1>4, StoreSteps DEF Steps

\* Nothing happened, or a rebuild found the projections as they are.
LEMMA StutterSteps ==
  ASSUME IInv, UNCHANGED vars \/ Rebuild
  PROVE  Steps
<1>1. UNCHANGED vars
  BY InvViews DEF Rebuild, vars
<1>2. Progress(alone, log, db, log', db')
  BY <1>1, NoProgress DEF IInv, vars
<1>3. IInv'
  BY <1>1 DEF vars, IInv, OneCall
<1> QED BY <1>1, <1>2, <1>3 DEF Steps, vars

LEMMA NextSteps ==
  ASSUME IInv, [Next]_vars
  PROVE  Steps
<1>1. ASSUME NEW p \in Client, NEW c \in Candidate, Generate(p, c) PROVE Steps
  BY <1>1, GenerateSteps
<1>2. ASSUME NEW p \in Client, NEW cs \in Lists(Candidate), Apply(p, cs) PROVE Steps
  BY <1>2, ApplySteps
<1>3. ASSUME NEW p \in Client, Resolve(p) PROVE Steps
  BY <1>3, ResolveSteps
<1>4. ASSUME NEW p \in Client, NEW b \in Base, NEW d \in BOOLEAN, taskCreate(p, b, d)
      PROVE  Steps
  BY <1>4, taskCreateSteps
<1>5. ASSUME NEW p \in Client, NEW i \in DOMAIN db.entities, NEW s \in TaskState \ {"proposed"},
             NEW d \in BOOLEAN, taskUpdate(p, i, s, d)
      PROVE  Steps
  BY <1>5, taskUpdateSteps
<1>6. ASSUME NEW p \in Client, NEW i \in Item, inboxAdd(p, i) PROVE Steps
  BY <1>6, inboxAddSteps
<1>7. ASSUME NEW p \in Client, NEW i \in Item, inboxTriage(p, i) PROVE Steps
  BY <1>7, inboxTriageSteps
<1>8. ASSUME NEW p \in Client, Write(p) PROVE Steps
  BY <1>8, WriteSteps
<1>9. ASSUME NEW p \in Client, Die(p) PROVE Steps
  BY <1>9, DieSteps
<1>10. ASSUME NEW operations \in Lists(Op), Batch(operations) PROVE Steps
  BY <1>10, BatchSteps
<1>11. ASSUME NEW c \in Candidate, proposeFeedback(c) PROVE Steps
  BY <1>11, proposeFeedbackSteps
<1>12. CASE UNCHANGED vars \/ Rebuild
  BY <1>12, StutterSteps
<1> QED BY <1>1, <1>2, <1>3, <1>4, <1>5, <1>6, <1>7, <1>8, <1>9, <1>10, <1>11, <1>12 DEF Next

LEMMA Invariant == Spec => []IInv
<1>1. Init => IInv
  BY InitInv
<1>2. IInv /\ [Next]_vars => IInv'
  BY NextSteps DEF Steps
<1> QED BY <1>1, <1>2, PTL DEF Spec
-----------------------------------------------------------------------------
(***************************************************************************)
(* The theorems.                                                           *)
(***************************************************************************)

\* Log, projections, calls and counter have their types in every reachable state.
THEOREM TypeCorrect == Spec => []TypeOK
<1>1. IInv => TypeOK
  <2> SUFFICES ASSUME IInv PROVE TypeOK
    OBVIOUS
  <2>1. /\ log \in Seq(Event) /\ db.proposals \in [Candidate -> Row \union {None}]
        /\ DOMAIN db.entities \subseteq Id
        /\ \A i \in DOMAIN db.entities : db.entities[i] \in Entity
    BY InvViews, TablesOf DEF View
  <2> QED BY <2>1 DEF IInv, TypeOK
<1> QED BY <1>1, Invariant, PTL

\* A rebuild reproduces ledger and entities, of a log with redacted summaries too
\* (FR-MNT-1; rejectCandidateStep redacts both sides in one transaction).
THEOREM ReplayCorrect == Spec => []ReplayMatches
<1>1. IInv => ReplayMatches
  BY InvViews DEF ReplayMatches
<1> QED BY <1>1, Invariant, PTL

\* No call of any server changes a verdict or its reason, and where calls do not overlap
\* none brings a redacted summary back.
THEOREM VerdictsCorrect == Spec => VerdictsStand
<1> DEFINE Stand == \A c \in Candidate :
                      StateOf(db, c) \in {"applied", "rejected"} =>
                        /\ StateOf(db', c) = StateOf(db, c)
                        /\ db'.proposals[c].reason = db.proposals[c].reason
                        /\ alone /\ db.proposals[c].summary = "redacted" =>
                             db'.proposals[c].summary = "redacted"
<1>1. IInv /\ [Next]_vars => [Stand]_vars
  <2> SUFFICES ASSUME IInv, [Next]_vars, NEW c \in Candidate,
                      StateOf(db, c) \in {"applied", "rejected"}
               PROVE  /\ StateOf(db', c) = StateOf(db, c)
                      /\ db'.proposals[c].reason = db.proposals[c].reason
                      /\ alone /\ db.proposals[c].summary = "redacted" =>
                           db'.proposals[c].summary = "redacted"
    OBVIOUS
  <2>1. Decided(db.proposals[c]) /\ db.proposals[c] # None
    BY InvViews, StateIs DEF Decided
  <2>2. /\ Kept(db.proposals[c], db'.proposals[c])
        /\ alone => Shut(db.proposals[c], db'.proposals[c])
    BY NextSteps DEF Steps, Progress
  <2> QED BY <2>1, <2>2 DEF Kept, Shut, StateOf
<1>2. Spec => [][Stand]_vars
  BY <1>1, Invariant, PTL DEF Spec
<1> QED BY <1>2 DEF VerdictsStand

\* Where calls do not overlap two minted candidates never share an entity, and an inbox
\* item that triage closed as done has its task or decision, whoever died in between.
THEOREM EntityCorrect == Spec => []OwnEntity
<1>1. IInv => OwnEntity
  <2> SUFFICES ASSUME IInv PROVE OwnEntity
    OBVIOUS
  <2>1. LInv(alone, log, db) /\ DOMAIN log = 1 .. Len(log)
    BY DEF IInv, LInv
  <2>2. MintIsFresh
    <3> SUFFICES ASSUME alone, NEW c \in Minted, NEW d \in Minted,
                        NEW m \in MadeBy(c), NEW n \in MadeBy(d), m # n
                 PROVE  log[m].id # log[n].id
      BY DEF MintIsFresh
    <3>1. /\ m \in 1 .. Len(log) /\ MakesMinted(log[m])
          /\ n \in 1 .. Len(log) /\ MakesMinted(log[n])
      BY <2>1 DEF MadeBy, MakesMinted, Acting
    <3> QED BY <2>1, <3>1 DEF LInv, Apart
  <2>3. DoneHasEntity
    BY <2>1 DEF DoneHasEntity, LInv, DoneHas, IsDone, HasEntity
  <2> QED BY <2>2, <2>3 DEF OwnEntity
<1> QED BY <1>1, Invariant, PTL

\* The ledger implements Verdicts: a candidate is offered, then decided once, and where
\* calls do not overlap it is never acted upon after that.
THEOREM VerdictsImplemented == Spec => ImplementsVerdicts
<1>1. ASSUME Init PROVE Ledger!Init
  <2>1. \A c \in Candidate : StateOf(db, c) = "unknown"
    BY <1>1 DEF Init, NoView, StateOf
  <2>2. \A c \in Candidate : Cardinality(MadeBy(c)) = 0
    <3>1. \A c \in Candidate : MadeBy(c) = {}
      BY <1>1 DEF Init, MadeBy
    <3> QED BY <3>1, FS_EmptySet
  <2> QED BY <1>1, <2>1, <2>2 DEF Init, Ledger!Init
<1>2. ASSUME IInv, [Next]_vars PROVE [Ledger!Next]_(Ledger!vars)
  <2> DEFINE x(c) == StateOf(db, c)
             y(c) == StateOf(db', c)
             m(c) == Count(log, c)
             n(c) == Count(log', c)
  <2>1. /\ IInv' /\ alone' = alone
        /\ \A c \in Candidate : Step(alone, x(c), y(c), m(c), n(c))
    BY <1>2, NextSteps DEF Steps, Progress
  <2>2. /\ \A c \in Candidate : Cardinality(MadeBy(c)) = m(c)
        /\ \A c \in Candidate : Cardinality(MadeBy(c))' = n(c)
    BY DEF Count, Made, MadeBy, Acting
  <2>3. \A c \in Candidate : y(c) \in Ledger!Status /\ n(c) \in Nat
    <3>1. log' \in Seq(Event) /\ db' \in View
      BY <2>1, ReplayType DEF IInv, LInv
    <3> QED BY <3>1, StateIs, MadeFinite DEF Ledger!Status
  <2> HIDE DEF x, y, m, n
  <2>4. ASSUME NEW c \in Candidate
        PROVE  \/ y(c) = x(c) /\ n(c) = m(c)
               \/ x(c) = "unknown" /\ y(c) = "pending" /\ n(c) = m(c)
               \/ x(c) = "pending" /\ y(c) = "rejected" /\ n(c) = m(c)
               \/ x(c) = "pending" /\ y(c) = "applied" /\ n(c) = m(c) + 1
               \/ x(c) = "pending" /\ y(c) = "applied" /\ n(c) = m(c)
               \/ x(c) = "unknown" /\ y(c) = "unknown" /\ n(c) = m(c) + 1
               \/ ~ alone /\ x(c) \in {"applied", "rejected"} /\ y(c) = x(c) /\ n(c) = m(c) + 1
    BY <2>1 DEF Step
  <2> DEFINE S == [c \in Candidate |-> StateOf(db, c)]
             A == [c \in Candidate |-> Cardinality(MadeBy(c))]
  <2>5. /\ S' = [c \in Candidate |-> y(c)] /\ A' = [c \in Candidate |-> n(c)]
        /\ S = [c \in Candidate |-> x(c)] /\ A = [c \in Candidate |-> m(c)]
    BY <2>2 DEF x, y
  <2>6. /\ S' \in [Candidate -> Ledger!Status] /\ A' \in [Candidate -> Nat]
        /\ \A c \in Candidate : S[c] = x(c) /\ S'[c] = y(c) /\ A[c] = m(c) /\ A'[c] = n(c)
    BY <2>3, <2>5
  <2>7. Ledger!Next
    BY <2>1, <2>4, <2>6
       DEF Ledger!Next, Ledger!Stay, Ledger!Offer, Ledger!Reject, Ledger!Approve,
           Ledger!Moot, Ledger!ActUnknown, Ledger!Late
  <2> QED BY <2>7
<1> QED BY <1>1, <1>2, Invariant, PTL DEF Spec, ImplementsVerdicts, Ledger!Spec
=============================================================================
