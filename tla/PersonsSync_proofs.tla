------------------------ MODULE PersonsSync_proofs ------------------------
(***************************************************************************)
(* Proofs about Persons, for every set of identities, persons, servers and *)
(* commitments, and about SyncAll, for every set of connectors, scenarios  *)
(* and processes.  The two share no name and no state; Persons comes first.*)
(***************************************************************************)
EXTENDS Persons, SyncAll, TLAPS, FiniteSetTheorems


\* ensurePerson gives a person a row, keeps every other one, and keeps counts.
LEMMA EnsuredType ==
  ASSUME TypeOK, NEW q \in Person, NEW n \in Name \union {Unnamed}
  PROVE  /\ Ensured(q, n) \in [Person -> PersonRow \union {Unseen}]
         /\ Ensured(q, n)[q] # Unseen
         /\ \A p \in Person : persons[p] # Unseen => Ensured(q, n)[p] # Unseen
         /\ \A p \in Person \ {q} : Ensured(q, n)[p] = persons[p]
<1>1. persons \in [Person -> PersonRow \union {Unseen}]
  BY DEF TypeOK
<1>2. ASSUME NEW r \in PersonRow PROVE [r EXCEPT !.name = n] \in PersonRow
  BY DEF PersonRow
<1>3. [name |-> n, count |-> 0] \in PersonRow
  BY DEF PersonRow
<1>4. Unseen \notin PersonRow
  BY RowAssumption
<1> QED BY <1>1, <1>2, <1>3, <1>4 DEF Ensured

\* Recounting keeps which persons have a row, and the count it writes is the number
\* of identities.
LEMMA RecountType ==
  ASSUME NEW rows \in [Person -> PersonRow \union {Unseen}], NEW id, NEW P
  PROVE  /\ Recount(rows, id, P) \in [Person -> PersonRow \union {Unseen}]
         /\ \A p \in Person :
               /\ Recount(rows, id, P)[p] # Unseen <=> rows[p] # Unseen
               /\ p \notin P => Recount(rows, id, P)[p] = rows[p]
               /\ p \in P /\ rows[p] # Unseen =>
                     Recount(rows, id, P)[p].count = Cardinality(IdentitiesOf(id, p))
<1>1. ASSUME NEW p \in Person PROVE Cardinality(IdentitiesOf(id, p)) \in Nat
  <2>1. IsFiniteSet(IdentitiesOf(id, p))
    BY PersonsAssumption, FS_Subset DEF IdentitiesOf
  <2> QED BY <2>1, FS_CardinalityType
<1>2. ASSUME NEW r \in PersonRow, NEW k \in Nat
      PROVE  [r EXCEPT !.count = k] \in PersonRow /\ [r EXCEPT !.count = k].count = k
  BY DEF PersonRow
<1>3. Unseen \notin PersonRow
  BY RowAssumption
<1> QED BY <1>1, <1>2, <1>3 DEF Recount

\* A text names a person or nobody.
LEMMA ResolveType ==
  ASSUME TypeOK, NEW w
  PROVE  resolvePersonId(w) \in Person \union {Nobody}
<1> DEFINE byHandle == {ident[i].person : i \in {k \in Seen : HandleOf[k] = w}}
           byName == {p \in Person : /\ persons[p] # Unseen
                                     /\ persons[p].name = w
                                     /\ persons[p].count > 0}
<1>1. \A i \in Seen : ident[i].person \in Person
  BY DEF TypeOK, Seen, IdentRow
<1>2. byHandle \subseteq Person /\ byName \subseteq Person
  BY <1>1
<1>3. ASSUME NEW S \in SUBSET Person, Cardinality(S) = 1
      PROVE  (CHOOSE p \in S : TRUE) \in Person
  <2>1. S # {}
    BY <1>3, FS_EmptySet
  <2> QED BY <2>1
<1>4. resolvePersonId(w) = IF w \in Seen THEN ident[w].person
                           ELSE IF Cardinality(byHandle) = 1 THEN CHOOSE p \in byHandle : TRUE
                           ELSE IF Cardinality(byName) = 1 THEN CHOOSE p \in byName : TRUE
                           ELSE Nobody
  BY DEF resolvePersonId
<1> HIDE DEF byHandle, byName
<1> QED BY <1>1, <1>2, <1>3, <1>4
-----------------------------------------------------------------------------
(***************************************************************************)
(* Types.                                                                  *)
(***************************************************************************)

ViewType ==
    /\ ident \in [Identity -> IdentRow \union {Unseen}]
    /\ persons \in [Person -> PersonRow \union {Unseen}]
    /\ ledger \in [Commitment -> LedgerRow \union {Unseen}]

LEMMA ObserveType ==
  ASSUME TypeOK, NEW i \in Identity, NEW n \in Name \union {Unnamed},
         PersonIdentityObserved(i, n), CountsMatch
  PROVE  ViewType'
<1>1. ViewType
  BY DEF TypeOK, ViewType
<1>2. Home[i] \in Person
  BY PersonsAssumption
<1>3. CASE ident[i] = Unseen
  <2>1. [person |-> Home[i], name |-> n] \in IdentRow
    BY <1>2 DEF IdentRow
  <2>2. ident' \in [Identity -> IdentRow \union {Unseen}]
    BY <1>1, <1>3, <2>1 DEF PersonIdentityObserved, ViewType
  <2>3. persons' \in [Person -> PersonRow \union {Unseen}]
    BY <1>2, <1>3, EnsuredType, RecountType DEF PersonIdentityObserved
  <2> QED BY <1>1, <2>2, <2>3 DEF PersonIdentityObserved, ViewType
<1>4. CASE ident[i] # Unseen
  <2>1. ident[i] \in IdentRow /\ ident[i].person \in Person
    BY <1>1, <1>4 DEF ViewType, IdentRow
  <2>2. [ident[i] EXCEPT !.name = n] \in IdentRow
    BY <2>1 DEF IdentRow
  <2>3. persons[ident[i].person] \in PersonRow
    BY <1>1, <1>4, <2>1 DEF ViewType, CountsMatch, Seen
  <2>4. [persons[ident[i].person] EXCEPT !.name = n] \in PersonRow
    BY <2>3 DEF PersonRow
  <2> QED BY <1>1, <1>4, <2>1, <2>2, <2>4 DEF PersonIdentityObserved, ViewType
<1> QED BY <1>3, <1>4

LEMMA MergeType ==
  ASSUME TypeOK, NEW p \in Person, NEW q \in Person, PersonsMerged(p, q)
  PROVE  ViewType'
<1>1. ViewType
  BY DEF TypeOK, ViewType
<1>2. ASSUME NEW r \in IdentRow PROVE [r EXCEPT !.person = q] \in IdentRow
  BY DEF IdentRow
<1>3. ASSUME NEW r \in LedgerRow PROVE [r EXCEPT !.person = q] \in LedgerRow
  BY DEF LedgerRow
<1>4. ident' \in [Identity -> IdentRow \union {Unseen}]
  BY <1>1, <1>2 DEF PersonsMerged, ViewType, IdentitiesOf
<1>5. ledger' \in [Commitment -> LedgerRow \union {Unseen}]
  BY <1>1, <1>3 DEF PersonsMerged, ViewType
<1>6. persons' \in [Person -> PersonRow \union {Unseen}]
  BY EnsuredType, RecountType DEF PersonsMerged
<1> QED BY <1>4, <1>5, <1>6 DEF ViewType

LEMMA SplitType ==
  ASSUME TypeOK, NEW i \in Identity, NEW q \in Person, PersonSplit(i, q)
  PROVE  ViewType'
<1>1. ViewType
  BY DEF TypeOK, ViewType
<1>2. CASE ident[i] = Unseen \/ ident[i].person = q
  BY <1>1, <1>2 DEF PersonSplit, view, ViewType
<1>3. CASE ~(ident[i] = Unseen \/ ident[i].person = q)
  <2>1. ident[i] \in IdentRow
    BY <1>1, <1>3 DEF ViewType
  <2>2. [ident[i] EXCEPT !.person = q] \in IdentRow
    BY <2>1 DEF IdentRow
  <2>3. ASSUME NEW r \in LedgerRow PROVE [r EXCEPT !.person = q] \in LedgerRow
    BY DEF LedgerRow
  <2>4. ident' \in [Identity -> IdentRow \union {Unseen}]
    BY <1>1, <1>3, <2>2 DEF PersonSplit, ViewType
  <2>5. ledger' \in [Commitment -> LedgerRow \union {Unseen}]
    BY <1>1, <1>3, <2>3 DEF PersonSplit, ViewType
  <2>6. persons' \in [Person -> PersonRow \union {Unseen}]
    BY <1>3, EnsuredType, RecountType DEF PersonSplit
  <2> QED BY <2>4, <2>5, <2>6 DEF ViewType
<1> QED BY <1>2, <1>3

LEMMA OpenedType ==
  ASSUME TypeOK, NEW c \in Commitment, NEW w \in Written, CommitmentOpened(c, w)
  PROVE  ViewType'
<1>1. ViewType
  BY DEF TypeOK, ViewType
<1>2. StateOnOpen(ledger[c]) \in CommitmentState
  BY <1>1 DEF StateOnOpen, ViewType, LedgerRow, CommitmentState
<1>3. [written |-> w, person |-> resolvePersonId(w), state |-> StateOnOpen(ledger[c])]
        \in LedgerRow
  BY <1>2, ResolveType DEF LedgerRow
<1> QED BY <1>1, <1>3 DEF CommitmentOpened, ViewType

LEMMA MovedType ==
  ASSUME TypeOK, NEW c \in Commitment, NEW s \in CommitmentState, CommitmentMoved(c, s)
  PROVE  ViewType'
<1>1. ViewType
  BY DEF TypeOK, ViewType
<1>2. ASSUME NEW r \in LedgerRow PROVE [r EXCEPT !.state = s] \in LedgerRow
  BY DEF LedgerRow
<1> QED BY <1>1, <1>2 DEF CommitmentMoved, ViewType

\* A decided event is one of four; its fields are of the right kinds.
LEMMA EventFields ==
  ASSUME NEW e \in Event
  PROVE  /\ e.type = "PersonsMerged" => e.from \in Person /\ e.into \in Person
         /\ e.type = "PersonSplit" => e.identity \in Identity /\ e.into \in Person
         /\ e.type = "CommitmentOpened" => e.id \in Commitment /\ e.written \in Written
         /\ e.type = "CommitmentMoved" => e.id \in Commitment /\ e.to \in CommitmentState
BY DEF Event

\* What a step can do to the three tables.
ViewStep ==
    \/ \E i \in Identity, n \in Name \union {Unnamed} : PersonIdentityObserved(i, n)
    \/ \E p, q \in Person : PersonsMerged(p, q)
    \/ \E i \in Identity, q \in Person : PersonSplit(i, q)
    \/ \E c \in Commitment, w \in Written : CommitmentOpened(c, w)
    \/ \E c \in Commitment, s \in CommitmentState : CommitmentMoved(c, s)
    \/ UNCHANGED view

LEMMA RecordView ==
  ASSUME TypeOK, NEW s \in Server, Record(s)
  PROVE  ViewStep
<1>1. run[s] \in Event
  BY DEF Record, TypeOK
<1>2. CASE run[s].type = "PersonsMerged" /\ PersonsMerged(run[s].from, run[s].into)
  BY <1>1, <1>2, EventFields DEF ViewStep
<1>3. CASE run[s].type = "PersonSplit" /\ PersonSplit(run[s].identity, run[s].into)
  BY <1>1, <1>3, EventFields DEF ViewStep
<1>4. CASE run[s].type = "CommitmentOpened" /\ CommitmentOpened(run[s].id, run[s].written)
  BY <1>1, <1>4, EventFields DEF ViewStep
<1>5. CASE run[s].type = "CommitmentMoved" /\ CommitmentMoved(run[s].id, run[s].to)
  BY <1>1, <1>5, EventFields DEF ViewStep
<1> QED BY <1>2, <1>3, <1>4, <1>5 DEF Record

LEMMA NextView ==
  ASSUME TypeOK, [Next]_vars
  PROVE  ViewStep
<1>1. ASSUME NEW i \in Identity, NEW n \in Name \union {Unnamed}, Observe(i, n)
      PROVE  ViewStep
  BY <1>1 DEF Observe, ViewStep
<1>2. ASSUME NEW s \in Server, NEW e, Decide(s, e) PROVE ViewStep
  BY <1>2 DEF Decide, ViewStep
<1>3. ASSUME UNCHANGED vars PROVE ViewStep
  BY <1>3 DEF vars, ViewStep
<1> QED BY <1>1, <1>2, <1>3, RecordView
        DEF Next, personMerge, personSplit, proposeApply, commitmentTransition

\* The bookkeeping of the servers keeps its types.
LEMMA NextRun ==
  ASSUME TypeOK, [Next]_vars
  PROVE  run' \in [Server -> Event \union {Unseen}] /\ seen' \in 0 .. MaxSeen /\ ops' \in 0 .. MaxOps
<1>1. /\ run \in [Server -> Event \union {Unseen}]
      /\ seen \in 0 .. MaxSeen /\ ops \in 0 .. MaxOps /\ MaxSeen \in Nat /\ MaxOps \in Nat
  BY PersonsAssumption DEF TypeOK
<1>2. ASSUME NEW i \in Identity, NEW n, Observe(i, n)
      PROVE  UNCHANGED <<run, ops>> /\ seen' \in 0 .. MaxSeen
  BY <1>1, <1>2 DEF Observe
<1>3. ASSUME NEW s \in Server, NEW e \in Event, Decide(s, e)
      PROVE  run' \in [Server -> Event \union {Unseen}] /\ ops' \in 0 .. MaxOps /\ seen' = seen
  BY <1>1, <1>3 DEF Decide
<1>4. ASSUME NEW s \in Server, NEW p \in Person, NEW q \in Person, personMerge(s, p, q)
      PROVE  \E e \in Event : Decide(s, e)
  <2>1. [type |-> "PersonsMerged", from |-> p, into |-> q] \in Event
    BY DEF Event
  <2> QED BY <1>4, <2>1 DEF personMerge
<1>5. ASSUME NEW s \in Server, NEW i \in Identity, NEW q \in Person, personSplit(s, i, q)
      PROVE  \E e \in Event : Decide(s, e)
  <2>1. [type |-> "PersonSplit", identity |-> i, into |-> q] \in Event
    BY DEF Event
  <2> QED BY <1>5, <2>1 DEF personSplit
<1>6. ASSUME NEW s \in Server, NEW c \in Commitment, NEW w \in Written, proposeApply(s, c, w)
      PROVE  \E e \in Event : Decide(s, e)
  <2>1. [type |-> "CommitmentOpened", id |-> c, written |-> w] \in Event
    BY DEF Event
  <2> QED BY <1>6, <2>1 DEF proposeApply
<1>7. ASSUME NEW s \in Server, NEW c \in Commitment, NEW to \in CommitmentState,
             commitmentTransition(s, c, to)
      PROVE  \E e \in Event : Decide(s, e)
  <2>1. [type |-> "CommitmentMoved", id |-> c, to |-> to] \in Event
    BY DEF Event
  <2> QED BY <1>7, <2>1 DEF commitmentTransition
<1>8. ASSUME NEW s \in Server, Record(s)
      PROVE  run' \in [Server -> Event \union {Unseen}] /\ UNCHANGED <<seen, ops>>
  BY <1>1, <1>8 DEF Record
<1>9. CASE UNCHANGED vars
  BY <1>1, <1>9 DEF vars
<1>10. CASE Next
  BY <1>1, <1>2, <1>3, <1>4, <1>5, <1>6, <1>7, <1>8, <1>10 DEF Next
<1> QED BY <1>9, <1>10
-----------------------------------------------------------------------------
(***************************************************************************)
(* The counts.                                                             *)
(***************************************************************************)

LEMMA ObserveCounts ==
  ASSUME TypeOK, CountsMatch, NEW i \in Identity, NEW n \in Name \union {Unnamed},
         PersonIdentityObserved(i, n)
  PROVE  CountsMatch'
<1>1. /\ ident \in [Identity -> IdentRow \union {Unseen}]
      /\ persons \in [Person -> PersonRow \union {Unseen}]
      /\ Unseen \notin IdentRow /\ Unseen \notin PersonRow
  BY RowAssumption DEF TypeOK
<1>2. Home[i] \in Person
  BY PersonsAssumption
<1>3. CASE ident[i] = Unseen
  <2> DEFINE row == [person |-> Home[i], name |-> n]
             rows == Ensured(Home[i], n)
  <2>1. row \in IdentRow /\ row # Unseen /\ row.person = Home[i]
    BY <1>1, <1>2 DEF IdentRow
  <2>2. ident' = [ident EXCEPT ![i] = row] /\ persons' = Recount(rows, ident', {Home[i]})
    BY <1>3 DEF PersonIdentityObserved
  <2>3. /\ rows \in [Person -> PersonRow \union {Unseen}]
        /\ rows[Home[i]] # Unseen
        /\ \A p \in Person : persons[p] # Unseen => rows[p] # Unseen
        /\ \A p \in Person \ {Home[i]} : rows[p] = persons[p]
    BY <1>2, EnsuredType
  <2> HIDE DEF row, rows
  <2>4. \A p \in Person :
           /\ persons'[p] # Unseen <=> rows[p] # Unseen
           /\ p # Home[i] => persons'[p] = rows[p]
           /\ p = Home[i] => persons'[p].count = Cardinality(IdentitiesOf(ident', p))
    BY <2>2, <2>3, RecountType
  <2>5. ASSUME NEW k \in Seen' PROVE persons'[ident'[k].person] # Unseen
    <3>1. CASE k = i
      BY <1>1, <1>2, <2>1, <2>2, <2>3, <2>4, <3>1
    <3>2. CASE k # i
      <4>1. k \in Seen /\ ident'[k] = ident[k] /\ ident[k].person \in Person
        BY <1>1, <2>2, <2>5, <3>2 DEF Seen, IdentRow
      <4> QED BY <2>3, <2>4, <4>1 DEF CountsMatch
    <3> QED BY <3>1, <3>2
  <2>6. ASSUME NEW p \in Person, persons'[p] # Unseen
        PROVE  persons'[p].count = Cardinality(IdentitiesOf(ident', p))
    <3>1. CASE p = Home[i]
      BY <2>4, <3>1
    <3>2. CASE p # Home[i]
      <4>1. persons'[p] = persons[p]
        BY <2>3, <2>4, <3>2
      <4>2. IdentitiesOf(ident', p) = IdentitiesOf(ident, p)
        BY <1>1, <1>3, <2>1, <2>2, <3>2 DEF IdentitiesOf
      <4> QED BY <2>6, <4>1, <4>2 DEF CountsMatch
    <3> QED BY <3>1, <3>2
  <2> QED BY <2>5, <2>6 DEF CountsMatch
<1>4. CASE ident[i] # Unseen /\ n # Unnamed
  <2> DEFINE q == ident[i].person
  <2>1. ident[i] \in IdentRow /\ q \in Person /\ persons[q] \in PersonRow
    BY <1>1, <1>4 DEF IdentRow, CountsMatch, Seen
  <2>2. /\ [ident[i] EXCEPT !.name = n] \in IdentRow
        /\ [ident[i] EXCEPT !.name = n].person = q
    BY <2>1 DEF IdentRow
  <2>3. /\ [persons[q] EXCEPT !.name = n] \in PersonRow
        /\ [persons[q] EXCEPT !.name = n].count = persons[q].count
    BY <2>1 DEF PersonRow
  <2>4. /\ ident' = [ident EXCEPT ![i] = [ident[i] EXCEPT !.name = n]]
        /\ persons' = [persons EXCEPT ![q] = [persons[q] EXCEPT !.name = n]]
    BY <1>1, <1>4, <2>1 DEF PersonIdentityObserved
  <2>5. \A k \in Identity : /\ ident'[k] # Unseen <=> ident[k] # Unseen
                            /\ ident[k] # Unseen => ident'[k].person = ident[k].person
    BY <1>1, <1>4, <2>2, <2>4
  <2>6. \A p \in Person : /\ persons'[p] # Unseen <=> persons[p] # Unseen
                          /\ persons[p] # Unseen => persons'[p].count = persons[p].count
    BY <1>1, <2>1, <2>3, <2>4
  <2>7. \A p \in Person : IdentitiesOf(ident', p) = IdentitiesOf(ident, p)
    BY <2>5 DEF IdentitiesOf
  <2>8. \A k \in Seen : ident[k].person \in Person
    BY <1>1 DEF Seen, IdentRow
  <2> HIDE DEF q
  <2> QED BY <2>5, <2>6, <2>7, <2>8 DEF CountsMatch, Seen
<1>5. CASE ident[i] # Unseen /\ n = Unnamed
  <2>1. UNCHANGED <<ident, persons>>
    BY <1>5 DEF PersonIdentityObserved
  <2> QED BY <2>1 DEF CountsMatch, Seen, IdentitiesOf
<1> QED BY <1>3, <1>4, <1>5

\* Both a merge and a split move some identities of p to q and recount the two.
Moves(M, p, q) ==
    /\ M \subseteq IdentitiesOf(ident, p)
    /\ ident' = [i \in Identity |-> IF i \in M THEN [ident[i] EXCEPT !.person = q] ELSE ident[i]]
    /\ persons' = Recount(Ensured(q, Unnamed), ident', {p, q})

\* What a move does to each identity.
LEMMA MovesIdent ==
  ASSUME TypeOK, NEW p \in Person, NEW q \in Person, NEW M, Moves(M, p, q)
  PROVE  \A k \in Identity :
            /\ ident'[k] # Unseen <=> ident[k] # Unseen
            /\ ident[k] # Unseen => ident'[k].person = IF k \in M THEN q ELSE ident[k].person
<1>1. ident \in [Identity -> IdentRow \union {Unseen}] /\ Unseen \notin IdentRow
  BY RowAssumption DEF TypeOK
<1>2. ASSUME NEW r \in IdentRow
      PROVE  [r EXCEPT !.person = q] \in IdentRow /\ [r EXCEPT !.person = q].person = q
  BY DEF IdentRow
<1>3. \A k \in M : ident[k] # Unseen
  BY DEF Moves, IdentitiesOf
<1> QED BY <1>1, <1>2, <1>3 DEF Moves

LEMMA MovesCounts ==
  ASSUME TypeOK, CountsMatch, NEW p \in Person, NEW q \in Person, NEW M, Moves(M, p, q)
  PROVE  CountsMatch'
<1>1. /\ ident \in [Identity -> IdentRow \union {Unseen}]
      /\ Unseen \notin IdentRow
  BY RowAssumption DEF TypeOK
<1>2. \A k \in Seen : ident[k].person \in Person
  BY <1>1 DEF Seen, IdentRow
<1> DEFINE rows == Ensured(q, Unnamed)
<1>3. /\ rows \in [Person -> PersonRow \union {Unseen}]
      /\ rows[q] # Unseen
      /\ \A r \in Person : persons[r] # Unseen => rows[r] # Unseen
      /\ \A r \in Person \ {q} : rows[r] = persons[r]
  BY EnsuredType
<1>4. persons' = Recount(rows, ident', {p, q})
  BY DEF Moves
<1> HIDE DEF rows
<1>5. \A r \in Person :
         /\ persons'[r] # Unseen <=> rows[r] # Unseen
         /\ r \notin {p, q} => persons'[r] = rows[r]
         /\ r \in {p, q} /\ rows[r] # Unseen =>
               persons'[r].count = Cardinality(IdentitiesOf(ident', r))
  BY <1>3, <1>4, RecountType
<1>6. ASSUME NEW k \in Seen' PROVE persons'[ident'[k].person] # Unseen
  <2>1. k \in Seen
    BY <1>6, MovesIdent DEF Seen
  <2>2. ident'[k].person = q \/ ident'[k].person = ident[k].person
    BY <2>1, MovesIdent DEF Seen
  <2> QED BY <1>2, <1>3, <1>5, <2>1, <2>2 DEF CountsMatch
<1>7. ASSUME NEW r \in Person, persons'[r] # Unseen
      PROVE  persons'[r].count = Cardinality(IdentitiesOf(ident', r))
  <2>1. CASE r \in {p, q}
    BY <1>5, <1>7, <2>1
  <2>2. CASE r \notin {p, q}
    <3>1. persons'[r] = persons[r]
      BY <1>3, <1>5, <2>2
    <3>2. \A k \in M : ident[k].person = p
      BY DEF Moves, IdentitiesOf
    <3>3. IdentitiesOf(ident', r) = IdentitiesOf(ident, r)
      BY <2>2, <3>2, MovesIdent DEF IdentitiesOf
    <3> QED BY <1>7, <3>1, <3>3 DEF CountsMatch
  <2> QED BY <2>1, <2>2
<1> QED BY <1>6, <1>7 DEF CountsMatch

LEMMA MergeMoves ==
  ASSUME NEW p \in Person, NEW q \in Person, PersonsMerged(p, q)
  PROVE  Moves(IdentitiesOf(ident, p), p, q)
BY DEF PersonsMerged, Moves

LEMMA SplitMoves ==
  ASSUME TypeOK, NEW i \in Identity, NEW q \in Person, PersonSplit(i, q),
         ident[i] # Unseen, ident[i].person # q
  PROVE  ident[i].person \in Person /\ Moves({i}, ident[i].person, q)
<1>1. ident \in [Identity -> IdentRow \union {Unseen}]
  BY DEF TypeOK
<1>2. ident[i].person \in Person
  BY <1>1 DEF IdentRow
<1>3. {i} \subseteq IdentitiesOf(ident, ident[i].person)
  BY DEF IdentitiesOf
<1>4. ident' = [k \in Identity |-> IF k \in {i} THEN [ident[k] EXCEPT !.person = q] ELSE ident[k]]
  BY <1>1 DEF PersonSplit
<1> QED BY <1>2, <1>3, <1>4 DEF PersonSplit, Moves

\* Types and counts, together: naming a known identity's person needs the person's row.
CInv == TypeOK /\ CountsMatch

LEMMA NextCInv ==
  ASSUME CInv, [Next]_vars
  PROVE  CInv'
<1>1. TypeOK /\ CountsMatch
  BY DEF CInv
<1>2. ASSUME NEW i \in Identity, NEW n \in Name \union {Unnamed}, PersonIdentityObserved(i, n)
      PROVE  ViewType' /\ CountsMatch'
  BY <1>1, <1>2, ObserveType, ObserveCounts
<1>3. ASSUME NEW p \in Person, NEW q \in Person, PersonsMerged(p, q)
      PROVE  ViewType' /\ CountsMatch'
  BY <1>1, <1>3, MergeType, MergeMoves, MovesCounts
<1>4. ASSUME UNCHANGED <<ident, persons>> PROVE CountsMatch'
  BY <1>1, <1>4 DEF CountsMatch, Seen, IdentitiesOf
<1>5. ASSUME NEW i \in Identity, NEW q \in Person, PersonSplit(i, q)
      PROVE  ViewType' /\ CountsMatch'
  <2>1. CASE ident[i] = Unseen \/ ident[i].person = q
    <3>1. UNCHANGED <<ident, persons>>
      BY <1>5, <2>1 DEF PersonSplit, view
    <3> QED BY <1>1, <1>4, <1>5, <3>1, SplitType
  <2>2. CASE ident[i] # Unseen /\ ident[i].person # q
    BY <1>1, <1>5, <2>2, SplitType, SplitMoves, MovesCounts
  <2> QED BY <2>1, <2>2
<1>6. ASSUME NEW c \in Commitment, NEW w \in Written, CommitmentOpened(c, w)
      PROVE  ViewType' /\ CountsMatch'
  <2>1. UNCHANGED <<ident, persons>>
    BY <1>6 DEF CommitmentOpened
  <2> QED BY <1>1, <1>4, <1>6, <2>1, OpenedType
<1>7. ASSUME NEW c \in Commitment, NEW s \in CommitmentState, CommitmentMoved(c, s)
      PROVE  ViewType' /\ CountsMatch'
  <2>1. UNCHANGED <<ident, persons>>
    BY <1>7 DEF CommitmentMoved
  <2> QED BY <1>1, <1>4, <1>7, <2>1, MovedType
<1>8. ASSUME UNCHANGED view PROVE ViewType' /\ CountsMatch'
  <2>1. UNCHANGED <<ident, persons>>
    BY <1>8 DEF view
  <2> QED BY <1>1, <1>4, <1>8, <2>1 DEF TypeOK, ViewType, view
<1>9. ViewType' /\ CountsMatch'
  BY <1>1, <1>2, <1>3, <1>5, <1>6, <1>7, <1>8, NextView DEF ViewStep
<1> QED BY <1>1, <1>9, NextRun DEF CInv, TypeOK, ViewType

LEMMA InitCInv == Init => CInv
<1> SUFFICES ASSUME Init PROVE CInv
  OBVIOUS
<1>1. TypeOK
  BY PersonsAssumption DEF Init, TypeOK
<1>2. CountsMatch
  BY DEF Init, CountsMatch, Seen
<1> QED BY <1>1, <1>2 DEF CInv

\* Every variable keeps its type.
THEOREM TypeCorrect == Spec => []TypeOK
<1>1. CInv => TypeOK
  BY DEF CInv
<1> QED BY <1>1, InitCInv, NextCInv, PTL DEF Spec

\* However merges, splits and observations of any number of servers interleave, the
\* stored count of every person is the number of its identities.
THEOREM CountsCorrect == Spec => []CountsMatch
<1>1. CInv => CountsMatch
  BY DEF CInv
<1> QED BY <1>1, InitCInv, NextCInv, PTL DEF Spec
-----------------------------------------------------------------------------
(***************************************************************************)
(* Promises.                                                               *)
(***************************************************************************)

\* A commitment that a step leaves alone keeps its identity if that stays where it is.
LEMMA KeptLink ==
  ASSUME NEW c, KeyAt(c), HandleAt(c), ledger'[c] = ledger[c],
         \A k \in Seen : k \in Seen' /\ ident'[k].person = ident[k].person
  PROVE  KeyAt(c)' /\ HandleAt(c)'
BY DEF KeyAt, HandleAt, Linked

LEMMA ObserveKeeps ==
  ASSUME TypeOK, NEW i \in Identity, NEW n \in Name \union {Unnamed},
         PersonIdentityObserved(i, n)
  PROVE  \A k \in Seen : k \in Seen' /\ ident'[k].person = ident[k].person
<1>1. ident \in [Identity -> IdentRow \union {Unseen}] /\ Unseen \notin IdentRow
  BY RowAssumption DEF TypeOK
<1>2. CASE ident[i] = Unseen
  BY <1>1, <1>2 DEF PersonIdentityObserved, Seen
<1>3. CASE ident[i] # Unseen /\ n # Unnamed
  <2> DEFINE row == [ident[i] EXCEPT !.name = n]
  <2>1. row \in IdentRow /\ row.person = ident[i].person
    BY <1>1, <1>3 DEF IdentRow
  <2>2. ident' = [ident EXCEPT ![i] = row]
    BY <1>1, <1>3 DEF PersonIdentityObserved
  <2> HIDE DEF row
  <2> QED BY <1>1, <2>1, <2>2 DEF Seen
<1>4. CASE ident[i] # Unseen /\ n = Unnamed
  BY <1>4 DEF PersonIdentityObserved, Seen
<1> QED BY <1>2, <1>3, <1>4

\* A commitment opened with a key is linked to that identity's person, if to anybody.
LEMMA ResolveKey ==
  ASSUME TypeOK, NEW w \in Key, w \in Written, resolvePersonId(w) # Nobody
  PROVE  w \in Seen /\ resolvePersonId(w) = ident[w].person
<1>1. {ident[i].person : i \in {k \in Seen : HandleOf[k] = w}} = {}
  <2>1. \A k \in Seen : HandleOf[k] \in Range(HandleOf)
    BY PersonsAssumption DEF Range, Seen
  <2> QED BY <2>1 DEF Key
<1>2. {p \in Person : persons[p] # Unseen /\ persons[p].name = w /\ persons[p].count > 0} = {}
  <2>1. \A p \in Person : persons[p] # Unseen => persons[p].name \in Name \union {Unnamed}
    BY DEF TypeOK, PersonRow
  <2>2. w # Unnamed
    BY PersonsAssumption
  <2> QED BY <2>1, <2>2 DEF Key
<1>3. Cardinality({}) # 1
  BY FS_EmptySet
<1> QED BY <1>1, <1>2, <1>3 DEF resolvePersonId

\* A commitment opened with a handle is linked to a person one of its identities has.
LEMMA ResolveHandle ==
  ASSUME TypeOK, NEW w \in Handle, resolvePersonId(w) # Nobody
  PROVE  \E i \in Seen : HandleOf[i] = w /\ ident[i].person = resolvePersonId(w)
<1> DEFINE byHandle == {ident[i].person : i \in {k \in Seen : HandleOf[k] = w}}
           byName == {p \in Person : persons[p] # Unseen /\ persons[p].name = w /\ persons[p].count > 0}
<1>1. w \notin Seen
  BY DEF Handle, Seen
<1>2. byName = {}
  <2>1. \A p \in Person : persons[p] # Unseen => persons[p].name \in Name \union {Unnamed}
    BY DEF TypeOK, PersonRow
  <2>2. w \in Written
    BY PersonsAssumption DEF Handle, Range
  <2>3. w # Unnamed
    BY <2>2, PersonsAssumption
  <2> QED BY <2>1, <2>3 DEF Handle
<1>3. Cardinality({}) # 1
  BY FS_EmptySet
<1>4. resolvePersonId(w) = IF Cardinality(byHandle) = 1 THEN CHOOSE p \in byHandle : TRUE ELSE Nobody
  BY <1>1, <1>2, <1>3 DEF resolvePersonId
<1>5. byHandle # {}
  BY <1>3, <1>4
<1>6. (CHOOSE p \in byHandle : TRUE) \in byHandle
  BY <1>5
<1> QED BY <1>4, <1>6

LEMMA OpenedLinks ==
  ASSUME TypeOK, KeyFollows, HandleFollows, NEW c \in Commitment, NEW w \in Written,
         CommitmentOpened(c, w)
  PROVE  KeyFollows' /\ HandleFollows'
<1> SUFFICES ASSUME NEW d \in Commitment PROVE KeyAt(d)' /\ HandleAt(d)'
  BY DEF KeyFollows, HandleFollows
<1>1. UNCHANGED ident
  BY DEF CommitmentOpened
<1>2. CASE d # c
  <2>1. ledger'[d] = ledger[d]
    BY <1>2 DEF CommitmentOpened, TypeOK
  <2> QED BY <1>1, <2>1, KeptLink DEF Seen, KeyFollows, HandleFollows
<1>3. CASE d = c
  <2>1. ledger'[c].written = w /\ ledger'[c].person = resolvePersonId(w)
    BY DEF CommitmentOpened, TypeOK
  <2>2. Seen' = Seen
    BY <1>1 DEF Seen
  <2> QED BY <1>1, <1>3, <2>1, <2>2, ResolveKey, ResolveHandle DEF KeyAt, HandleAt, Linked
<1> QED BY <1>2, <1>3

LEMMA MovedLinks ==
  ASSUME TypeOK, KeyFollows, HandleFollows, NEW c \in Commitment, NEW s \in CommitmentState,
         CommitmentMoved(c, s)
  PROVE  KeyFollows' /\ HandleFollows'
<1> SUFFICES ASSUME NEW d \in Commitment PROVE KeyAt(d)' /\ HandleAt(d)'
  BY DEF KeyFollows, HandleFollows
<1>1. ledger \in [Commitment -> LedgerRow \union {Unseen}]
  BY DEF TypeOK
<1>2. ASSUME NEW r \in LedgerRow
      PROVE  /\ [r EXCEPT !.state = s].written = r.written
             /\ [r EXCEPT !.state = s].person = r.person
  BY DEF LedgerRow
<1>3. \/ ledger'[d] = ledger[d]
      \/ /\ ledger[d] # Unseen
         /\ ledger'[d].written = ledger[d].written
         /\ ledger'[d].person = ledger[d].person
  BY <1>1, <1>2 DEF CommitmentMoved
<1>4. UNCHANGED ident /\ Seen' = Seen
  BY DEF CommitmentMoved, Seen
<1> QED BY <1>3, <1>4 DEF KeyAt, HandleAt, Linked, KeyFollows, HandleFollows

\* A merge takes every commitment of p along.
LEMMA MergeLinks ==
  ASSUME TypeOK, KeyFollows, HandleFollows, NEW p \in Person, NEW q \in Person,
         PersonsMerged(p, q)
  PROVE  KeyFollows' /\ HandleFollows'
<1> SUFFICES ASSUME NEW d \in Commitment, Linked(d)' PROVE KeyAt(d)' /\ HandleAt(d)'
  BY DEF KeyFollows, HandleFollows, KeyAt, HandleAt
<1>1. ledger \in [Commitment -> LedgerRow \union {Unseen}]
  BY DEF TypeOK
<1>2. ASSUME NEW r \in LedgerRow
      PROVE  [r EXCEPT !.person = q].written = r.written /\ [r EXCEPT !.person = q].person = q
  BY DEF LedgerRow
<1>3. /\ Linked(d)
      /\ ledger'[d].written = ledger[d].written
      /\ ledger'[d].person = IF ledger[d].person = p THEN q ELSE ledger[d].person
  <2>1. p # Nobody
    BY PersonsAssumption
  <2> QED BY <1>1, <1>2, <2>1 DEF PersonsMerged, Linked
<1>4. \A k \in Seen : /\ k \in Seen'
                      /\ ident'[k].person = IF ident[k].person = p THEN q ELSE ident[k].person
  <2>1. Moves(IdentitiesOf(ident, p), p, q)
    BY MergeMoves
  <2> QED BY <2>1, MovesIdent DEF Seen, IdentitiesOf
<1> QED BY <1>3, <1>4 DEF KeyAt, HandleAt, KeyFollows, HandleFollows

\* A split takes the commitments written by the key or handle of what it moves.
LEMMA SplitLinks ==
  ASSUME TypeOK, KeyFollows, HandleFollows, NEW i \in Identity, NEW q \in Person,
         PersonSplit(i, q)
  PROVE  KeyFollows' /\ HandleFollows'
<1>1. CASE ident[i] = Unseen \/ ident[i].person = q
  <2>1. UNCHANGED <<ident, ledger>>
    BY <1>1 DEF PersonSplit, view
  <2> QED BY <2>1 DEF KeyFollows, HandleFollows, KeyAt, HandleAt, Linked, Seen
<1>2. CASE ident[i] # Unseen /\ ident[i].person # q
  <2> DEFINE p == ident[i].person
  <2> SUFFICES ASSUME NEW d \in Commitment, Linked(d)' PROVE KeyAt(d)' /\ HandleAt(d)'
    BY DEF KeyFollows, HandleFollows, KeyAt, HandleAt
  <2>1. ledger \in [Commitment -> LedgerRow \union {Unseen}]
    BY DEF TypeOK
  <2>2. ASSUME NEW r \in LedgerRow
        PROVE  [r EXCEPT !.person = q].written = r.written /\ [r EXCEPT !.person = q].person = q
    BY DEF LedgerRow
  <2>3. p \in Person /\ p # Nobody /\ Moves({i}, p, q)
    BY <1>2, SplitMoves, PersonsAssumption
  <2>4. i \in Seen /\ \A k \in Seen : /\ k \in Seen'
                                      /\ ident'[k].person = IF k = i THEN q ELSE ident[k].person
    BY <1>2, <2>3, MovesIdent DEF Seen
  <2>5. ledger' = [c \in Commitment |->
                     IF ledger[c] # Unseen /\ ledger[c].person = p /\ WrittenAs(ledger[c], i)
                     THEN [ledger[c] EXCEPT !.person = q] ELSE ledger[c]]
    BY <1>2 DEF PersonSplit
  <2> HIDE DEF p
  <2>6. /\ Linked(d)
        /\ ledger'[d].written = ledger[d].written
        /\ ledger'[d].person = IF ledger[d].person = p /\ WrittenAs(ledger[d], i)
                               THEN q ELSE ledger[d].person
    BY <2>1, <2>2, <2>3, <2>5 DEF Linked
  <2>7. HandleOf[i] \in Range(HandleOf)
    BY PersonsAssumption DEF Range
  <2>8. p = ident[i].person
    BY DEF p
  <2>9. KeyAt(d)'
    BY <2>4, <2>6, <2>7, <2>8 DEF KeyAt, WrittenAs, Key, KeyFollows, HandleFollows
  <2>10. HandleAt(d)'
    <3> SUFFICES ASSUME ledger[d].written \in Handle
                 PROVE  \E j \in Seen' : /\ HandleOf[j] = ledger'[d].written
                                         /\ ident'[j].person = ledger'[d].person
      BY <2>6 DEF HandleAt
    <3>1. PICK j \in Seen : HandleOf[j] = ledger[d].written /\ ident[j].person = ledger[d].person
      BY <2>6 DEF HandleAt, KeyFollows, HandleFollows
    <3>2. ledger[d].written # i
      BY DEF Handle
    <3>3. CASE ledger[d].person = p /\ ledger[d].written = HandleOf[i]
      BY <2>4, <2>6, <3>3 DEF WrittenAs
    <3>4. CASE ~(ledger[d].person = p /\ ledger[d].written = HandleOf[i])
      BY <2>4, <2>6, <2>8, <3>1, <3>2, <3>4 DEF WrittenAs
    <3> QED BY <3>3, <3>4
  <2> QED BY <2>9, <2>10
<1> QED BY <1>1, <1>2

LInv == CInv /\ KeyFollows /\ HandleFollows

LEMMA NextLInv ==
  ASSUME LInv, [Next]_vars
  PROVE  LInv'
<1>1. CInv /\ TypeOK /\ KeyFollows /\ HandleFollows
  BY DEF LInv, CInv
<1>2. ASSUME NEW i \in Identity, NEW n \in Name \union {Unnamed}, PersonIdentityObserved(i, n)
      PROVE  KeyFollows' /\ HandleFollows'
  <2>1. UNCHANGED ledger
    BY <1>2 DEF PersonIdentityObserved
  <2>2. \A k \in Seen : k \in Seen' /\ ident'[k].person = ident[k].person
    BY <1>1, <1>2, ObserveKeeps
  <2> QED BY <1>1, <2>1, <2>2, KeptLink DEF KeyFollows, HandleFollows
<1>3. ASSUME UNCHANGED view PROVE KeyFollows' /\ HandleFollows'
  BY <1>1, <1>3 DEF view, KeyFollows, HandleFollows, KeyAt, HandleAt, Linked, Seen
<1>4. KeyFollows' /\ HandleFollows'
  BY <1>1, <1>2, <1>3, MergeLinks, SplitLinks, OpenedLinks, MovedLinks, NextView DEF ViewStep
<1> QED BY <1>1, <1>4, NextCInv DEF LInv

LEMMA InitLInv == Init => LInv
<1> SUFFICES ASSUME Init PROVE KeyFollows /\ HandleFollows
  BY InitCInv DEF LInv
<1>1. \A c \in Commitment : ~Linked(c)
  BY DEF Init, Linked
<1> QED BY <1>1 DEF KeyFollows, HandleFollows, KeyAt, HandleAt

\* A commitment linked through a key stays with that identity under any merges, splits
\* and observations.
THEOREM KeyCorrect == Spec => []KeyFollows
<1>1. LInv => KeyFollows
  BY DEF LInv
<1> QED BY <1>1, InitLInv, NextLInv, PTL DEF Spec

\* A commitment linked through a handle stays with an identity that has the handle, so
\* never with an emptied person.
THEOREM HandleCorrect == Spec => []HandleFollows
<1>1. LInv => HandleFollows
  BY DEF LInv
<1> QED BY <1>1, InitLInv, NextLInv, PTL DEF Spec

\* A commitment stays with the identity it was linked through, by key or by handle.
THEOREM FollowCorrect == Spec => []CommitmentsFollow
BY KeyCorrect, HandleCorrect, PTL DEF CommitmentsFollow

LEMMA NextByHand ==
  ASSUME TypeOK, [Next]_vars
  PROVE  MovedByHand
<1> SUFFICES ASSUME NEW i \in Seen, ident'[i].person # ident[i].person
             PROVE  \E s \in Server :
                       /\ run[s] # Unseen /\ run'[s] = Unseen
                       /\ \/ run[s].type = "PersonsMerged" /\ run[s].from = ident[i].person
                          \/ run[s].type = "PersonSplit" /\ run[s].identity = i
  BY DEF MovedByHand
<1>1. ASSUME NEW k \in Identity, NEW n \in Name \union {Unnamed}, Observe(k, n) PROVE FALSE
  BY <1>1, ObserveKeeps DEF Observe
<1>2. ASSUME NEW s \in Server, NEW e, Decide(s, e) PROVE FALSE
  BY <1>2 DEF Decide, view
<1>3. ASSUME NEW s \in Server, Record(s)
      PROVE  /\ run[s] # Unseen /\ run'[s] = Unseen
             /\ \/ run[s].type = "PersonsMerged" /\ run[s].from = ident[i].person
                \/ run[s].type = "PersonSplit" /\ run[s].identity = i
  <2>1. run[s] \in Event /\ run[s] # Unseen /\ run'[s] = Unseen
    BY <1>3 DEF Record, TypeOK
  <2>2. CASE run[s].type = "PersonsMerged" /\ PersonsMerged(run[s].from, run[s].into)
    <3> DEFINE p == run[s].from
               q == run[s].into
    <3>1. p \in Person /\ q \in Person
      BY <2>1, <2>2, EventFields
    <3>2. Moves(IdentitiesOf(ident, p), p, q)
      BY <2>2, <3>1, MergeMoves
    <3> HIDE DEF p, q
    <3>3. i \in IdentitiesOf(ident, p)
      BY <3>1, <3>2, MovesIdent DEF Seen
    <3>4. ident[i].person = p
      BY <3>3 DEF IdentitiesOf
    <3> QED BY <2>1, <2>2, <3>4 DEF p
  <2>3. CASE run[s].type = "PersonSplit" /\ PersonSplit(run[s].identity, run[s].into)
    <3> DEFINE k == run[s].identity
               q == run[s].into
    <3>1. k \in Identity /\ q \in Person
      BY <2>1, <2>3, EventFields
    <3>2. ident[k] # Unseen /\ ident[k].person # q
      BY <2>3 DEF PersonSplit, view
    <3>3. ident[k].person \in Person /\ Moves({k}, ident[k].person, q)
      BY <2>3, <3>1, <3>2, SplitMoves
    <3> HIDE DEF k, q
    <3>4. i = k
      BY <3>1, <3>3, MovesIdent DEF Seen
    <3> QED BY <2>1, <2>3, <3>4 DEF k
  <2>4. CASE run[s].type = "CommitmentOpened" /\ CommitmentOpened(run[s].id, run[s].written)
    BY <2>4 DEF CommitmentOpened
  <2>5. CASE run[s].type = "CommitmentMoved" /\ CommitmentMoved(run[s].id, run[s].to)
    BY <2>5 DEF CommitmentMoved
  <2> QED BY <1>3, <2>2, <2>3, <2>4, <2>5 DEF Record
<1>4. CASE UNCHANGED vars
  BY <1>4 DEF vars, view
<1> QED BY <1>1, <1>2, <1>3, <1>4
        DEF Next, personMerge, personSplit, proposeApply, commitmentTransition

\* No observation, opening or transition, by any number of servers, takes a known
\* identity from its person: only the merge or split that names it does.
THEOREM OnlyHumansMoveCorrect == Spec => OnlyHumansMove
<1>1. TypeOK /\ [Next]_vars => [MovedByHand]_vars
  BY NextByHand
<1> QED BY <1>1, TypeCorrect, PTL DEF Spec, OnlyHumansMove

-----------------------------------------------------------------------------
\* SyncAll.


Outcomes == {"ok", "failed", "skipped"}

(* The accounts of a connector are a grid: n accounts, of account i w[i]      *)
(* units, of unit j of it d[i][j] pages.                                      *)
Grid(n, w, d) == \A i \in 1 .. n : /\ w[i] \in Nat
                                   /\ \A j \in 1 .. w[i] : d[i][j] \in Nat \ {0}
IsWhole(read, d, i, j) == \A k \in 1 .. d[i][j] : <<i, j, k>> \in read

\* Where in the grid a pass is that reads.
PlaceOK(acct, unit, page, bad, n, w, d) ==
  /\ acct \in 1 .. n + 1
  /\ unit = 0 => bad = 0 /\ page = 1
  /\ acct = n + 1 => unit = 0
  /\ (acct <= n /\ unit # 0) =>
       /\ unit <= w[acct] + 1 /\ bad < unit /\ page >= 1
       /\ unit <= w[acct] => page <= d[acct][unit]

\* What it has read is of the grid, and lies behind it.
ReadOK(read, acct, unit, page, n, w, d) ==
  \A i, j, k \in Nat : <<i, j, k>> \in read =>
    /\ i \in 1 .. n /\ j \in 1 .. w[i] /\ k \in 1 .. d[i][j]
    /\ i <= acct
    /\ i = acct => j <= unit
    /\ (i = acct /\ j = unit) => k < page

\* What it counts of the units it has left,
UnitsOK(unit, bad, acct, read, d) ==
  /\ bad = 0 => \A j \in 1 .. unit - 1 : IsWhole(read, d, acct, j)
  /\ bad > 0 => \E j \in 1 .. unit - 1 : ~IsWhole(read, d, acct, j)
  /\ bad = unit - 1 => \A j \in 1 .. unit - 1 : ~IsWhole(read, d, acct, j)
  /\ bad < unit - 1 => \E j \in 1 .. unit - 1 : IsWhole(read, d, acct, j)

\* and has read of the one it is in.
CountOK(acct, unit, page, bad, read, kind, n, w, d) ==
  (acct <= n /\ unit # 0) =>
    /\ kind \in {"web", "local"} => bad = 0
    /\ kind # "local" =>
         /\ unit <= w[acct] => \A k \in 1 .. page - 1 : <<acct, unit, k>> \in read
         /\ UnitsOK(unit, bad, acct, read, d)

\* What it says of the accounts it has left.
LeftOK(i, outcome, partial, read, kind, w, d) ==
  /\ outcome # "ok" => \A j \in 1 .. w[i] : ~IsWhole(read, d, i, j)
  /\ (kind # "local" /\ outcome = "ok") =>
       /\ w[i] > 0 => \E j \in 1 .. w[i] : IsWhole(read, d, i, j)
       /\ ~partial => \A j \in 1 .. w[i] : IsWhole(read, d, i, j)
PartialOK(acct, outcomes, read, kind, w, d) ==
  /\ kind \notin {"web", "local"}
  /\ \E i \in 1 .. acct - 1 :
       outcomes[i] = "ok" /\ \E j \in 1 .. w[i] : ~IsWhole(read, d, i, j)
OutcomesOK(acct, partial, outcomes, read, kind, w, d) ==
  /\ Len(outcomes) = acct - 1
  /\ \A i \in 1 .. acct - 1 : LeftOK(i, outcomes[i], partial, read, kind, w, d)
  /\ partial => PartialOK(acct, outcomes, read, kind, w, d)

-----------------------------------------------------------------------------
\* A page of another unit changes nothing for this one.
LEMMA WholeElsewhere ==
  ASSUME NEW d, NEW read, NEW a, NEW u, NEW k, NEW i, NEW j, i # a \/ j # u
  PROVE  IsWhole(read \union {<<a, u, k>>}, d, i, j) <=> IsWhole(read, d, i, j)
BY DEF IsWhole

\* What a pass has not come to is not read.
LEMMA NotYet ==
  ASSUME NEW n \in Nat, NEW w, NEW d, Grid(n, w, d), NEW acct \in 1 .. n, NEW unit \in Nat, NEW page \in Nat,
         NEW read, ReadOK(read, acct, unit, page, n, w, d), page >= 1,
         (unit # 0 /\ unit <= w[acct]) => page <= d[acct][unit],
         NEW j \in 1 .. w[acct], j >= unit
  PROVE  ~IsWhole(read, d, acct, j)
<1>1. n \in Nat /\ w[acct] \in Nat /\ d[acct][j] \in Nat \ {0}
  BY DEF Grid
<1>2. CASE j = unit
  <2>1. page \in 1 .. d[acct][j]
    BY <1>1, <1>2
  <2>2. <<acct, j, page>> \notin read
    BY <1>1, <1>2 DEF ReadOK
  <2> QED  BY <2>1, <2>2 DEF IsWhole
<1>3. CASE j > unit
  <2>1. 1 \in 1 .. d[acct][j]
    BY <1>1
  <2>2. <<acct, j, 1>> \notin read
    BY <1>1, <1>3 DEF ReadOK
  <2> QED  BY <2>1, <2>2 DEF IsWhole
<1> QED  BY <1>1, <1>2, <1>3

\* A pass leaves an account.
Leaving(acct, unit, page, partial, outcomes, read, outcome, partialTo, after, kind, n, w, d) ==
  /\ n \in Nat /\ Grid(n, w, d) /\ acct \in 1 .. n /\ unit \in Nat /\ page \in Nat
  /\ partial \in BOOLEAN /\ partialTo \in BOOLEAN /\ (partial => partialTo)
  /\ outcomes \in Seq(Outcomes) /\ outcome \in Outcomes /\ after = Append(outcomes, outcome)
  /\ ReadOK(read, acct, unit, page, n, w, d)
  /\ OutcomesOK(acct, partial, outcomes, read, kind, w, d)
  /\ LeftOK(acct, outcome, partialTo, read, kind, w, d)
  /\ (partialTo /\ ~partial) => PartialOK(acct + 1, after, read, kind, w, d)
LeftBehind(acct, partialTo, after, read, kind, n, w, d) ==
  /\ PlaceOK(acct + 1, 0, 1, 0, n, w, d) /\ ReadOK(read, acct + 1, 0, 1, n, w, d)
  /\ CountOK(acct + 1, 0, 1, 0, read, kind, n, w, d)
  /\ OutcomesOK(acct + 1, partialTo, after, read, kind, w, d)

LEMMA Leaves ==
  ASSUME NEW acct, NEW unit, NEW page, NEW partial, NEW outcomes, NEW read, NEW outcome,
         NEW partialTo, NEW after, NEW kind, NEW n, NEW w, NEW d,
         Leaving(acct, unit, page, partial, outcomes, read, outcome, partialTo, after, kind, n, w, d)
  PROVE  LeftBehind(acct, partialTo, after, read, kind, n, w, d)
<1> n \in Nat /\ Grid(n, w, d) /\ acct \in 1 .. n /\ unit \in Nat /\ page \in Nat
    /\ partial \in BOOLEAN /\ partialTo \in BOOLEAN /\ outcomes \in Seq(Outcomes)
    /\ outcome \in Outcomes /\ after = Append(outcomes, outcome)
  BY DEF Leaving
<1>0. /\ ReadOK(read, acct, unit, page, n, w, d) /\ (partial => partialTo)
      /\ OutcomesOK(acct, partial, outcomes, read, kind, w, d)
      /\ LeftOK(acct, outcome, partialTo, read, kind, w, d)
      /\ (partialTo /\ ~partial) => PartialOK(acct + 1, after, read, kind, w, d)
  BY DEF Leaving
<1>1. w[acct] \in Nat
  BY DEF Grid
<1>2. PlaceOK(acct + 1, 0, 1, 0, n, w, d)
  BY <1>1 DEF PlaceOK
<1>3. ReadOK(read, acct + 1, 0, 1, n, w, d)
  BY <1>0, <1>1 DEF ReadOK
<1>4. CountOK(acct + 1, 0, 1, 0, read, kind, n, w, d)
  BY DEF CountOK
<1>5. /\ Len(after) = acct /\ after[acct] = outcome
      /\ \A i \in 1 .. acct - 1 : after[i] = outcomes[i]
  BY <1>0, <1>1 DEF OutcomesOK
<1>6. ASSUME NEW i \in 1 .. acct
      PROVE  LeftOK(i, after[i], partialTo, read, kind, w, d)
  <2>1. CASE i = acct
    BY <2>1, <1>0, <1>5
  <2>2. CASE i \in 1 .. acct - 1
    <3>1. LeftOK(i, outcomes[i], partial, read, kind, w, d) /\ after[i] = outcomes[i]
      BY <2>2, <1>0, <1>5 DEF OutcomesOK
    <3>2. LeftOK(i, after[i], partial, read, kind, w, d)
      BY ONLY <3>1
    <3>3. CASE partialTo
      BY <3>2, <3>3 DEF LeftOK
    <3>4. CASE ~partialTo
      BY <3>2, <3>4, <1>0
    <3> QED  BY <3>3, <3>4
  <2>3. acct \in Nat
    OBVIOUS
  <2>4. i = acct \/ i \in 1 .. acct - 1
    BY ONLY <2>3, i \in 1 .. acct
  <2> QED  BY <2>1, <2>2, <2>4
<1>7. ASSUME partial PROVE PartialOK(acct + 1, after, read, kind, w, d)
  <2>1. PartialOK(acct, outcomes, read, kind, w, d)
    BY <1>0, <1>7 DEF OutcomesOK
  <2>2. PICK i \in 1 .. acct - 1 :
          outcomes[i] = "ok" /\ \E j \in 1 .. w[i] : ~IsWhole(read, d, i, j)
    BY <2>1 DEF PartialOK
  <2>3. i \in 1 .. (acct + 1) - 1 /\ after[i] = "ok"
    BY <2>2, <1>1, <1>5
  <2> QED  BY <2>1, <2>2, <2>3 DEF PartialOK
<1>8. Len(after) = (acct + 1) - 1 /\ \A i \in 1 .. (acct + 1) - 1 : i \in 1 .. acct
  BY <1>1, <1>5
<1>9. OutcomesOK(acct + 1, partialTo, after, read, kind, w, d)
  BY <1>0, <1>6, <1>7, <1>8 DEF OutcomesOK
<1> QED  BY <1>2, <1>3, <1>4, <1>9 DEF LeftBehind

\* An account it did not enter.
LEMMA LeftUnread ==
  ASSUME NEW n \in Nat, NEW w, NEW d, Grid(n, w, d), NEW kind, NEW acct \in 1 .. n,
         NEW read, ReadOK(read, acct, 0, 1, n, w, d), NEW partial, NEW outcome, outcome # "ok"
  PROVE  LeftOK(acct, outcome, partial, read, kind, w, d)
<1>1. w[acct] \in Nat
  BY DEF Grid
<1>2. ASSUME NEW j \in 1 .. w[acct] PROVE ~IsWhole(read, d, acct, j)
  BY <1>1, NotYet
<1> QED  BY <1>2 DEF LeftOK

\* An account it has gone through.
GoneThrough(acct, unit, page, bad, read, partial, outcomes, outcome, partialTo, after, kind, n, w, d) ==
  /\ n \in Nat /\ Grid(n, w, d) /\ acct \in 1 .. n /\ unit \in Nat /\ page \in Nat /\ bad \in Nat
  /\ partial \in BOOLEAN /\ Len(outcomes) = acct - 1 /\ unit = w[acct] + 1
  /\ PlaceOK(acct, unit, page, bad, n, w, d)
  /\ CountOK(acct, unit, page, bad, read, kind, n, w, d)
  /\ outcome = (IF w[acct] > 0 /\ bad = w[acct] THEN "failed" ELSE "ok")
  /\ partialTo \in BOOLEAN /\ (partialTo <=> (partial \/ (outcome = "ok" /\ bad > 0)))
  /\ after[acct] = outcome
LEMMA LeftRead ==
  ASSUME NEW acct, NEW unit, NEW page, NEW bad, NEW read, NEW partial, NEW outcomes, NEW outcome,
         NEW partialTo, NEW after, NEW kind, NEW n, NEW w, NEW d,
         GoneThrough(acct, unit, page, bad, read, partial, outcomes, outcome, partialTo, after, kind, n, w, d)
  PROVE  /\ LeftOK(acct, outcome, partialTo, read, kind, w, d)
         /\ (partialTo /\ ~partial) => PartialOK(acct + 1, after, read, kind, w, d)
<1> n \in Nat /\ Grid(n, w, d) /\ acct \in 1 .. n /\ unit \in Nat /\ page \in Nat /\ bad \in Nat
    /\ partial \in BOOLEAN /\ Len(outcomes) = acct - 1 /\ unit = w[acct] + 1
    /\ PlaceOK(acct, unit, page, bad, n, w, d)
    /\ CountOK(acct, unit, page, bad, read, kind, n, w, d)
    /\ outcome = (IF w[acct] > 0 /\ bad = w[acct] THEN "failed" ELSE "ok")
    /\ partialTo \in BOOLEAN /\ (partialTo <=> (partial \/ (outcome = "ok" /\ bad > 0)))
    /\ after[acct] = outcome
  BY DEF GoneThrough
<1>0. w[acct] \in Nat /\ acct <= n
  BY DEF Grid
<1>1. w[acct] \in Nat /\ unit # 0 /\ acct <= n /\ unit - 1 = w[acct]
  BY <1>0
<1>2. /\ bad < unit /\ (kind \in {"web", "local"} => bad = 0)
      /\ kind # "local" =>
           /\ bad = 0 => \A j \in 1 .. w[acct] : IsWhole(read, d, acct, j)
           /\ bad > 0 => \E j \in 1 .. w[acct] : ~IsWhole(read, d, acct, j)
           /\ bad = w[acct] => \A j \in 1 .. w[acct] : ~IsWhole(read, d, acct, j)
           /\ bad < w[acct] => \E j \in 1 .. w[acct] : IsWhole(read, d, acct, j)
  BY <1>1 DEF PlaceOK, CountOK, UnitsOK
<1>3. LeftOK(acct, outcome, partialTo, read, kind, w, d)
  <2>1. CASE outcome = "failed"
    BY <2>1, <1>1, <1>2 DEF LeftOK
  <2>2. CASE outcome = "ok"
    BY <2>2, <1>1, <1>2 DEF LeftOK
  <2> QED  BY <2>1, <2>2
<1>4. ASSUME partialTo, ~partial PROVE PartialOK(acct + 1, after, read, kind, w, d)
  <2>1. acct \in 1 .. (acct + 1) - 1
    OBVIOUS
  <2>2. kind \notin {"web", "local"} /\ after[acct] = "ok"
        /\ \E j \in 1 .. w[acct] : ~IsWhole(read, d, acct, j)
    BY <1>2, <1>4
  <2> QED  BY <2>1, <2>2 DEF PartialOK
<1> QED  BY <1>3, <1>4

\* A pass goes on to the next page, or to the next unit.
GoesOn(unit, page, unitTo, pageTo, depth) ==
  \/ unitTo = unit + 1 /\ pageTo = 1
  \/ unitTo = unit /\ pageTo = page + 1 /\ page < depth

LEMMA GoesOnOK ==
  ASSUME NEW n \in Nat, NEW w, NEW d, Grid(n, w, d), NEW acct \in 1 .. n,
         NEW unit \in 1 .. w[acct], NEW page \in Nat, NEW bad \in Nat, NEW read,
         PlaceOK(acct, unit, page, bad, n, w, d), ReadOK(read, acct, unit, page, n, w, d),
         NEW unitTo \in Nat, NEW pageTo \in Nat, NEW badTo \in Nat,
         GoesOn(unit, page, unitTo, pageTo, d[acct][unit]), badTo < unitTo
  PROVE  /\ PlaceOK(acct, unitTo, pageTo, badTo, n, w, d)
         /\ ReadOK(read, acct, unitTo, pageTo, n, w, d)
<1>1. w[acct] \in Nat /\ d[acct][unit] \in Nat \ {0}
      /\ \A j \in 1 .. w[acct] : d[acct][j] \in Nat \ {0}
  BY DEF Grid
<1>2. page >= 1
  BY <1>1 DEF PlaceOK
<1>3. CASE unitTo = unit + 1 /\ pageTo = 1
  <2>1. PlaceOK(acct, unitTo, pageTo, badTo, n, w, d)
    BY <1>1, <1>2, <1>3 DEF PlaceOK
  <2>2. ReadOK(read, acct, unitTo, pageTo, n, w, d)
    BY <1>1, <1>2, <1>3 DEF ReadOK
  <2> QED  BY <2>1, <2>2
<1>4. CASE unitTo = unit /\ pageTo = page + 1 /\ page < d[acct][unit]
  BY <1>1, <1>2, <1>4 DEF PlaceOK, ReadOK
<1> QED  BY <1>3, <1>4 DEF GoesOn

\* The page it goes on from may have been read.
LEMMA FetchedOK ==
  ASSUME NEW n \in Nat, NEW w, NEW d, Grid(n, w, d), NEW acct \in 1 .. n,
         NEW unit \in 1 .. w[acct], NEW page \in Nat, NEW bad \in Nat, NEW read,
         PlaceOK(acct, unit, page, bad, n, w, d),
         NEW unitTo \in Nat, NEW pageTo \in Nat,
         GoesOn(unit, page, unitTo, pageTo, d[acct][unit]),
         ReadOK(read, acct, unitTo, pageTo, n, w, d)
  PROVE  ReadOK(read \union {<<acct, unit, page>>}, acct, unitTo, pageTo, n, w, d)
<1>1. w[acct] \in Nat /\ d[acct][unit] \in Nat
  BY DEF Grid
<1>2. page \in 1 .. d[acct][unit] /\ (unitTo = unit => page < pageTo) /\ unit <= unitTo
  BY <1>1 DEF PlaceOK, GoesOn
<1> QED  BY <1>2 DEF ReadOK

LEMMA UnitRead ==
  ASSUME NEW unit \in Nat \ {0}, NEW bad \in Nat, bad < unit, NEW acct, NEW read, NEW d,
         UnitsOK(unit, bad, acct, read, d), IsWhole(read, d, acct, unit)
  PROVE  UnitsOK(unit + 1, bad, acct, read, d)
<1>1. \A j \in 1 .. (unit + 1) - 1 : j \in 1 .. unit - 1 \/ j = unit
  OBVIOUS
<1>2. unit \in 1 .. (unit + 1) - 1 /\ \A j \in 1 .. unit - 1 : j \in 1 .. (unit + 1) - 1
  OBVIOUS
<1> QED  BY <1>1, <1>2 DEF UnitsOK

LEMMA UnitLost ==
  ASSUME NEW unit \in Nat \ {0}, NEW bad \in Nat, bad < unit, NEW acct, NEW read, NEW d,
         UnitsOK(unit, bad, acct, read, d), ~IsWhole(read, d, acct, unit)
  PROVE  UnitsOK(unit + 1, bad + 1, acct, read, d)
<1>1. \A j \in 1 .. (unit + 1) - 1 : j \in 1 .. unit - 1 \/ j = unit
  OBVIOUS
<1>2. unit \in 1 .. (unit + 1) - 1 /\ \A j \in 1 .. unit - 1 : j \in 1 .. (unit + 1) - 1
  OBVIOUS
<1> QED  BY <1>1, <1>2 DEF UnitsOK

\* What a pass counts once it has read a page,
LEMMA CountRead ==
  ASSUME NEW n \in Nat, NEW w, NEW d, Grid(n, w, d), NEW acct \in 1 .. n,
         NEW unit \in 1 .. w[acct], NEW page \in Nat, NEW bad \in Nat, NEW read, NEW kind,
         PlaceOK(acct, unit, page, bad, n, w, d),
         CountOK(acct, unit, page, bad, read, kind, n, w, d),
         NEW unitTo \in Nat, NEW pageTo \in Nat,
         IF page < d[acct][unit] THEN unitTo = unit /\ pageTo = page + 1
         ELSE unitTo = unit + 1 /\ pageTo = 1
  PROVE  CountOK(acct, unitTo, pageTo, bad, read \union {<<acct, unit, page>>}, kind, n, w, d)
<1> DEFINE more == read \union {<<acct, unit, page>>}
<1>1. w[acct] \in Nat /\ d[acct][unit] \in Nat \ {0} /\ acct <= n
  BY DEF Grid
<1>2. page \in 1 .. d[acct][unit] /\ unit # 0 /\ bad < unit
  BY <1>1 DEF PlaceOK
<1>3. /\ kind \in {"web", "local"} => bad = 0
      /\ kind # "local" => /\ \A k \in 1 .. page - 1 : <<acct, unit, k>> \in read
                           /\ UnitsOK(unit, bad, acct, read, d)
  BY <1>1, <1>2 DEF CountOK
<1>4. ASSUME kind # "local"
      PROVE  /\ unitTo <= w[acct] => \A k \in 1 .. pageTo - 1 : <<acct, unitTo, k>> \in more
             /\ UnitsOK(unitTo, bad, acct, more, d)
  <2>1. \A j \in 1 .. unit - 1 : IsWhole(more, d, acct, j) <=> IsWhole(read, d, acct, j)
    <3> TAKE j \in 1 .. unit - 1
    <3>1. j # unit
      BY <1>1
    <3> QED  BY <3>1, WholeElsewhere
  <2>2. UnitsOK(unit, bad, acct, more, d)
    BY <1>3, <1>4, <2>1 DEF UnitsOK
  <2>3. \A k \in 1 .. page : <<acct, unit, k>> \in more
    <3> TAKE k \in 1 .. page
    <3>1. k \in 1 .. page - 1 \/ k = page
      OBVIOUS
    <3> QED  BY <3>1, <1>3, <1>4
  <2>4. CASE page < d[acct][unit]
    <3>1. unitTo = unit /\ pageTo - 1 = page
      BY <2>4
    <3> QED  BY <2>2, <2>3, <3>1
  <2>5. CASE ~(page < d[acct][unit])
    <3>1. unitTo = unit + 1 /\ pageTo = 1 /\ page = d[acct][unit]
      BY <1>1, <1>2, <2>5
    <3>2. IsWhole(more, d, acct, unit)
      BY <2>3, <3>1 DEF IsWhole
    <3>3. UnitsOK(unit + 1, bad, acct, more, d)
      BY <1>2, <2>2, <3>2, UnitRead
    <3> QED  BY <3>1, <3>3
  <2> QED  BY <2>4, <2>5
<1> QED  BY <1>3, <1>4 DEF CountOK

\* or lost a unit;
LEMMA CountLost ==
  ASSUME NEW n \in Nat, NEW w, NEW d, Grid(n, w, d), NEW acct \in 1 .. n,
         NEW unit \in 1 .. w[acct], NEW page \in Nat, NEW bad \in Nat, NEW read, NEW kind,
         PlaceOK(acct, unit, page, bad, n, w, d), ReadOK(read, acct, unit, page, n, w, d),
         CountOK(acct, unit, page, bad, read, kind, n, w, d), kind \notin {"web", "local"}
  PROVE  CountOK(acct, unit + 1, 1, bad + 1, read, kind, n, w, d)
<1>1. w[acct] \in Nat /\ d[acct][unit] \in Nat \ {0} /\ acct <= n
  BY DEF Grid
<1>2. page \in 1 .. d[acct][unit] /\ unit # 0 /\ bad < unit
  BY <1>1 DEF PlaceOK
<1>3. UnitsOK(unit, bad, acct, read, d)
  BY <1>1, <1>2 DEF CountOK
<1>4. ~IsWhole(read, d, acct, unit)
  BY <1>1, <1>2, NotYet
<1>5. UnitsOK(unit + 1, bad + 1, acct, read, d)
  BY <1>2, <1>3, <1>4, UnitLost
<1> QED  BY <1>5 DEF CountOK

\* of a file system it counts nothing.
LEMMA CountLocal ==
  ASSUME NEW acct, NEW unit, NEW page, NEW read, NEW n, NEW w, NEW d
  PROVE  CountOK(acct, unit, page, 0, read, "local", n, w, d)
BY DEF CountOK

\* The accounts it has left stay as they are.
LEMMA LeftKept ==
  ASSUME NEW acct, acct \in Nat, NEW unit, NEW page, NEW read, NEW partial, NEW outcomes, NEW kind, NEW w, NEW d,
         OutcomesOK(acct, partial, outcomes, read, kind, w, d)
  PROVE  OutcomesOK(acct, partial, outcomes, read \union {<<acct, unit, page>>}, kind, w, d)
<1> DEFINE more == read \union {<<acct, unit, page>>}
<1>1. \A i \in 1 .. acct - 1 : \A j : IsWhole(more, d, i, j) <=> IsWhole(read, d, i, j)
  <2> TAKE i \in 1 .. acct - 1
  <2>1. i # acct
    OBVIOUS
  <2> QED  BY <2>1, WholeElsewhere
<1> HIDE DEF more
<1>2. ASSUME NEW i \in 1 .. acct - 1
      PROVE  LeftOK(i, outcomes[i], partial, more, kind, w, d)
  <2>1. LeftOK(i, outcomes[i], partial, read, kind, w, d)
    BY DEF OutcomesOK
  <2> QED  BY <1>1, <2>1 DEF LeftOK
<1>3. partial => PartialOK(acct, outcomes, more, kind, w, d)
  BY <1>1 DEF OutcomesOK, PartialOK
<1>4. OutcomesOK(acct, partial, outcomes, more, kind, w, d)
  BY <1>2, <1>3 DEF OutcomesOK
<1> QED  BY <1>4 DEF more

-----------------------------------------------------------------------------
(* A pass as the record it is kept in.                                        *)
Passes(names) ==
  [name : names, index : Nat, stage : {"load", "scan"}, acct : Nat, unit : Nat, page : Nat,
   bad : Nat, partial : BOOLEAN, outcomes : Seq(Outcomes), read : SUBSET (Nat \X Nat \X Nat)]

PassOK(P, kind, n, w, d) ==
  /\ PlaceOK(P.acct, P.unit, P.page, P.bad, n, w, d)
  /\ ReadOK(P.read, P.acct, P.unit, P.page, n, w, d)
  /\ CountOK(P.acct, P.unit, P.page, P.bad, P.read, kind, n, w, d)
  /\ OutcomesOK(P.acct, P.partial, P.outcomes, P.read, kind, w, d)
  /\ P.stage = "load" => P.acct = 1 /\ P.unit = 0 /\ P.outcomes = <<>> /\ ~P.partial /\ P.read = {}

\* The same pass, further on.
Onward(P, Q) == Q.name = P.name /\ Q.index = P.index /\ Q.stage = P.stage
Sound(Q, P, names, kind, n, w, d) == Q \in Passes(names) /\ Onward(P, Q) /\ PassOK(Q, kind, n, w, d)

SoundAt(Q, P, read, names, kind, n, w, d) == Sound(Q, P, names, kind, n, w, d) /\ Q.read = read

LEMMA Fields ==
  ASSUME NEW names, NEW P \in Passes(names)
  PROVE  /\ P.acct \in Nat /\ P.unit \in Nat /\ P.page \in Nat /\ P.bad \in Nat
         /\ P.partial \in BOOLEAN /\ P.outcomes \in Seq(Outcomes)
         /\ P.read \subseteq Nat \X Nat \X Nat
         /\ P.name \in names /\ P.index \in Nat /\ P.stage \in {"load", "scan"}
BY DEF Passes

LEMMA BegunOK ==
  ASSUME NEW names, NEW P \in Passes(names), NEW kind, NEW n, NEW w, NEW d, PassOK(P, kind, n, w, d),
         NEW Q, Q = [P EXCEPT !.stage = "scan"]
  PROVE  /\ Q \in Passes(names) /\ Q.name = P.name /\ Q.index = P.index /\ Q.read = P.read
         /\ PassOK(Q, kind, n, w, d)
<1>1. Q \in Passes(names) /\ Q.name = P.name /\ Q.index = P.index /\ Q.read = P.read
  BY DEF Passes
<1>2. /\ Q.acct = P.acct /\ Q.unit = P.unit /\ Q.page = P.page /\ Q.bad = P.bad
      /\ Q.partial = P.partial /\ Q.outcomes = P.outcomes /\ Q.stage = "scan"
  BY DEF Passes
<1> QED  BY <1>1, <1>2 DEF PassOK

LEMMA NextAccountFields ==
  ASSUME NEW names, NEW P \in Passes(names), NEW outcome \in Outcomes,
         NEW after, after = Append(P.outcomes, outcome)
  PROVE  LET Q == NextAccount(P, outcome) IN
           /\ Q \in Passes(names) /\ Onward(P, Q) /\ Q.read = P.read /\ Q.partial = P.partial
           /\ Q.acct = P.acct + 1 /\ Q.unit = 0 /\ Q.page = 1 /\ Q.bad = 0 /\ Q.outcomes = after
<1>1. after \in Seq(Outcomes)
  BY Fields
<1>2. NextAccount(P, outcome) =
        [P EXCEPT !.acct = P.acct + 1, !.unit = 0, !.page = 1, !.bad = 0, !.outcomes = after]
  BY DEF NextAccount
<1> DEFINE Q == NextAccount(P, outcome)
<1>3. /\ Q.name = P.name /\ Q.index = P.index /\ Q.stage = P.stage /\ Q.read = P.read
      /\ Q.partial = P.partial /\ Q.acct = P.acct + 1 /\ Q.unit = 0 /\ Q.page = 1 /\ Q.bad = 0
      /\ Q.outcomes = after
  BY <1>2 DEF Passes
<1>4. P.acct + 1 \in Nat
  BY Fields
<1>5. Q \in Passes(names)
  <2>1. PICK R : R = [P EXCEPT !.acct = P.acct + 1, !.unit = 0, !.page = 1, !.bad = 0]
    OBVIOUS
  <2>2. R \in Passes(names)
    BY <1>4, <2>1 DEF Passes
  <2>3. Q = [R EXCEPT !.outcomes = after]
    BY <1>2, <2>1
  <2> QED  BY <1>1, <2>2, <2>3 DEF Passes
<1> QED  BY <1>3, <1>5 DEF Onward

LeavesWith(P, Q, outcome, partialTo, after, kind, n, w, d) ==
  /\ Q = [NextAccount(P, outcome) EXCEPT !.partial = partialTo]
  /\ n \in Nat /\ Grid(n, w, d) /\ PassOK(P, kind, n, w, d) /\ P.stage = "scan" /\ P.acct \in 1 .. n
  /\ outcome \in Outcomes /\ partialTo \in BOOLEAN /\ (P.partial => partialTo)
  /\ after = Append(P.outcomes, outcome)
  /\ LeftOK(P.acct, outcome, partialTo, P.read, kind, w, d)
  /\ (partialTo /\ ~P.partial) => PartialOK(P.acct + 1, after, P.read, kind, w, d)

LEMMA LeavesOK ==
  ASSUME NEW names, NEW P \in Passes(names), NEW outcome, NEW partialTo, NEW after, NEW kind,
         NEW n, NEW w, NEW d, NEW Q, LeavesWith(P, Q, outcome, partialTo, after, kind, n, w, d)
  PROVE  Sound(Q, P, names, kind, n, w, d) /\ Q.read = P.read
<1> /\ Q = [NextAccount(P, outcome) EXCEPT !.partial = partialTo]
    /\ n \in Nat /\ Grid(n, w, d) /\ PassOK(P, kind, n, w, d) /\ P.stage = "scan" /\ P.acct \in 1 .. n
    /\ outcome \in Outcomes /\ partialTo \in BOOLEAN /\ (P.partial => partialTo)
    /\ after = Append(P.outcomes, outcome)
    /\ LeftOK(P.acct, outcome, partialTo, P.read, kind, w, d)
    /\ (partialTo /\ ~P.partial) => PartialOK(P.acct + 1, after, P.read, kind, w, d)
  BY DEF LeavesWith
<1>1. PICK acct, unit, page, partial, outcomes, read :
        /\ acct = P.acct /\ unit = P.unit /\ page = P.page /\ partial = P.partial
        /\ outcomes = P.outcomes /\ read = P.read
  OBVIOUS
<1>2. /\ acct \in 1 .. n /\ unit \in Nat /\ page \in Nat /\ partial \in BOOLEAN
      /\ outcomes \in Seq(Outcomes) /\ after = Append(outcomes, outcome) /\ (partial => partialTo)
  BY <1>1, Fields
<1>3. ReadOK(read, acct, unit, page, n, w, d) /\ OutcomesOK(acct, partial, outcomes, read, kind, w, d)
  BY <1>1 DEF PassOK
<1>4. /\ LeftOK(acct, outcome, partialTo, read, kind, w, d)
      /\ (partialTo /\ ~partial) => PartialOK(acct + 1, after, read, kind, w, d)
  BY <1>1
<1>5. Leaving(acct, unit, page, partial, outcomes, read, outcome, partialTo, after, kind, n, w, d)
  BY <1>2, <1>3, <1>4 DEF Leaving
<1>5a. LeftBehind(acct, partialTo, after, read, kind, n, w, d)
  BY ONLY <1>5, Leaves
<1>6. PICK R : R = NextAccount(P, outcome)
  OBVIOUS
<1>7. /\ R \in Passes(names) /\ Onward(P, R) /\ R.read = read
      /\ R.acct = acct + 1 /\ R.unit = 0 /\ R.page = 1 /\ R.bad = 0 /\ R.outcomes = after
  BY <1>1, <1>6, NextAccountFields
<1>8. Q = [R EXCEPT !.partial = partialTo]
  BY <1>6
<1>9. /\ Q \in Passes(names) /\ Onward(P, Q) /\ Q.read = read
      /\ Q.acct = acct + 1 /\ Q.unit = 0 /\ Q.page = 1 /\ Q.bad = 0
      /\ Q.partial = partialTo /\ Q.outcomes = after
  BY <1>7, <1>8 DEF Passes, Onward
<1>10. Q.stage = "scan"
  BY <1>9 DEF Onward
<1>11. PassOK(Q, kind, n, w, d)
  BY <1>5a, <1>9, <1>10 DEF PassOK, LeftBehind
<1> QED  BY <1>1, <1>9, <1>11 DEF Sound

LEMMA EntersOK ==
  ASSUME NEW names, NEW P \in Passes(names), NEW kind, NEW n \in Nat, NEW w, NEW d, Grid(n, w, d),
         PassOK(P, kind, n, w, d), P.stage = "scan", P.acct \in 1 .. n, P.unit = 0,
         NEW Q, Q = [P EXCEPT !.unit = 1]
  PROVE  Sound(Q, P, names, kind, n, w, d) /\ Q.read = P.read
<1>1. PICK acct, page, bad, partial, outcomes, read :
        /\ acct = P.acct /\ page = P.page /\ partial = P.partial /\ bad = P.bad
        /\ outcomes = P.outcomes /\ read = P.read
  OBVIOUS
<1>2. acct \in 1 .. n /\ w[acct] \in Nat /\ (w[acct] > 0 => d[acct][1] \in Nat \ {0})
  BY <1>1 DEF Grid
<1>3. PlaceOK(acct, 0, page, bad, n, w, d) /\ ReadOK(read, acct, 0, page, n, w, d)
      /\ OutcomesOK(acct, partial, outcomes, read, kind, w, d)
  BY <1>1 DEF PassOK
<1>4. page = 1 /\ bad = 0
  BY <1>3 DEF PlaceOK
<1>5. PlaceOK(acct, 1, page, bad, n, w, d)
  BY <1>2, <1>4 DEF PlaceOK
<1>6. ReadOK(read, acct, 1, page, n, w, d)
  BY <1>3, <1>4 DEF ReadOK
<1>7. CountOK(acct, 1, page, bad, read, kind, n, w, d)
  BY <1>4 DEF CountOK, UnitsOK
<1>8. /\ Q \in Passes(names) /\ Onward(P, Q) /\ Q.read = read /\ Q.stage = "scan"
      /\ Q.acct = acct /\ Q.unit = 1 /\ Q.page = page /\ Q.bad = bad
      /\ Q.partial = partial /\ Q.outcomes = outcomes
  BY <1>1 DEF Passes, Onward
<1>9. PassOK(Q, kind, n, w, d)
  BY <1>3, <1>5, <1>6, <1>7, <1>8 DEF PassOK
<1> QED  BY <1>1, <1>8, <1>9 DEF Sound

\* An account the pass skips, or fails before its first request.
LEMMA PassesBy ==
  ASSUME NEW names, NEW P \in Passes(names), NEW kind, NEW n \in Nat, NEW w, NEW d, Grid(n, w, d),
         PassOK(P, kind, n, w, d), P.stage = "scan", P.acct \in 1 .. n, P.unit = 0,
         NEW outcome \in {"skipped", "failed"}, NEW Q, Q = NextAccount(P, outcome)
  PROVE  Sound(Q, P, names, kind, n, w, d) /\ Q.read = P.read
<1>1. PICK acct, read, partial, after :
        acct = P.acct /\ read = P.read /\ partial = P.partial /\ after = Append(P.outcomes, outcome)
  OBVIOUS
<1>2. ReadOK(read, acct, 0, 1, n, w, d) /\ acct \in 1 .. n /\ partial \in BOOLEAN
      /\ outcome # "ok" /\ outcome \in Outcomes
  BY <1>1, Fields DEF PassOK, PlaceOK, Outcomes
<1>3. LeftOK(acct, outcome, partial, read, kind, w, d)
  BY <1>2, LeftUnread
<1>4. Q \in Passes(names) /\ Q.partial = partial
  BY <1>1, <1>2, NextAccountFields
<1>5. Q = [NextAccount(P, outcome) EXCEPT !.partial = partial]
  BY <1>4 DEF Passes
<1>6. LeavesWith(P, Q, outcome, partial, after, kind, n, w, d)
  BY <1>1, <1>2, <1>3, <1>5 DEF LeavesWith
<1> QED  BY ONLY P \in Passes(names), <1>6, LeavesOK

\* An account it has gone through.
LEMMA GoesThrough ==
  ASSUME NEW names, NEW P \in Passes(names), NEW kind, NEW n \in Nat, NEW w, NEW d, Grid(n, w, d),
         PassOK(P, kind, n, w, d), P.stage = "scan", P.acct \in 1 .. n, P.unit = w[P.acct] + 1,
         NEW outcome, outcome = AccountOutcome(P, w[P.acct]),
         NEW Q, Q = [NextAccount(P, outcome) EXCEPT !.partial = @ \/ (outcome = "ok" /\ P.bad > 0)]
  PROVE  SoundAt(Q, P, P.read, names, kind, n, w, d)
<1>1. PICK acct, unit, page, bad, partial, outcomes, read, after :
        /\ acct = P.acct /\ unit = P.unit /\ page = P.page /\ partial = P.partial /\ bad = P.bad
        /\ outcomes = P.outcomes /\ read = P.read /\ after = Append(outcomes, outcome)
  OBVIOUS
<1>2. /\ acct \in 1 .. n /\ unit \in Nat /\ page \in Nat /\ bad \in Nat /\ partial \in BOOLEAN
      /\ outcomes \in Seq(Outcomes) /\ unit = w[acct] + 1
  BY <1>1, Fields
<1>3. /\ PlaceOK(acct, unit, page, bad, n, w, d) /\ CountOK(acct, unit, page, bad, read, kind, n, w, d)
      /\ Len(outcomes) = acct - 1
  BY <1>1 DEF PassOK, OutcomesOK
<1>4. outcome = (IF w[acct] > 0 /\ bad = w[acct] THEN "failed" ELSE "ok") /\ outcome \in Outcomes
  BY <1>1 DEF AccountOutcome, Outcomes
<1>5. PICK partialTo : partialTo = (partial \/ (outcome = "ok" /\ bad > 0))
  OBVIOUS
<1>6. partialTo \in BOOLEAN /\ (partialTo <=> (partial \/ (outcome = "ok" /\ bad > 0)))
      /\ (partial => partialTo)
  BY <1>2, <1>5
<1>7. after[acct] = outcome
  BY <1>1, <1>2, <1>3
<1>8. /\ LeftOK(acct, outcome, partialTo, read, kind, w, d)
      /\ (partialTo /\ ~partial) => PartialOK(acct + 1, after, read, kind, w, d)
  <2>1. GoneThrough(acct, unit, page, bad, read, partial, outcomes, outcome, partialTo, after, kind, n, w, d)
    BY <1>2, <1>3, <1>4, <1>6, <1>7 DEF GoneThrough
  <2> QED  BY ONLY <2>1, LeftRead
<1>9. PICK R : R = NextAccount(P, outcome)
  OBVIOUS
<1>10. R \in Passes(names) /\ R.partial = partial
  BY <1>1, <1>4, <1>9, NextAccountFields
<1>11. Q = [NextAccount(P, outcome) EXCEPT !.partial = partialTo]
  BY <1>1, <1>5, <1>9, <1>10
<1>12. LeavesWith(P, Q, outcome, partialTo, after, kind, n, w, d)
  BY <1>1, <1>4, <1>6, <1>8, <1>11 DEF LeavesWith
<1>13. Sound(Q, P, names, kind, n, w, d) /\ Q.read = P.read
  BY ONLY P \in Passes(names), <1>12, LeavesOK
<1> QED  BY <1>13 DEF SoundAt

\* A pass that goes on in its account: where to, and what it counts and has read then.
GoesOnWith(P, Q, kind, n, w, d) ==
  /\ n \in Nat /\ Grid(n, w, d) /\ PassOK(P, kind, n, w, d) /\ P.stage = "scan"
  /\ P.acct \in 1 .. n /\ P.unit \in 1 .. w[P.acct]
  /\ GoesOn(P.unit, P.page, Q.unit, Q.page, d[P.acct][P.unit])
  /\ Q.acct = P.acct /\ Q.partial = P.partial /\ Q.outcomes = P.outcomes /\ Onward(P, Q)
  /\ Q.bad \in Nat /\ Q.bad < Q.unit
  /\ CountOK(Q.acct, Q.unit, Q.page, Q.bad, Q.read, kind, n, w, d)
  /\ Q.read \in {P.read, P.read \union {<<P.acct, P.unit, P.page>>}}

LEMMA GoesOnInPass ==
  ASSUME NEW names, NEW P \in Passes(names), NEW Q \in Passes(names), NEW kind, NEW n, NEW w, NEW d,
         GoesOnWith(P, Q, kind, n, w, d)
  PROVE  Sound(Q, P, names, kind, n, w, d)
<1> /\ n \in Nat /\ Grid(n, w, d) /\ PassOK(P, kind, n, w, d) /\ P.stage = "scan"
    /\ P.acct \in 1 .. n /\ P.unit \in 1 .. w[P.acct]
    /\ GoesOn(P.unit, P.page, Q.unit, Q.page, d[P.acct][P.unit])
    /\ Q.acct = P.acct /\ Q.partial = P.partial /\ Q.outcomes = P.outcomes /\ Onward(P, Q)
    /\ Q.bad \in Nat /\ Q.bad < Q.unit
    /\ CountOK(Q.acct, Q.unit, Q.page, Q.bad, Q.read, kind, n, w, d)
    /\ Q.read \in {P.read, P.read \union {<<P.acct, P.unit, P.page>>}}
  BY DEF GoesOnWith
<1>1. PICK acct, unit, page, bad, partial, outcomes, read, unitTo, pageTo, badTo, readTo :
        /\ acct = P.acct /\ unit = P.unit /\ page = P.page /\ partial = P.partial /\ bad = P.bad
        /\ outcomes = P.outcomes /\ read = P.read
        /\ unitTo = Q.unit /\ pageTo = Q.page /\ badTo = Q.bad /\ readTo = Q.read
  OBVIOUS
<1>2. /\ acct \in 1 .. n /\ unit \in 1 .. w[acct] /\ page \in Nat /\ bad \in Nat
      /\ unitTo \in Nat /\ pageTo \in Nat /\ badTo \in Nat /\ badTo < unitTo
  BY <1>1, Fields
<1>3. GoesOn(unit, page, unitTo, pageTo, d[acct][unit])
  BY <1>1
<1>4. PlaceOK(acct, unit, page, bad, n, w, d) /\ ReadOK(read, acct, unit, page, n, w, d)
      /\ OutcomesOK(acct, partial, outcomes, read, kind, w, d)
  BY <1>1 DEF PassOK
<1>5. PlaceOK(acct, unitTo, pageTo, badTo, n, w, d) /\ ReadOK(read, acct, unitTo, pageTo, n, w, d)
  BY <1>2, <1>3, <1>4, GoesOnOK
<1>6. ReadOK(readTo, acct, unitTo, pageTo, n, w, d)
  <2>1. CASE readTo = read
    BY <2>1, <1>5
  <2>2. CASE readTo = read \union {<<acct, unit, page>>}
    BY <2>2, <1>2, <1>3, <1>4, <1>5, FetchedOK
  <2> QED  BY <2>1, <2>2, <1>1
<1>7. OutcomesOK(acct, partial, outcomes, readTo, kind, w, d)
  <2>1. CASE readTo = read
    BY <2>1, <1>4
  <2>2. CASE readTo = read \union {<<acct, unit, page>>}
    <3>1. acct \in Nat
      BY <1>2
    <3> QED  BY ONLY <3>1, <2>2, <1>4, LeftKept
  <2> QED  BY <2>1, <2>2, <1>1
<1>8. CountOK(acct, unitTo, pageTo, badTo, readTo, kind, n, w, d)
  BY <1>1
<1>9. Q.stage = "scan"
  BY DEF Onward
<1>10. PassOK(Q, kind, n, w, d)
  BY <1>1, <1>5, <1>6, <1>7, <1>8, <1>9 DEF PassOK
<1> QED  BY <1>10 DEF Sound

LEMMA NextPageFields ==
  ASSUME NEW names, NEW P \in Passes(names), NEW pages \in Nat
  PROVE  LET Q == NextPage(P, pages) IN
           /\ Q \in Passes(names) /\ Onward(P, Q) /\ Q.read = P.read /\ Q.partial = P.partial
           /\ Q.acct = P.acct /\ Q.bad = P.bad /\ Q.outcomes = P.outcomes
           /\ IF P.page < pages THEN Q.unit = P.unit /\ Q.page = P.page + 1
              ELSE Q.unit = P.unit + 1 /\ Q.page = 1
<1>1. P.page + 1 \in Nat /\ P.unit + 1 \in Nat
  BY Fields
<1>2. CASE P.page < pages
  <2>1. NextPage(P, pages) = [P EXCEPT !.page = P.page + 1]
    BY <1>2 DEF NextPage
  <2> QED  BY <1>1, <1>2, <2>1 DEF Passes, Onward
<1>3. CASE ~(P.page < pages)
  <2>1. PICK Q : Q = NextPage(P, pages)
    OBVIOUS
  <2>2. Q = [P EXCEPT !.unit = P.unit + 1, !.page = 1]
    BY <1>3, <2>1 DEF NextPage
  <2>3. Q \in Passes(names)
    BY <1>1, <2>2 DEF Passes
  <2>4. /\ Q.name = P.name /\ Q.index = P.index /\ Q.stage = P.stage /\ Q.read = P.read
        /\ Q.partial = P.partial /\ Q.acct = P.acct /\ Q.bad = P.bad /\ Q.outcomes = P.outcomes
        /\ Q.unit = P.unit + 1 /\ Q.page = 1
    BY <2>2 DEF Passes
  <2> QED  BY <1>3, <2>1, <2>3, <2>4 DEF Onward
<1> QED  BY <1>2, <1>3

\* Where a pass is that reads a unit.
InUnit(P, kind, n, w, d) ==
  /\ n \in Nat /\ Grid(n, w, d) /\ PassOK(P, kind, n, w, d) /\ P.stage = "scan"
  /\ P.acct \in 1 .. n /\ P.unit \in 1 .. w[P.acct]

LEMMA InUnitFacts ==
  ASSUME NEW names, NEW P \in Passes(names), NEW kind, NEW n, NEW w, NEW d, InUnit(P, kind, n, w, d)
  PROVE  /\ w[P.acct] \in Nat /\ d[P.acct][P.unit] \in Nat \ {0}
         /\ P.page \in 1 .. d[P.acct][P.unit] /\ P.bad < P.unit
         /\ kind \in {"web", "local"} => P.bad = 0
<1>1. P.acct \in 1 .. n /\ P.unit \in 1 .. w[P.acct] /\ n \in Nat
  BY DEF InUnit
<1>2. w[P.acct] \in Nat /\ d[P.acct][P.unit] \in Nat \ {0}
  BY <1>1 DEF InUnit, Grid
<1>3. PlaceOK(P.acct, P.unit, P.page, P.bad, n, w, d)
      /\ CountOK(P.acct, P.unit, P.page, P.bad, P.read, kind, n, w, d)
  BY DEF InUnit, PassOK
<1>4. P.page \in Nat /\ P.bad \in Nat /\ P.unit # 0 /\ P.acct <= n /\ P.unit <= w[P.acct]
  BY <1>1, <1>2, Fields
<1>5. P.page \in 1 .. d[P.acct][P.unit] /\ P.bad < P.unit
  BY <1>2, <1>3, <1>4 DEF PlaceOK
<1> QED  BY <1>2, <1>3, <1>4, <1>5 DEF CountOK

LEMMA FetchesOK ==
  ASSUME NEW names, NEW P \in Passes(names), NEW kind, NEW n, NEW w, NEW d, InUnit(P, kind, n, w, d),
         NEW R, R = NextPage(P, d[P.acct][P.unit]),
         NEW Q, Q = [R EXCEPT !.read = R.read \union {<<P.acct, P.unit, P.page>>}]
  PROVE  SoundAt(Q, P, P.read \union {<<P.acct, P.unit, P.page>>}, names, kind, n, w, d)
<1>1. PICK depth : depth = d[P.acct][P.unit]
  OBVIOUS
<1>2. depth \in Nat /\ P.bad < P.unit
  BY <1>1, InUnitFacts
<1>3. /\ R \in Passes(names) /\ Onward(P, R) /\ R.read = P.read /\ R.partial = P.partial
      /\ R.acct = P.acct /\ R.bad = P.bad /\ R.outcomes = P.outcomes
      /\ IF P.page < depth THEN R.unit = P.unit /\ R.page = P.page + 1
         ELSE R.unit = P.unit + 1 /\ R.page = 1
  BY <1>1, <1>2, NextPageFields
<1>4. P.acct \in Nat /\ P.unit \in Nat /\ P.page \in Nat /\ P.bad \in Nat
      /\ P.read \in SUBSET (Nat \X Nat \X Nat)
  BY Fields
<1>5. R.read \union {<<P.acct, P.unit, P.page>>} \in SUBSET (Nat \X Nat \X Nat)
  BY <1>3, <1>4
<1>6. Q \in Passes(names)
  BY <1>3, <1>5 DEF Passes
<1>7. /\ Onward(P, Q) /\ Q.read = P.read \union {<<P.acct, P.unit, P.page>>} /\ Q.partial = P.partial
      /\ Q.acct = P.acct /\ Q.bad = P.bad /\ Q.outcomes = P.outcomes /\ Q.unit = R.unit /\ Q.page = R.page
  BY <1>3 DEF Passes, Onward
<1>8. PICK acct, unit, page, bad, read, unitTo, pageTo :
        /\ acct = P.acct /\ unit = P.unit /\ page = P.page /\ bad = P.bad /\ read = P.read
        /\ unitTo = R.unit /\ pageTo = R.page
  OBVIOUS
<1>9. /\ n \in Nat /\ Grid(n, w, d) /\ acct \in 1 .. n /\ unit \in 1 .. w[acct] /\ page \in Nat
      /\ bad \in Nat /\ PlaceOK(acct, unit, page, bad, n, w, d)
      /\ CountOK(acct, unit, page, bad, read, kind, n, w, d) /\ unitTo \in Nat /\ pageTo \in Nat
      /\ IF page < d[acct][unit] THEN unitTo = unit /\ pageTo = page + 1
         ELSE unitTo = unit + 1 /\ pageTo = 1
  <2>1. /\ n \in Nat /\ Grid(n, w, d) /\ acct \in 1 .. n /\ unit \in 1 .. w[acct]
        /\ PlaceOK(acct, unit, page, bad, n, w, d)
        /\ CountOK(acct, unit, page, bad, read, kind, n, w, d)
    BY <1>8 DEF InUnit, PassOK
  <2>2. page \in Nat /\ bad \in Nat /\ unitTo \in Nat /\ pageTo \in Nat
    BY <1>3, <1>4, <1>8, Fields
  <2>3. IF page < d[acct][unit] THEN unitTo = unit /\ pageTo = page + 1
        ELSE unitTo = unit + 1 /\ pageTo = 1
    BY <1>1, <1>3, <1>8
  <2> QED  BY <2>1, <2>2, <2>3
<1>10. CountOK(acct, unitTo, pageTo, bad, read \union {<<acct, unit, page>>}, kind, n, w, d)
  BY ONLY <1>9, CountRead
<1>11. GoesOn(unit, page, unitTo, pageTo, d[acct][unit]) /\ bad < unitTo
  BY <1>2, <1>8, <1>9 DEF GoesOn
<1>12. GoesOnWith(P, Q, kind, n, w, d)
  BY <1>7, <1>8, <1>9, <1>10, <1>11 DEF GoesOnWith, InUnit
<1>13. Sound(Q, P, names, kind, n, w, d)
  BY <1>6, <1>12, GoesOnInPass
<1> QED  BY <1>7, <1>13 DEF SoundAt

LEMMA FailsOK ==
  ASSUME NEW names, NEW P \in Passes(names), NEW kind, NEW n, NEW w, NEW d, InUnit(P, kind, n, w, d),
         kind \notin {"web", "local"}, NEW Q, Q = FailedUnit(P)
  PROVE  Sound(Q, P, names, kind, n, w, d) /\ Q.read = P.read
<1>1. P.bad < P.unit
  BY InUnitFacts
<1>2. P.acct \in Nat /\ P.unit \in Nat /\ P.page \in Nat /\ P.bad \in Nat
      /\ P.unit + 1 \in Nat /\ P.bad + 1 \in Nat
  BY Fields
<1>3. Q = [P EXCEPT !.unit = P.unit + 1, !.page = 1, !.bad = P.bad + 1]
  BY DEF FailedUnit
<1>4. Q \in Passes(names)
  <2>1. PICK R : R = [P EXCEPT !.unit = P.unit + 1, !.page = 1]
    OBVIOUS
  <2>2. R \in Passes(names)
    BY <1>2, <2>1 DEF Passes
  <2>3. Q = [R EXCEPT !.bad = P.bad + 1]
    BY <1>3, <2>1
  <2> QED  BY <1>2, <2>2, <2>3 DEF Passes
<1>5. /\ Q.name = P.name /\ Q.index = P.index /\ Q.stage = P.stage /\ Q.read = P.read
      /\ Q.partial = P.partial /\ Q.acct = P.acct /\ Q.outcomes = P.outcomes
      /\ Q.unit = P.unit + 1 /\ Q.page = 1 /\ Q.bad = P.bad + 1
  BY <1>3 DEF Passes
<1>6. PICK acct, unit, page, bad, read :
        acct = P.acct /\ unit = P.unit /\ page = P.page /\ bad = P.bad /\ read = P.read
  OBVIOUS
<1>7. /\ n \in Nat /\ Grid(n, w, d) /\ acct \in 1 .. n /\ unit \in 1 .. w[acct]
      /\ PlaceOK(acct, unit, page, bad, n, w, d) /\ ReadOK(read, acct, unit, page, n, w, d)
      /\ CountOK(acct, unit, page, bad, read, kind, n, w, d)
  BY <1>6 DEF InUnit, PassOK
<1>8. page \in Nat /\ bad \in Nat
  BY <1>2, <1>6
<1>9. CountOK(acct, unit + 1, 1, bad + 1, read, kind, n, w, d)
  BY <1>7, <1>8, CountLost
<1>10. GoesOnWith(P, Q, kind, n, w, d)
  BY <1>1, <1>2, <1>5, <1>6, <1>9 DEF GoesOnWith, InUnit, GoesOn, Onward
<1> QED  BY <1>4, <1>5, <1>10, GoesOnInPass

\* The walk of a file system, behind what it cannot read.
LEMMA WalksOnOK ==
  ASSUME NEW names, NEW P \in Passes(names), NEW n, NEW w, NEW d, InUnit(P, "local", n, w, d),
         NEW Q \in Passes(names), Onward(P, Q), Q.read = P.read, Q.partial = P.partial,
         Q.acct = P.acct, Q.bad = P.bad, Q.outcomes = P.outcomes,
         GoesOn(P.unit, P.page, Q.unit, Q.page, d[P.acct][P.unit])
  PROVE  Sound(Q, P, names, "local", n, w, d) /\ Q.read = P.read
<1>1. P.bad = 0
  BY InUnitFacts
<1>2. CountOK(Q.acct, Q.unit, Q.page, Q.bad, Q.read, "local", n, w, d)
  BY <1>1, CountLocal
<1>3. P.acct \in Nat /\ P.unit \in Nat /\ P.unit >= 1
  <2>1. w[P.acct] \in Nat /\ P.unit \in 1 .. w[P.acct]
    BY InUnitFacts DEF InUnit
  <2> QED  BY <2>1, Fields
<1>4. Q.bad \in Nat /\ Q.bad < Q.unit
  BY <1>1, <1>3 DEF GoesOn
<1>5. GoesOnWith(P, Q, "local", n, w, d)
  BY <1>2, <1>4 DEF GoesOnWith, InUnit
<1> QED  BY <1>5, GoesOnInPass

LEMMA WalksPastEntry ==
  ASSUME NEW names, NEW P \in Passes(names), NEW n, NEW w, NEW d, InUnit(P, "local", n, w, d),
         NEW Q, Q = NextPage(P, d[P.acct][P.unit])
  PROVE  Sound(Q, P, names, "local", n, w, d) /\ Q.read = P.read
<1>1. PICK depth : depth = d[P.acct][P.unit]
  OBVIOUS
<1>2. depth \in Nat
  BY <1>1, InUnitFacts
<1>3. /\ Q \in Passes(names) /\ Onward(P, Q) /\ Q.read = P.read /\ Q.partial = P.partial
      /\ Q.acct = P.acct /\ Q.bad = P.bad /\ Q.outcomes = P.outcomes
      /\ IF P.page < depth THEN Q.unit = P.unit /\ Q.page = P.page + 1
         ELSE Q.unit = P.unit + 1 /\ Q.page = 1
  BY <1>1, <1>2, NextPageFields
<1>4. GoesOn(P.unit, P.page, Q.unit, Q.page, d[P.acct][P.unit])
  BY <1>1, <1>3 DEF GoesOn
<1> QED  BY <1>3, <1>4, WalksOnOK

LEMMA WalksPastRoot ==
  ASSUME NEW names, NEW P \in Passes(names), NEW n, NEW w, NEW d, InUnit(P, "local", n, w, d),
         P.page = 1, NEW Q, Q = [P EXCEPT !.unit = P.unit + 1]
  PROVE  Sound(Q, P, names, "local", n, w, d) /\ Q.read = P.read
<1>1. P.unit + 1 \in Nat
  BY Fields
<1>2. Q \in Passes(names)
  BY <1>1 DEF Passes
<1>3. /\ Onward(P, Q) /\ Q.read = P.read /\ Q.partial = P.partial
      /\ Q.acct = P.acct /\ Q.bad = P.bad /\ Q.outcomes = P.outcomes
      /\ Q.unit = P.unit + 1 /\ Q.page = 1
  BY DEF Passes, Onward
<1>4. GoesOn(P.unit, P.page, Q.unit, Q.page, d[P.acct][P.unit])
  BY <1>3 DEF GoesOn
<1> QED  BY <1>2, <1>3, <1>4, WalksOnOK

\* A new pass has read nothing.
LEMMA NewPassOK ==
  ASSUME NEW names, NEW name \in names, NEW index \in Nat, NEW kind, NEW n \in Nat, NEW w, NEW d,
         NEW Q, Q = NewPass(name, index)
  PROVE  Q \in Passes(names) /\ PassOK(Q, kind, n, w, d) /\ Q.read = {} /\ Q.name = name /\ Q.index = index
<1>1. Q \in Passes(names)
  BY DEF NewPass, Passes
<1>2. /\ Q.name = name /\ Q.index = index /\ Q.stage = "load" /\ Q.acct = 1 /\ Q.unit = 0 /\ Q.page = 1
      /\ Q.bad = 0 /\ Q.partial = FALSE /\ Q.outcomes = <<>> /\ Q.read = {}
  BY DEF NewPass
<1>3. PlaceOK(1, 0, 1, 0, n, w, d)
  BY DEF PlaceOK
<1>4. ReadOK({}, 1, 0, 1, n, w, d)
  BY DEF ReadOK
<1>5. CountOK(1, 0, 1, 0, {}, kind, n, w, d)
  BY DEF CountOK
<1>6. OutcomesOK(1, FALSE, <<>>, {}, kind, w, d)
  BY DEF OutcomesOK
<1> QED  BY <1>1, <1>2, <1>3, <1>4, <1>5, <1>6 DEF PassOK

-----------------------------------------------------------------------------
(* What a pass says in the end.                                               *)
AllRead(read, n, w, d) == \A i \in 1 .. n : \A j \in 1 .. w[i] : IsWhole(read, d, i, j)
NoneRead(read, n, w, d) == \A i \in 1 .. n : \A j \in 1 .. w[i] : ~IsWhole(read, d, i, j)
NoUnits(n, w) == \E i \in 1 .. n : w[i] = 0

\* The end of a pass over all accounts.
Ended(P, kind, n, w, d) ==
  /\ n \in Nat /\ Grid(n, w, d) /\ PassOK(P, kind, n, w, d) /\ P.acct = n + 1
  /\ (kind = "local" => n <= 1)

LEMMA EndedFacts ==
  ASSUME NEW names, NEW P \in Passes(names), NEW kind, NEW n, NEW w, NEW d, Ended(P, kind, n, w, d)
  PROVE  /\ n \in Nat /\ Len(P.outcomes) = n /\ DOMAIN P.outcomes = 1 .. n
         /\ \A i \in 1 .. n : w[i] \in Nat /\ P.outcomes[i] \in Outcomes
         /\ \A i \in 1 .. n : LeftOK(i, P.outcomes[i], P.partial, P.read, kind, w, d)
         /\ P.partial => PartialOK(n + 1, P.outcomes, P.read, kind, w, d)
<1>1. n \in Nat /\ Grid(n, w, d) /\ P.acct = n + 1
      /\ OutcomesOK(P.acct, P.partial, P.outcomes, P.read, kind, w, d)
  BY DEF Ended, PassOK
<1>2. P.outcomes \in Seq(Outcomes)
  BY Fields
<1>3. P.acct - 1 = n
  BY <1>1
<1>4. Len(P.outcomes) = n
  BY <1>1, <1>3 DEF OutcomesOK
<1>5. DOMAIN P.outcomes = 1 .. n /\ \A i \in 1 .. n : P.outcomes[i] \in Outcomes
  BY <1>1, <1>2, <1>4
<1>6. \A i \in 1 .. n : LeftOK(i, P.outcomes[i], P.partial, P.read, kind, w, d)
  BY <1>1, <1>3 DEF OutcomesOK
<1>7. P.partial => PartialOK(n + 1, P.outcomes, P.read, kind, w, d)
  BY <1>1 DEF OutcomesOK
<1> QED  BY <1>1, <1>4, <1>5, <1>6, <1>7 DEF Grid

LEMMA EndedWell ==
  ASSUME NEW names, NEW P \in Passes(names), NEW kind, NEW n, NEW w, NEW d, Ended(P, kind, n, w, d),
         ~Degraded(P), kind # "local"
  PROVE  AllRead(P.read, n, w, d)
<1>1. ASSUME NEW i \in 1 .. n, NEW j \in 1 .. w[i] PROVE IsWhole(P.read, d, i, j)
  <2>1. P.outcomes[i] = "ok" /\ ~P.partial
    BY EndedFacts DEF Degraded, Range
  <2>2. LeftOK(i, P.outcomes[i], P.partial, P.read, kind, w, d)
    BY EndedFacts
  <2> QED  BY <2>1, <2>2 DEF LeftOK
<1> QED  BY <1>1 DEF AllRead

LEMMA EndedLost ==
  ASSUME NEW names, NEW P \in Passes(names), NEW kind, NEW n, NEW w, NEW d, Ended(P, kind, n, w, d),
         AllLost(P.outcomes)
  PROVE  NoneRead(P.read, n, w, d)
<1>1. ASSUME NEW i \in 1 .. n, NEW j \in 1 .. w[i] PROVE ~IsWhole(P.read, d, i, j)
  <2>1. P.outcomes[i] # "ok"
    BY EndedFacts DEF AllLost, Range
  <2>2. LeftOK(i, P.outcomes[i], P.partial, P.read, kind, w, d)
    BY EndedFacts
  <2> QED  BY <2>1, <2>2 DEF LeftOK
<1> QED  BY <1>1 DEF NoneRead

LEMMA EndedDegraded ==
  ASSUME NEW names, NEW P \in Passes(names), NEW kind, NEW n, NEW w, NEW d, Ended(P, kind, n, w, d),
         Degraded(P), ~AllLost(P.outcomes), ~NoUnits(n, w)
  PROVE  ~AllRead(P.read, n, w, d) /\ ~NoneRead(P.read, n, w, d)
<1>0. \A i \in 1 .. n : w[i] \in Nat /\ w[i] > 0
  BY EndedFacts DEF NoUnits
<1>1. CASE P.partial
  <2>1. PICK i \in 1 .. n :
          P.outcomes[i] = "ok" /\ \E j \in 1 .. w[i] : ~IsWhole(P.read, d, i, j)
    <3>1. n \in Nat /\ (n + 1) - 1 = n
      BY EndedFacts
    <3> QED  BY <1>1, <3>1, EndedFacts DEF PartialOK
  <2>2. LeftOK(i, P.outcomes[i], P.partial, P.read, kind, w, d)
    BY EndedFacts
  <2>3. kind # "local"
    BY <1>1, EndedFacts DEF PartialOK
  <2>4. \E j \in 1 .. w[i] : IsWhole(P.read, d, i, j)
    BY <1>0, <2>1, <2>2, <2>3 DEF LeftOK
  <2> QED  BY <2>1, <2>4 DEF AllRead, NoneRead
<1>2. CASE ~P.partial
  <2>1. PICK o \in 1 .. n : P.outcomes[o] # "ok"
    BY <1>2, EndedFacts DEF Degraded, Range
  <2>2. LeftOK(o, P.outcomes[o], P.partial, P.read, kind, w, d) /\ 1 \in 1 .. w[o]
    BY <1>0, EndedFacts
  <2>3. ~IsWhole(P.read, d, o, 1)
    BY <2>1, <2>2 DEF LeftOK
  <2>4. P.outcomes # <<>>
    BY <2>1, EndedFacts
  <2>5. PICK i \in 1 .. n : P.outcomes[i] = "ok"
    BY <2>4, EndedFacts DEF AllLost, Range
  <2>6. kind # "local"
    <3>1. o # i /\ n \in Nat
      BY <2>1, <2>5, EndedFacts
    <3> QED  BY <3>1 DEF Ended
  <2>7. LeftOK(i, P.outcomes[i], P.partial, P.read, kind, w, d)
    BY EndedFacts
  <2>8. \E j \in 1 .. w[i] : IsWhole(P.read, d, i, j)
    BY <1>0, <2>5, <2>6, <2>7 DEF LeftOK
  <2> QED  BY <2>2, <2>3, <2>8 DEF AllRead, NoneRead
<1> QED  BY <1>1, <1>2

\* A pass that read nothing, and one that comes upon a url it cannot read.
LEMMA NothingRead ==
  ASSUME NEW n, NEW w, NEW d, Grid(n, w, d)
  PROVE  NoneRead({}, n, w, d)
<1>1. ASSUME NEW i \in 1 .. n, NEW j \in 1 .. w[i] PROVE ~IsWhole({}, d, i, j)
  <2>1. d[i][j] \in Nat \ {0}
    BY DEF Grid
  <2>2. 1 \in 1 .. d[i][j]
    BY <2>1
  <2> QED  BY <2>2 DEF IsWhole
<1> QED  BY <1>1 DEF NoneRead

LEMMA LostAtUnit ==
  ASSUME NEW names, NEW P \in Passes(names), NEW kind, NEW n, NEW w, NEW d, InUnit(P, kind, n, w, d)
  PROVE  ~AllRead(P.read, n, w, d)
<1>1. PICK acct, unit, page, read :
        acct = P.acct /\ unit = P.unit /\ page = P.page /\ read = P.read
  OBVIOUS
<1>2. /\ n \in Nat /\ Grid(n, w, d) /\ acct \in 1 .. n /\ unit \in 1 .. w[acct]
      /\ ReadOK(read, acct, unit, page, n, w, d)
  BY <1>1 DEF InUnit, PassOK
<1>3. unit \in Nat /\ page \in Nat /\ page >= 1 /\ page <= d[acct][unit]
  <2>1. d[acct][unit] \in Nat /\ page \in 1 .. d[acct][unit]
    BY <1>1, InUnitFacts
  <2> QED  BY <1>1, <2>1, Fields
<1>4. ~IsWhole(read, d, acct, unit)
  BY <1>2, <1>3, NotYet
<1> QED  BY <1>1, <1>2, <1>4 DEF AllRead

-----------------------------------------------------------------------------
(* The state.  The accounts of a connector as a grid.                         *)
WidthOf(as) == [i \in 1 .. Len(as) |-> Len(as[i].units)]
DepthOf(as) == [i \in 1 .. Len(as) |->
                  [j \in 1 .. Len(as[i].units) |-> Len(Items(as[i].units[j]))]]

Built ==
  /\ setup \in Range(Scenarios)
  /\ accounts = [n \in Names |-> ActiveAccounts(Kind(n), setup.accounts[n])]

PassAt(P, s, as) ==
  PassOK(P, s.kind[P.name], Len(as[P.name]), WidthOf(as[P.name]), DepthOf(as[P.name]))

Entries(names) ==
  [name : names, ok : BOOLEAN, thrown : BOOLEAN, read : SUBSET (Nat \X Nat \X Nat)]
Told(e, kind, n, w, d) ==
  /\ (kind # "local" /\ e.ok) => AllRead(e.read, n, w, d)
  /\ (~e.ok /\ ~e.thrown) =>
       NoUnits(n, w) \/ (~AllRead(e.read, n, w, d) /\ ~NoneRead(e.read, n, w, d))
  /\ e.thrown => NoneRead(e.read, n, w, d) \/ (kind = "web" /\ ~AllRead(e.read, n, w, d))
EntryAt(e, s, as) ==
  Told(e, s.kind[e.name], Len(as[e.name]), WidthOf(as[e.name]), DepthOf(as[e.name]))

Jobs == [phase : {"idle", "running"}, names : Seq(Names), asked : Nat, pool : Nat,
         failFast : BOOLEAN, next : Nat]
JobOK == job \in Jobs /\ job.next \in 1 .. Len(job.names) + 1

ProcsOK ==
  /\ proc \in [Procs -> Passes(Names) \union {Idle}]
  /\ \A p \in Procs : Busy(p) => PassAt(proc[p], setup, accounts)
  /\ \A p \in Procs : Busy(p) /\ proc[p].read # {} => Authorised(proc[p].name)

EntriesOK ==
  /\ DOMAIN slots = 1 .. Len(job.names)
  /\ slots \in [DOMAIN slots -> Entries(Names) \union {Empty}]
  /\ manual \in Entries(Names) \union {Empty}
  /\ \A i \in DOMAIN slots : slots[i] # Empty => EntryAt(slots[i], setup, accounts)
  /\ manual # Empty => EntryAt(manual, setup, accounts)

Pooled ==
  /\ \A v \in Workers : Busy(v) =>
       /\ job.phase = "running" /\ v <= job.pool
       /\ proc[v].index \in 1 .. job.next - 1 /\ proc[v].name = job.names[proc[v].index]
  /\ \A v, u \in Workers : Busy(v) /\ Busy(u) /\ v # u => proc[v].index # proc[u].index
  /\ \A i \in DOMAIN slots : slots[i] # Empty =>
       /\ slots[i].name = job.names[i] /\ i < job.next
       /\ \A v \in Workers : Busy(v) => proc[v].index # i

Freshened ==
  /\ syncRuns \in [Names -> [status : {"absent", "running", "ok", "partial", "error"},
                             ended : BOOLEAN, age : 0 .. AgeLimit]]
  /\ good \in [Names -> 0 .. NeverRan]
  /\ \A n \in Names : syncRuns[n].ended /\ syncRuns[n].status # "error" => good[n] <= syncRuns[n].age

SyncInv == Built /\ JobOK /\ ProcsOK /\ EntriesOK /\ Pooled /\ launches \in 0 .. MaxLaunches

-----------------------------------------------------------------------------
LEMMA BuiltAccounts ==
  ASSUME Built
  PROVE  /\ setup \in Range(Scenarios) /\ ScenarioOK(setup)
         /\ \A n \in Names : AccountsOK(Kind(n), accounts[n])
         /\ \A request \in setup.requests : Selected(setup, request) \in Seq(Names)
<1>1. ScenarioOK(setup) /\ ResolvedOK(setup)
  BY SyncAssumption DEF Built, Range
<1>2. \A n \in Names : accounts[n] = ActiveAccounts(Kind(n), setup.accounts[n])
  BY DEF Built
<1>3. \A n \in Names : AccountsOK(Kind(n), accounts[n])
  BY <1>1, <1>2 DEF ResolvedOK, Names, Kind
<1> QED  BY <1>1, <1>3 DEF Built, ResolvedOK, Names

\* What a grid says of the accounts it is made of.
GridOf(kind, as) ==
  /\ Len(as) \in Nat /\ DOMAIN as = 1 .. Len(as)
  /\ \A i \in 1 .. Len(as) :
       /\ WidthOf(as)[i] = Len(as[i].units) /\ WidthOf(as)[i] \in Nat
       /\ DOMAIN as[i].units = 1 .. WidthOf(as)[i]
       /\ \A j \in 1 .. WidthOf(as)[i] :
            /\ DepthOf(as)[i][j] = Len(Items(as[i].units[j]))
            /\ DepthOf(as)[i][j] \in Nat \ {0}
            /\ DOMAIN Items(as[i].units[j]) = 1 .. DepthOf(as)[i][j]
  /\ Grid(Len(as), WidthOf(as), DepthOf(as))
  /\ kind = "local" => Len(as) <= 1

LEMMA AccountsGrid ==
  ASSUME NEW kind, NEW as, AccountsOK(kind, as)
  PROVE  GridOf(kind, as)
<1>1. Len(as) \in Nat /\ DOMAIN as = 1 .. Len(as)
  BY DEF AccountsOK, IsSequence
<1>2. ASSUME NEW i \in 1 .. Len(as)
      PROVE  /\ WidthOf(as)[i] = Len(as[i].units) /\ WidthOf(as)[i] \in Nat
             /\ DOMAIN as[i].units = 1 .. WidthOf(as)[i]
             /\ \A j \in 1 .. WidthOf(as)[i] :
                  /\ DepthOf(as)[i][j] = Len(Items(as[i].units[j]))
                  /\ DepthOf(as)[i][j] \in Nat \ {0}
                  /\ DOMAIN Items(as[i].units[j]) = 1 .. DepthOf(as)[i][j]
  <2>1. IsSequence(as[i].units)
    BY <1>1 DEF AccountsOK
  <2>2. \A j \in DOMAIN as[i].units :
          IsSequence(Items(as[i].units[j])) /\ Len(Items(as[i].units[j])) > 0
    BY <1>1 DEF AccountsOK
  <2>3. WidthOf(as)[i] = Len(as[i].units)
    BY DEF WidthOf
  <2>4. WidthOf(as)[i] \in Nat /\ DOMAIN as[i].units = 1 .. WidthOf(as)[i]
    BY <2>1, <2>3 DEF IsSequence
  <2>5. ASSUME NEW j \in 1 .. WidthOf(as)[i]
        PROVE  /\ DepthOf(as)[i][j] = Len(Items(as[i].units[j]))
               /\ DepthOf(as)[i][j] \in Nat \ {0}
               /\ DOMAIN Items(as[i].units[j]) = 1 .. DepthOf(as)[i][j]
    <3>1. j \in 1 .. Len(as[i].units)
      BY <2>3, <2>5
    <3>2. DepthOf(as)[i][j] = Len(Items(as[i].units[j]))
      BY <3>1 DEF DepthOf
    <3>3. PICK q : q = Items(as[i].units[j])
      OBVIOUS
    <3>4. PICK depth : depth = Len(q)
      OBVIOUS
    <3>5. Len(q) \in Nat /\ DOMAIN q = 1 .. Len(q) /\ Len(q) > 0
      BY <2>2, <2>4, <3>3 DEF IsSequence
    <3>6. depth \in Nat \ {0} /\ DOMAIN q = 1 .. depth
      BY <3>4, <3>5
    <3> QED  BY <3>2, <3>3, <3>4, <3>6
  <2> QED  BY <2>3, <2>4, <2>5
<1>3. Grid(Len(as), WidthOf(as), DepthOf(as))
  BY <1>2 DEF Grid
<1>4. kind = "local" => Len(as) <= 1
  BY DEF AccountsOK, ManyAccounts
<1> QED  BY <1>1, <1>2, <1>3, <1>4 DEF GridOf

\* The pass a process is in.
LEMMA BusyFacts ==
  ASSUME Built, ProcsOK, NEW p \in Procs, Busy(p)
  PROVE  /\ proc[p] \in Passes(Names) /\ proc[p].name \in Names /\ proc[p].index \in Nat
         /\ PassAt(proc[p], setup, accounts)
         /\ AccountsOK(setup.kind[proc[p].name], accounts[proc[p].name])
<1>1. proc[p] \in Passes(Names)
  BY DEF ProcsOK, Busy
<1>2. proc[p].name \in Names /\ proc[p].index \in Nat
  BY <1>1, Fields
<1> QED  BY <1>1, <1>2, BuiltAccounts DEF ProcsOK, Kind

\* What a step of a pass does to the rest: it moves on, or ends and is told.
PassMoves(p) ==
  /\ \E Q \in Passes(Names) :
       /\ proc' = [proc EXCEPT ![p] = Q]
       /\ Q.name = proc[p].name /\ Q.index = proc[p].index /\ PassAt(Q, setup, accounts)
       /\ \/ Q.read = proc[p].read /\ UNCHANGED store
          \/ FetchPage(p) /\ Q.read = proc[p].read \union {<<proc[p].acct, proc[p].unit, proc[p].page>>}
  /\ UNCHANGED <<job, slots, manual>>
Ends(p) ==
  /\ UNCHANGED store
  /\ \E ok, thrown \in BOOLEAN :
       Settle(p, Entry(p, ok, thrown)) /\ EntryAt(Entry(p, ok, thrown), setup, accounts)

\* A pass that reads an account, and a unit of it.
LEMMA InAccountFacts ==
  ASSUME Built, ProcsOK, NEW p \in Procs, Scanning(p), NEW P, P = proc[p],
         NEW as, as = accounts[P.name], NEW kind, kind = setup.kind[P.name],
         NEW n, n = Len(as), NEW w, w = WidthOf(as), NEW d, d = DepthOf(as)
  PROVE  /\ P \in Passes(Names) /\ P.stage = "scan" /\ P.acct \in 1 .. n /\ n \in Nat /\ Grid(n, w, d)
         /\ PassOK(P, kind, n, w, d) /\ Len(UnitsOf(p)) = w[P.acct] /\ w[P.acct] \in Nat
         /\ Account(p) = as[P.acct] /\ Authorised(P.name)
         /\ P.unit \in 1 .. Len(UnitsOf(p)) =>
              /\ InUnit(P, kind, n, w, d)
              /\ Len(Items(UnitAt(p))) = d[P.acct][P.unit]
<1>1. Busy(p) /\ P.stage = "scan" /\ Authorised(P.name) /\ P.acct \in 1 .. n
  BY DEF Scanning, In
<1>2. P \in Passes(Names) /\ PassAt(P, setup, accounts) /\ AccountsOK(kind, as)
  BY <1>1, BusyFacts
<1>3. PassOK(P, kind, n, w, d)
  BY <1>2 DEF PassAt
<1>4. n \in Nat /\ Grid(n, w, d) /\ w[P.acct] = Len(as[P.acct].units) /\ w[P.acct] \in Nat
      /\ \A j \in 1 .. w[P.acct] : d[P.acct][j] = Len(Items(as[P.acct].units[j]))
  <2>1. PICK acct : acct = P.acct
    OBVIOUS
  <2>2. n \in Nat /\ Grid(n, w, d) /\ w[acct] = Len(as[acct].units) /\ w[acct] \in Nat
        /\ \A j \in 1 .. w[acct] : d[acct][j] = Len(Items(as[acct].units[j]))
    <3>1. AccountsOK(kind, as)
      BY <1>2
    <3>2. GridOf(kind, as)
      BY ONLY <3>1, AccountsGrid
    <3>3. /\ n \in Nat /\ Grid(n, w, d)
          /\ \A i \in 1 .. n :
               /\ w[i] = Len(as[i].units) /\ w[i] \in Nat
               /\ \A j \in 1 .. w[i] : d[i][j] = Len(Items(as[i].units[j]))
      BY ONLY <3>2, n = Len(as), w = WidthOf(as), d = DepthOf(as) DEF GridOf
    <3>4. acct \in 1 .. n
      BY <1>1, <2>1
    <3> QED  BY ONLY <3>3, <3>4
  <2> QED  BY <2>1, <2>2
<1>5. Account(p) = as[P.acct] /\ Len(UnitsOf(p)) = w[P.acct]
  BY <1>4 DEF Account, UnitsOf
<1>6. ASSUME P.unit \in 1 .. Len(UnitsOf(p))
      PROVE  InUnit(P, kind, n, w, d) /\ Len(Items(UnitAt(p))) = d[P.acct][P.unit]
  <2>1. P.unit \in 1 .. w[P.acct]
    BY <1>5, <1>6
  <2>2. InUnit(P, kind, n, w, d)
    BY <1>1, <1>3, <1>4, <2>1 DEF InUnit
  <2>3. UnitAt(p) = as[P.acct].units[P.unit]
    BY <1>5 DEF UnitAt, UnitsOf
  <2> QED  BY <1>4, <2>1, <2>2, <2>3
<1> QED  BY <1>1, <1>2, <1>3, <1>4, <1>5, <1>6

LEMMA SoundMoves ==
  ASSUME Built, ProcsOK, NEW p \in Procs, Busy(p), Authorised(proc[p].name), NEW Q, NEW kind, NEW as,
         kind = setup.kind[proc[p].name], as = accounts[proc[p].name],
         Sound(Q, proc[p], Names, kind, Len(as), WidthOf(as), DepthOf(as)),
         \/ Q.read = proc[p].read /\ UNCHANGED store
         \/ FetchPage(p) /\ Q.read = proc[p].read \union {<<proc[p].acct, proc[p].unit, proc[p].page>>},
         proc' = [proc EXCEPT ![p] = Q], UNCHANGED <<job, slots, manual>>
  PROVE  PassMoves(p)
<1>1. Q \in Passes(Names) /\ Q.name = proc[p].name /\ Q.index = proc[p].index
  BY DEF Sound, Onward
<1>2. PassAt(Q, setup, accounts)
  BY <1>1 DEF Sound, PassAt
<1> QED  BY <1>1, <1>2 DEF PassMoves

LEMMA BeginMoves ==
  ASSUME Built, ProcsOK, NEW p \in Procs, Begin(p)
  PROVE  PassMoves(p)
<1>1. PICK Q : Q = [proc[p] EXCEPT !.stage = "scan"]
  OBVIOUS
<1>2. Busy(p) /\ proc' = [proc EXCEPT ![p] = Q] /\ UNCHANGED <<job, slots, manual, store>>
  BY <1>1 DEF Begin, In, ProcsOK
<1>3. proc[p] \in Passes(Names) /\ PassAt(proc[p], setup, accounts)
  BY <1>2, BusyFacts
<1>4. PICK kind, n, w, d : /\ kind = setup.kind[proc[p].name] /\ n = Len(accounts[proc[p].name])
                          /\ w = WidthOf(accounts[proc[p].name]) /\ d = DepthOf(accounts[proc[p].name])
  OBVIOUS
<1>5. PassOK(proc[p], kind, n, w, d)
  BY <1>3, <1>4 DEF PassAt
<1>6. /\ Q \in Passes(Names) /\ Q.name = proc[p].name /\ Q.index = proc[p].index /\ Q.read = proc[p].read
      /\ PassOK(Q, kind, n, w, d)
  BY <1>1, <1>3, <1>5, BegunOK
<1>7. PassAt(Q, setup, accounts)
  BY <1>4, <1>6 DEF PassAt
<1> QED  BY <1>2, <1>6, <1>7 DEF PassMoves

\* A step of a pass that reads: the place it is in, and the sound place it goes to.
LEMMA ReadingMoves ==
  ASSUME Built, ProcsOK, NEW p \in Procs,
         EnterAccount(p) \/ FetchPage(p) \/ UnitFails(p) \/ RootUnreadable(p) \/ EntryUnreadable(p)
         \/ LeaveAccount(p)
  PROVE  PassMoves(p)
<1>1. Scanning(p) /\ UNCHANGED <<job, slots, manual>>
  BY DEF EnterAccount, FetchPage, UnitFails, RootUnreadable, EntryUnreadable, LeaveAccount
<1>2. PICK P, as, kind : P = proc[p] /\ as = accounts[P.name] /\ kind = setup.kind[P.name]
  OBVIOUS
<1>3. PICK n, w, d : n = Len(as) /\ w = WidthOf(as) /\ d = DepthOf(as)
  OBVIOUS
<1>4. /\ P \in Passes(Names) /\ P.stage = "scan" /\ P.acct \in 1 .. n /\ n \in Nat /\ Grid(n, w, d)
      /\ PassOK(P, kind, n, w, d) /\ Len(UnitsOf(p)) = w[P.acct] /\ w[P.acct] \in Nat
      /\ Account(p) = as[P.acct] /\ Authorised(P.name)
      /\ P.unit \in 1 .. Len(UnitsOf(p)) =>
           /\ InUnit(P, kind, n, w, d)
           /\ Len(Items(UnitAt(p))) = d[P.acct][P.unit]
  BY <1>1, <1>2, <1>3, InAccountFacts
<1>5. Busy(p) /\ Kind(P.name) = kind /\ proc \in [Procs -> Passes(Names) \union {Idle}]
  BY <1>1, <1>2 DEF Scanning, In, Kind, ProcsOK
<1>6. SUFFICES ASSUME TRUE
               PROVE  \E Q : /\ proc' = [proc EXCEPT ![p] = Q] /\ Sound(Q, P, Names, kind, n, w, d)
                             /\ \/ Q.read = P.read /\ UNCHANGED store
                                \/ FetchPage(p) /\ Q.read = P.read \union {<<P.acct, P.unit, P.page>>}
  BY <1>1, <1>2, <1>3, <1>4, <1>5, SoundMoves
<1>7. CASE EnterAccount(p)
  <2>1. P.unit = 0 /\ proc' = [proc EXCEPT ![p] =
             IF NeedsSecret(P.name) /\ ~Account(p).secret THEN NextAccount(P, "skipped")
             ELSE IF ~Account(p).settings THEN NextAccount(P, "failed")
             ELSE [P EXCEPT !.unit = 1]]
    BY <1>2, <1>5, <1>7 DEF EnterAccount
  <2>2. PICK skip, fail, enter : /\ skip = NextAccount(P, "skipped") /\ fail = NextAccount(P, "failed")
                                 /\ enter = [P EXCEPT !.unit = 1]
    OBVIOUS
  <2>3. Sound(skip, P, Names, kind, n, w, d) /\ Sound(fail, P, Names, kind, n, w, d)
        /\ skip.read = P.read /\ fail.read = P.read
    BY <1>4, <2>1, <2>2, PassesBy
  <2>4. Sound(enter, P, Names, kind, n, w, d) /\ enter.read = P.read
    BY <1>4, <2>1, <2>2, EntersOK
  <2>5. \E Q \in {skip, fail, enter} : proc' = [proc EXCEPT ![p] = Q]
    BY <2>1, <2>2
  <2>6. UNCHANGED store
    BY <1>7 DEF EnterAccount
  <2> QED  BY <2>3, <2>4, <2>5, <2>6
<1>8. CASE FetchPage(p)
  <2>1. PICK R : R = NextPage(P, Len(Items(UnitAt(p))))
    OBVIOUS
  <2>2. PICK Q : Q = [R EXCEPT !.read = R.read \union {<<P.acct, P.unit, P.page>>}]
    OBVIOUS
  <2>3. P.unit \in 1 .. Len(UnitsOf(p)) /\ proc' = [proc EXCEPT ![p] =
          [NextPage(P, Len(Items(UnitAt(p)))) EXCEPT !.read = @ \union {<<P.acct, P.unit, P.page>>}]]
    BY <1>2, <1>5, <1>8 DEF FetchPage
  <2>4. proc' = [proc EXCEPT ![p] = Q]
    BY <2>1, <2>2, <2>3
  <2>5. InUnit(P, kind, n, w, d) /\ R = NextPage(P, d[P.acct][P.unit])
    BY <1>4, <2>1, <2>3
  <2>6. Sound(Q, P, Names, kind, n, w, d) /\ Q.read = P.read \union {<<P.acct, P.unit, P.page>>}
    <3>1. P \in Passes(Names)
      BY <1>4
    <3>2. SoundAt(Q, P, P.read \union {<<P.acct, P.unit, P.page>>}, Names, kind, n, w, d)
      BY ONLY <3>1, <2>2, <2>5, FetchesOK
    <3> QED  BY <3>2 DEF SoundAt
  <2> QED  BY <1>8, <2>4, <2>6
<1>9. CASE UnitFails(p)
  <2>1. P.unit \in 1 .. Len(UnitsOf(p)) /\ kind \notin {"web", "local"}
        /\ proc' = [proc EXCEPT ![p] = FailedUnit(P)] /\ UNCHANGED store
    BY <1>2, <1>5, <1>9 DEF UnitFails
  <2> QED  BY <1>4, <2>1, FailsOK
<1>10. CASE RootUnreadable(p)
  <2>1. P.unit \in 1 .. Len(UnitsOf(p)) /\ kind = "local" /\ P.page = 1
        /\ proc' = [proc EXCEPT ![p] = [P EXCEPT !.unit = P.unit + 1]] /\ UNCHANGED store
    BY <1>2, <1>5, <1>10 DEF RootUnreadable
  <2>2. InUnit(P, "local", n, w, d)
    BY <1>4, <2>1
  <2> QED  BY <1>4, <2>1, <2>2, WalksPastRoot
<1>11. CASE EntryUnreadable(p)
  <2>1. P.unit \in 1 .. Len(UnitsOf(p)) /\ kind = "local"
        /\ proc' = [proc EXCEPT ![p] = NextPage(P, Len(Items(UnitAt(p))))] /\ UNCHANGED store
    BY <1>2, <1>5, <1>11 DEF EntryUnreadable
  <2>2. PICK Q : Q = NextPage(P, Len(Items(UnitAt(p))))
    OBVIOUS
  <2>3. P \in Passes(Names) /\ InUnit(P, "local", n, w, d) /\ Q = NextPage(P, d[P.acct][P.unit])
    BY <1>4, <2>1, <2>2
  <2>4. Sound(Q, P, Names, "local", n, w, d) /\ Q.read = P.read
    BY ONLY <2>3, WalksPastEntry
  <2> QED  BY <2>1, <2>2, <2>4
<1>12. CASE LeaveAccount(p)
  <2>1. PICK outcome : outcome = AccountOutcome(P, Len(UnitsOf(p)))
    OBVIOUS
  <2>2. PICK Q : Q = [NextAccount(P, outcome) EXCEPT !.partial = @ \/ (outcome = "ok" /\ P.bad > 0)]
    OBVIOUS
  <2>3. P.unit = Len(UnitsOf(p)) + 1 /\ proc' = [proc EXCEPT ![p] = Q] /\ UNCHANGED store
    BY <1>2, <1>5, <1>12, <2>1, <2>2 DEF LeaveAccount
  <2>4. P.unit = w[P.acct] + 1 /\ outcome = AccountOutcome(P, w[P.acct])
    BY <1>4, <2>1, <2>3
  <2>5. Sound(Q, P, Names, kind, n, w, d) /\ Q.read = P.read
    <3>1. P \in Passes(Names) /\ n \in Nat /\ Grid(n, w, d) /\ PassOK(P, kind, n, w, d)
          /\ P.stage = "scan" /\ P.acct \in 1 .. n
      BY <1>4
    <3>2. SoundAt(Q, P, P.read, Names, kind, n, w, d)
      BY ONLY <3>1, <2>2, <2>4, GoesThrough
    <3> QED  BY <3>2 DEF SoundAt
  <2> QED  BY <2>3, <2>5
<1> QED  BY <1>7, <1>8, <1>9, <1>10, <1>11, <1>12

LEMMA EntryFields ==
  ASSUME NEW p, NEW ok, NEW thrown, NEW e, e = Entry(p, ok, thrown)
  PROVE  e.name = proc[p].name /\ e.ok = ok /\ e.thrown = thrown /\ e.read = proc[p].read
BY DEF Entry

\* What may be said of a pass, in the terms of its grid.
LEMMA MayBeTold ==
  ASSUME NEW p, NEW ok \in BOOLEAN, NEW thrown \in BOOLEAN, NEW P, P = proc[p],
         NEW kind, kind = setup.kind[P.name], NEW as, as = accounts[P.name],
         NEW n, n = Len(as), NEW w, w = WidthOf(as), NEW d, d = DepthOf(as),
         (kind # "local" /\ ok) => AllRead(P.read, n, w, d),
         (~ok /\ ~thrown) => NoUnits(n, w) \/ (~AllRead(P.read, n, w, d) /\ ~NoneRead(P.read, n, w, d)),
         thrown => NoneRead(P.read, n, w, d) \/ (kind = "web" /\ ~AllRead(P.read, n, w, d))
  PROVE  EntryAt(Entry(p, ok, thrown), setup, accounts)
<1>1. PICK e : e = Entry(p, ok, thrown)
  OBVIOUS
<1>2. e.name = P.name /\ e.ok = ok /\ e.thrown = thrown /\ e.read = P.read
  BY <1>1, EntryFields
<1>3. Told(e, kind, n, w, d)
  BY <1>2 DEF Told
<1> QED  BY <1>1, <1>2, <1>3 DEF EntryAt

LEMMA ThrownUnread ==
  ASSUME Built, ProcsOK, NEW p \in Procs, Busy(p), proc[p].read = {}
  PROVE  EntryAt(Entry(p, FALSE, TRUE), setup, accounts)
<1>1. PICK P, as, kind : P = proc[p] /\ as = accounts[P.name] /\ kind = setup.kind[P.name]
  OBVIOUS
<1>2. PICK n, w, d : n = Len(as) /\ w = WidthOf(as) /\ d = DepthOf(as)
  OBVIOUS
<1>3. AccountsOK(kind, as)
  BY <1>1, BusyFacts
<1>4. Grid(n, w, d)
  BY <1>2, <1>3, AccountsGrid DEF GridOf
<1>5. NoneRead(P.read, n, w, d)
  BY <1>1, <1>4, NothingRead
<1> QED  BY <1>1, <1>2, <1>5, MayBeTold

LEMMA LoadEnds ==
  ASSUME Built, ProcsOK, NEW p \in Procs, LoadFails(p) \/ CredentialMissing(p)
  PROVE  Ends(p)
<1>1. Busy(p) /\ Settle(p, Entry(p, FALSE, TRUE)) /\ UNCHANGED store
  BY DEF LoadFails, CredentialMissing, In, Throw
<1>2. proc[p].read = {}
  <2>1. CASE LoadFails(p)
    <3>1. proc[p].stage = "load"
      BY <2>1 DEF LoadFails, In
    <3>2. PassAt(proc[p], setup, accounts)
      BY <1>1, BusyFacts
    <3> QED  BY <3>1, <3>2 DEF PassAt, PassOK
  <2>2. CASE CredentialMissing(p)
    BY <1>1, <2>2 DEF CredentialMissing, ProcsOK
  <2> QED  BY <2>1, <2>2
<1>3. EntryAt(Entry(p, FALSE, TRUE), setup, accounts)
  BY <1>1, <1>2, ThrownUnread
<1> QED  BY <1>1, <1>3 DEF Ends

LEMMA SnapshotEnds ==
  ASSUME Built, ProcsOK, NEW p \in Procs, SnapshotFails(p)
  PROVE  Ends(p)
<1>1. Scanning(p) /\ Settle(p, Entry(p, FALSE, TRUE)) /\ proc[p].unit \in 1 .. Len(UnitsOf(p))
      /\ Kind(proc[p].name) = "web" /\ UNCHANGED store
  BY DEF SnapshotFails, Throw
<1>2. PICK P, as, kind : P = proc[p] /\ as = accounts[P.name] /\ kind = setup.kind[P.name]
  OBVIOUS
<1>3. PICK n, w, d : n = Len(as) /\ w = WidthOf(as) /\ d = DepthOf(as)
  OBVIOUS
<1>4. P \in Passes(Names) /\ InUnit(P, kind, n, w, d)
  BY <1>1, <1>2, <1>3, InAccountFacts
<1>5. ~AllRead(P.read, n, w, d) /\ kind = "web"
  BY <1>1, <1>2, <1>4, LostAtUnit DEF Kind
<1>6. EntryAt(Entry(p, FALSE, TRUE), setup, accounts)
  BY <1>2, <1>3, <1>5, MayBeTold
<1> QED  BY <1>1, <1>6 DEF Ends

LEMMA PassEndsEnds ==
  ASSUME Built, ProcsOK, NEW p \in Procs, PassEnds(p)
  PROVE  Ends(p)
<1>1. Busy(p) /\ UNCHANGED store
  BY DEF PassEnds, In
<1>2. PICK P, as, kind : P = proc[p] /\ as = accounts[P.name] /\ kind = setup.kind[P.name]
  OBVIOUS
<1>3. PICK n, w, d : n = Len(as) /\ w = WidthOf(as) /\ d = DepthOf(as)
  OBVIOUS
<1>4. P \in Passes(Names) /\ PassAt(P, setup, accounts) /\ AccountsOK(kind, as)
  BY <1>1, <1>2, BusyFacts
<1>5. n \in Nat /\ Grid(n, w, d) /\ (kind = "local" => n <= 1) /\ PassOK(P, kind, n, w, d)
  BY <1>2, <1>3, <1>4, AccountsGrid DEF PassAt, GridOf
<1>6. P.acct = n + 1
  BY <1>2, <1>3 DEF PassEnds
<1>7. Ended(P, kind, n, w, d)
  BY <1>5, <1>6 DEF Ended
<1>8. CASE AllLost(P.outcomes)
  <2>1. Settle(p, Entry(p, FALSE, TRUE))
    BY <1>2, <1>8 DEF PassEnds, Throw
  <2>2. NoneRead(P.read, n, w, d)
    BY <1>4, <1>7, <1>8, EndedLost
  <2>3. EntryAt(Entry(p, FALSE, TRUE), setup, accounts)
    BY <1>2, <1>3, <2>2, MayBeTold
  <2> QED  BY <1>1, <2>1, <2>3 DEF Ends
<1>9. CASE ~AllLost(P.outcomes) /\ Degraded(P)
  <2>1. Settle(p, Entry(p, FALSE, FALSE))
    <3>1. Settle(p, Entry(p, ~Degraded(P), FALSE))
      BY <1>2, <1>9 DEF PassEnds
    <3>2. (~Degraded(P)) = FALSE
      BY <1>9
    <3> QED  BY <3>1, <3>2
  <2>2. NoUnits(n, w) \/ (~AllRead(P.read, n, w, d) /\ ~NoneRead(P.read, n, w, d))
    BY <1>4, <1>7, <1>9, EndedDegraded
  <2>3. EntryAt(Entry(p, FALSE, FALSE), setup, accounts)
    BY <1>2, <1>3, <2>2, MayBeTold
  <2> QED  BY <1>1, <2>1, <2>3 DEF Ends
<1>10. CASE ~AllLost(P.outcomes) /\ ~Degraded(P)
  <2>1. Settle(p, Entry(p, TRUE, FALSE))
    <3>1. Settle(p, Entry(p, ~Degraded(P), FALSE))
      BY <1>2, <1>10 DEF PassEnds
    <3>2. (~Degraded(P)) = TRUE
      BY <1>10
    <3> QED  BY <3>1, <3>2
  <2>2. kind # "local" => AllRead(P.read, n, w, d)
    BY <1>4, <1>7, <1>10, EndedWell
  <2>3. EntryAt(Entry(p, TRUE, FALSE), setup, accounts)
    BY <1>2, <1>3, <2>2, MayBeTold
  <2> QED  BY <1>1, <2>1, <2>3 DEF Ends
<1> QED  BY <1>8, <1>9, <1>10

\* Every step of a pass.
LEMMA StepMovesOrEnds ==
  ASSUME Built, ProcsOK, NEW p \in Procs, Step(p)
  PROVE  Busy(p) /\ (PassMoves(p) \/ Ends(p)) /\ UNCHANGED <<setup, accounts, launches>>
<1>1. CASE LoadFails(p) \/ CredentialMissing(p)
  BY <1>1, LoadEnds DEF LoadFails, CredentialMissing, In, fixed
<1>2. CASE Begin(p)
  BY <1>2, BeginMoves DEF Begin, In, fixed
<1>3. CASE EnterAccount(p) \/ FetchPage(p) \/ UnitFails(p) \/ RootUnreadable(p) \/ EntryUnreadable(p)
           \/ LeaveAccount(p)
  BY <1>3, ReadingMoves
  DEF EnterAccount, FetchPage, UnitFails, RootUnreadable, EntryUnreadable, LeaveAccount, Scanning, In, fixed
<1>4. CASE SnapshotFails(p)
  BY <1>4, SnapshotEnds DEF SnapshotFails, Scanning, In, fixed
<1>5. CASE PassEnds(p)
  BY <1>5, PassEndsEnds DEF PassEnds, In, fixed
<1> QED  BY <1>1, <1>2, <1>3, <1>4, <1>5 DEF Step, Scan

LEMMA AuthorisedKept ==
  ASSUME UNCHANGED setup, NEW n, Authorised(n)
  PROVE  Authorised(n)'
BY DEF Authorised, NeedsSecret, Kind

LEMMA EntryTyped ==
  ASSUME Built, ProcsOK, NEW p \in Procs, Busy(p), NEW ok \in BOOLEAN, NEW thrown \in BOOLEAN
  PROVE  Entry(p, ok, thrown) \in Entries(Names)
<1>1. proc[p] \in Passes(Names)
  BY BusyFacts
<1> QED  BY <1>1, Fields DEF Entry, Entries

LEMMA SameNames == UNCHANGED setup => Names' = Names
BY DEF Names

LEMMA EmptyIsNoEntry ==
  ASSUME NEW names, NEW e \in Entries(names)
  PROVE  e # Empty
<1>1. "ok" \in DOMAIN e
  BY DEF Entries
<1>2. "ok" \notin DOMAIN Empty
  BY DEF Empty
<1> QED  BY <1>1, <1>2

LEMMA IdleIsNoPass ==
  ASSUME NEW names, NEW P \in Passes(names)
  PROVE  P # Idle
<1>1. "unit" \in DOMAIN P
  BY DEF Passes
<1>2. "unit" \notin DOMAIN Idle
  BY DEF Idle
<1> QED  BY <1>1, <1>2

\* The passes: one moves on or is over, or one begins, or some are killed.
LEMMA ProcsKept ==
  ASSUME ProcsOK, UNCHANGED <<setup, accounts>>, NEW p \in Procs, NEW Q,
         Q \in Passes(Names) \union {Idle},
         Q # Idle => /\ PassAt(Q, setup, accounts)
                     /\ Q.read # {} => Authorised(Q.name),
         proc' = [proc EXCEPT ![p] = Q]
  PROVE  ProcsOK'
<1>1. Names' = Names
  BY SameNames
<1>2. proc' \in [Procs -> Passes(Names) \union {Idle}]
  BY DEF ProcsOK
<1>3. proc'[p] = Q /\ \A q \in Procs : q # p => proc'[q] = proc[q]
  BY DEF ProcsOK
<1>4. ASSUME NEW q \in Procs, Busy(q)'
      PROVE  PassAt(proc'[q], setup, accounts) /\ (proc'[q].read # {} => Authorised(proc'[q].name))
  <2>1. CASE q = p
    BY <1>3, <1>4, <2>1 DEF Busy
  <2>2. CASE q # p
    <3>1. Busy(q) /\ proc'[q] = proc[q]
      BY <1>3, <1>4, <2>2 DEF Busy
    <3> QED  BY <3>1 DEF ProcsOK
  <2> QED  BY <2>1, <2>2
<1>5. \A name : Authorised(name) => Authorised(name)'
  BY AuthorisedKept
<1> QED  BY <1>1, <1>2, <1>4, <1>5 DEF ProcsOK

LEMMA MovesKeepsProcs ==
  ASSUME Built, ProcsOK, UNCHANGED <<setup, accounts>>, NEW p \in Procs, Busy(p), PassMoves(p)
  PROVE  ProcsOK'
<1>1. PICK Q \in Passes(Names) :
        /\ proc' = [proc EXCEPT ![p] = Q]
        /\ Q.name = proc[p].name /\ Q.index = proc[p].index /\ PassAt(Q, setup, accounts)
        /\ Q.read # proc[p].read => Authorised(proc[p].name)
  BY DEF PassMoves, FetchPage, Scanning
<1>2. Q.read # {} => Authorised(Q.name)
  BY <1>1 DEF ProcsOK
<1> QED  BY <1>1, <1>2, ProcsKept

LEMMA EndsKeepsProcs ==
  ASSUME Built, ProcsOK, UNCHANGED <<setup, accounts>>, NEW p \in Procs, Ends(p)
  PROVE  ProcsOK'
<1>1. proc' = [proc EXCEPT ![p] = Idle]
  BY DEF Ends, Settle
<1> QED  BY <1>1, ProcsKept

LEMMA StartKeepsProcs ==
  ASSUME Built, ProcsOK, UNCHANGED <<setup, accounts>>, NEW p \in Procs, NEW name \in Names,
         NEW index \in Nat, proc' = [proc EXCEPT ![p] = NewPass(name, index)]
  PROVE  ProcsOK'
<1>1. PICK Q : Q = NewPass(name, index)
  OBVIOUS
<1>2. PICK n, w, d, kind : /\ n = Len(accounts[name]) /\ w = WidthOf(accounts[name])
                          /\ d = DepthOf(accounts[name]) /\ kind = setup.kind[name]
  OBVIOUS
<1>3. n \in Nat
  BY <1>2, BuiltAccounts, AccountsGrid DEF GridOf
<1>4. Q \in Passes(Names) /\ PassOK(Q, kind, n, w, d) /\ Q.read = {} /\ Q.name = name
  BY <1>1, <1>3, NewPassOK
<1>5. PassAt(Q, setup, accounts)
  BY <1>2, <1>4 DEF PassAt
<1> QED  BY <1>1, <1>4, <1>5, ProcsKept

-----------------------------------------------------------------------------
(* The run and its entries.                                                   *)
LEMMA SettleKeepsEntries ==
  ASSUME Built, ProcsOK, EntriesOK, JobOK, Pooled, UNCHANGED <<setup, accounts>>,
         NEW p \in Procs, Busy(p), Ends(p)
  PROVE  EntriesOK' /\ JobOK'
<1>1. PICK ok \in BOOLEAN, thrown \in BOOLEAN :
        Settle(p, Entry(p, ok, thrown)) /\ EntryAt(Entry(p, ok, thrown), setup, accounts)
  BY DEF Ends
<1>2. PICK e : e = Entry(p, ok, thrown)
  OBVIOUS
<1>3. e \in Entries(Names) /\ EntryAt(e, setup, accounts)
  BY <1>1, <1>2, EntryTyped
<1>4. Names' = Names
  BY SameNames
<1>5. CASE p = Cli
  <2>1. manual' = e /\ UNCHANGED <<slots, job>>
    BY <1>1, <1>2, <1>5 DEF Settle
  <2>2. EntriesOK'
    BY <1>3, <1>4, <2>1 DEF EntriesOK
  <2> QED  BY <1>4, <2>1, <2>2 DEF JobOK, Jobs
<1>6. CASE p # Cli
  <2>1. PICK i : i = proc[p].index
    OBVIOUS
  <2>2. slots' = [slots EXCEPT ![i] = e] /\ UNCHANGED manual
        /\ job' = IF job.failFast /\ ~e.ok THEN [job EXCEPT !.next = Len(job.names) + 1] ELSE job
    BY <1>1, <1>2, <1>6, <2>1 DEF Settle
  <2>3. job \in Jobs /\ Len(job.names) \in Nat
    BY DEF JobOK, Jobs
  <2>4. job' \in Jobs /\ job'.names = job.names /\ job'.next \in 1 .. Len(job.names) + 1
    BY <2>2, <2>3 DEF JobOK, Jobs
  <2>5. slots' \in [DOMAIN slots -> Entries(Names) \union {Empty}] /\ DOMAIN slots' = DOMAIN slots
    BY <1>3, <2>2 DEF EntriesOK
  <2>6. \A k \in DOMAIN slots : slots'[k] # Empty => EntryAt(slots'[k], setup, accounts)
    BY <1>3, <2>2 DEF EntriesOK
  <2>7. Jobs' = Jobs
    BY <1>4 DEF Jobs
  <2> QED  BY <1>4, <2>2, <2>4, <2>5, <2>6, <2>7 DEF EntriesOK, JobOK
<1> QED  BY <1>5, <1>6

LEMMA EntriesSame ==
  ASSUME EntriesOK, UNCHANGED <<setup, accounts, slots, manual>>, job'.names = job.names
  PROVE  EntriesOK'
BY SameNames DEF EntriesOK

LEMMA NextOnly ==
  ASSUME JobOK, UNCHANGED setup, NEW k \in 1 .. Len(job.names) + 1, job' = [job EXCEPT !.next = k]
  PROVE  JobOK' /\ job'.names = job.names /\ job'.next = k /\ job'.phase = job.phase /\ job'.pool = job.pool
<1>1. job \in Jobs /\ Len(job.names) \in Nat
  BY DEF JobOK, Jobs
<1>2. k \in Nat
  BY <1>1
<1>3. job' \in Jobs /\ job'.names = job.names /\ job'.next = k /\ job'.phase = job.phase /\ job'.pool = job.pool
  BY <1>1, <1>2 DEF Jobs
<1>4. Jobs' = Jobs
  BY SameNames DEF Jobs
<1> QED  BY <1>3, <1>4 DEF JobOK

LEMMA PhaseOnly ==
  ASSUME JobOK, UNCHANGED setup, job' = [job EXCEPT !.phase = "idle"]
  PROVE  JobOK' /\ job'.names = job.names /\ job'.next = job.next /\ job'.pool = job.pool
<1>1. job \in Jobs
  BY DEF JobOK
<1>2. job' \in Jobs /\ job'.names = job.names /\ job'.next = job.next /\ job'.pool = job.pool
  BY <1>1 DEF Jobs
<1>3. Jobs' = Jobs
  BY SameNames DEF Jobs
<1> QED  BY <1>2, <1>3 DEF JobOK

LEMMA WorkersFacts ==
  /\ Cli \notin Workers /\ Cli \in Procs /\ Workers \subseteq Procs
  /\ \A v \in Workers : v \in Int /\ v >= 1
<1>1. PICK c : c = Cardinality(Workers)
  OBVIOUS
<1>2. Workers = 1 .. c /\ c \in Nat
  BY <1>1, SyncAssumption, FS_CardinalityType
<1> QED  BY <1>2 DEF Procs, Cli

LEMMA MovesKeepsPool ==
  ASSUME ProcsOK, Pooled, NEW p \in Procs, Busy(p), PassMoves(p)
  PROVE  Pooled'
<1>1. PICK Q \in Passes(Names) :
        proc' = [proc EXCEPT ![p] = Q] /\ Q.name = proc[p].name /\ Q.index = proc[p].index
  BY DEF PassMoves
<1>2. UNCHANGED <<job, slots>>
  BY DEF PassMoves
<1>3. \A v \in Procs : /\ proc'[v].index = proc[v].index /\ proc'[v].name = proc[v].name
                       /\ Busy(v)' => Busy(v)
  BY <1>1 DEF ProcsOK, Busy
<1>4. Workers \subseteq Procs
  BY WorkersFacts
<1> QED  BY <1>2, <1>3, <1>4 DEF Pooled

LEMMA SettleKeepsPool ==
  ASSUME Built, ProcsOK, EntriesOK, JobOK, Pooled, NEW p \in Procs, Busy(p), Ends(p)
  PROVE  Pooled'
<1>1. PICK ok \in BOOLEAN, thrown \in BOOLEAN : Settle(p, Entry(p, ok, thrown))
  BY DEF Ends
<1>2. PICK e : e = Entry(p, ok, thrown)
  OBVIOUS
<1>3. e.name = proc[p].name
  BY <1>2, EntryFields
<1>4. /\ ~Busy(p)' /\ \A v \in Procs : v # p => proc'[v] = proc[v]
  BY <1>1 DEF Settle, ProcsOK, Busy
<1>5. Workers \subseteq Procs /\ Cli \notin Workers
  BY WorkersFacts
<1>6. \A v \in Workers : Busy(v)' => v # p /\ Busy(v) /\ proc'[v] = proc[v]
  BY <1>4, <1>5 DEF Busy
<1>7. CASE p = Cli
  <2>1. UNCHANGED <<slots, job>>
    BY <1>1, <1>7 DEF Settle
  <2> QED  BY <1>6, <2>1 DEF Pooled
<1>8. CASE p # Cli
  <2>1. PICK i : i = proc[p].index
    OBVIOUS
  <2>2. slots' = [slots EXCEPT ![i] = e]
        /\ job' = IF job.failFast /\ ~e.ok THEN [job EXCEPT !.next = Len(job.names) + 1] ELSE job
    BY <1>1, <1>2, <1>8, <2>1 DEF Settle
  <2>3. p \in Workers
    BY <1>8 DEF Procs
  <2>4. i \in 1 .. job.next - 1 /\ proc[p].name = job.names[i]
    BY <2>1, <2>3 DEF Pooled
  <2>5. job \in Jobs /\ Len(job.names) \in Nat /\ job.next \in Nat /\ job.next <= Len(job.names) + 1
    BY DEF JobOK, Jobs
  <2>6. /\ job'.phase = job.phase /\ job'.pool = job.pool /\ job'.names = job.names
        /\ job'.next \in Nat /\ job'.next >= job.next
    BY <2>2, <2>5 DEF Jobs
  <2>7. DOMAIN slots' = DOMAIN slots /\ \A k \in DOMAIN slots : slots'[k] = IF k = i THEN e ELSE slots[k]
    BY <2>2 DEF EntriesOK
  <2>8. ASSUME NEW v \in Workers, Busy(v)'
        PROVE  /\ job'.phase = "running" /\ v <= job'.pool
               /\ proc'[v].index \in 1 .. job'.next - 1 /\ proc'[v].name = job'.names[proc'[v].index]
    <3>1. Busy(v) /\ proc'[v] = proc[v]
      BY <1>6, <2>8
    <3>2. /\ job.phase = "running" /\ v <= job.pool
          /\ proc[v].index \in 1 .. job.next - 1 /\ proc[v].name = job.names[proc[v].index]
      BY <3>1 DEF Pooled
    <3>3. proc[v].index \in 1 .. job'.next - 1
      BY <2>5, <2>6, <3>2
    <3> QED  BY <2>6, <3>1, <3>2, <3>3
  <2>9. ASSUME NEW v \in Workers, NEW u \in Workers, Busy(v)', Busy(u)', v # u
        PROVE  proc'[v].index # proc'[u].index
    BY <1>6, <2>9 DEF Pooled
  <2>10. ASSUME NEW k \in DOMAIN slots, slots'[k] # Empty
         PROVE  /\ slots'[k].name = job'.names[k] /\ k < job'.next
                /\ \A v \in Workers : Busy(v)' => proc'[v].index # k
    <3>1. CASE k = i
      <4>1. slots'[k].name = job'.names[k]
        BY <1>3, <2>4, <2>6, <2>7, <3>1
      <4>2. k < job'.next
        BY <2>4, <2>5, <2>6, <3>1
      <4>3. \A v \in Workers : Busy(v)' => proc'[v].index # k
        BY <1>6, <2>1, <2>3, <3>1 DEF Pooled
      <4> QED  BY <4>1, <4>2, <4>3
    <3>2. CASE k # i
      <4>1. slots[k] # Empty /\ slots'[k] = slots[k]
        BY <2>7, <2>10, <3>2
      <4>2. slots[k].name = job.names[k] /\ k < job.next /\ \A v \in Workers : Busy(v) => proc[v].index # k
        BY <4>1 DEF Pooled
      <4>3. k \in Nat
        BY <2>5 DEF EntriesOK
      <4> QED  BY <1>6, <2>5, <2>6, <4>1, <4>2, <4>3
    <3> QED  BY <3>1, <3>2
  <2> QED  BY <2>7, <2>8, <2>9, <2>10 DEF Pooled
<1> QED  BY <1>7, <1>8

LEMMA ClaimKeepsPool ==
  ASSUME Built, ProcsOK, EntriesOK, JobOK, Pooled, NEW p \in Workers, Claim(p)
  PROVE  Pooled'
<1>1. PICK k : k = job.next
  OBVIOUS
<1>2. k \in Nat /\ k >= 1 /\ k <= Len(job.names) /\ Len(job.names) \in Nat
      /\ job.phase = "running" /\ p <= job.pool /\ ~Busy(p)
  BY <1>1 DEF JobOK, Jobs, Claim
<1>3. job' = [job EXCEPT !.next = k + 1] /\ proc' = [proc EXCEPT ![p] = NewPass(job.names[k], k)]
      /\ slots' = slots
  BY <1>1 DEF Claim
<1>4. job'.phase = job.phase /\ job'.pool = job.pool /\ job'.names = job.names /\ job'.next = k + 1
  BY <1>3 DEF JobOK, Jobs
<1>5. Workers \subseteq Procs
  BY WorkersFacts
<1>6. proc'[p] = NewPass(job.names[k], k) /\ \A v \in Workers : v # p => proc'[v] = proc[v]
  BY <1>3, <1>5 DEF ProcsOK
<1>7. proc'[p].index = k /\ proc'[p].name = job.names[k]
  BY <1>6 DEF NewPass
<1>8. \A v \in Workers : Busy(v)' /\ v # p =>
        /\ v <= job.pool /\ proc'[v].index \in 1 .. k - 1
        /\ proc'[v].name = job.names[proc'[v].index]
  BY <1>1, <1>6 DEF Pooled, Busy
<1>9. ASSUME NEW v \in Workers, Busy(v)'
      PROVE  /\ job'.phase = "running" /\ v <= job'.pool
             /\ proc'[v].index \in 1 .. job'.next - 1 /\ proc'[v].name = job'.names[proc'[v].index]
  <2>1. CASE v = p
    BY <1>2, <1>4, <1>7, <2>1
  <2>2. CASE v # p
    BY <1>2, <1>4, <1>8, <1>9, <2>2
  <2> QED  BY <2>1, <2>2
<1>10. ASSUME NEW v \in Workers, NEW u \in Workers, Busy(v)', Busy(u)', v # u
       PROVE  proc'[v].index # proc'[u].index
  <2>1. CASE v = p
    <3>1. proc'[u].index \in 1 .. k - 1
      BY <1>8, <1>10, <2>1
    <3> QED  BY <1>2, <1>7, <2>1, <3>1
  <2>2. CASE u = p
    <3>1. proc'[v].index \in 1 .. k - 1
      BY <1>8, <1>10, <2>2
    <3> QED  BY <1>2, <1>7, <2>2, <3>1
  <2>3. CASE v # p /\ u # p
    BY <1>6, <1>10, <2>3 DEF Pooled, Busy
  <2> QED  BY <2>1, <2>2, <2>3
<1>11. ASSUME NEW i \in DOMAIN slots, slots[i] # Empty
       PROVE  /\ slots[i].name = job'.names[i] /\ i < job'.next
              /\ \A v \in Workers : Busy(v)' => proc'[v].index # i
  <2>1. slots[i].name = job.names[i] /\ i < k /\ \A v \in Workers : Busy(v) => proc[v].index # i
    BY <1>1, <1>11 DEF Pooled
  <2>2. i \in Nat
    BY <1>2 DEF EntriesOK
  <2>3. ASSUME NEW v \in Workers, Busy(v)' PROVE proc'[v].index # i
    <3>1. CASE v = p
      BY <1>2, <1>7, <2>1, <2>2, <3>1
    <3>2. CASE v # p
      BY <1>6, <2>1, <2>3, <3>2 DEF Busy
    <3> QED  BY <3>1, <3>2
  <2> QED  BY <1>2, <1>4, <2>1, <2>2, <2>3
<1> QED  BY <1>3, <1>9, <1>10, <1>11 DEF Pooled

\* The run changes and no worker is busy, or only the other process's pass does.
LEMMA QuietPool ==
  ASSUME \A v \in Workers : ~Busy(v)', \A i \in DOMAIN slots' : slots'[i] = Empty
  PROVE  Pooled'
BY DEF Pooled

LEMMA ReportKeepsPool ==
  ASSUME Pooled, JobOK, UNCHANGED setup, Report
  PROVE  Pooled'
<1>1. job' = [job EXCEPT !.phase = "idle"] /\ UNCHANGED <<slots, proc>> /\ \A v \in Workers : ~Busy(v)
  BY DEF Report
<1>2. job'.names = job.names /\ job'.next = job.next
  BY <1>1, PhaseOnly
<1>3. \A v \in Workers : ~Busy(v)'
  BY <1>1 DEF Busy
<1> QED  BY <1>1, <1>2, <1>3 DEF Pooled

LEMMA OtherKeepsPool ==
  ASSUME Pooled, ProcsOK, UNCHANGED <<job, slots>>, NEW Q, proc' = [proc EXCEPT ![Cli] = Q]
  PROVE  Pooled'
<1>1. \A v \in Workers : proc'[v] = proc[v] /\ (Busy(v)' <=> Busy(v))
  BY WorkersFacts DEF ProcsOK, Busy
<1> QED  BY <1>1 DEF Pooled

-----------------------------------------------------------------------------
(* The invariant.                                                             *)
LEMMA SyncStarts ==
  ASSUME SyncInit
  PROVE  SyncInv
<1>1. Built
  BY DEF SyncInit, Built
<1>2. JobOK
  BY DEF SyncInit, JobOK, Jobs, NoJob
<1>3. ProcsOK
  BY DEF SyncInit, ProcsOK, Busy
<1>4. EntriesOK
  BY DEF SyncInit, EntriesOK, NoJob
<1>5. Pooled
  BY DEF SyncInit, Pooled, Busy, Procs
<1>6. launches \in 0 .. MaxLaunches
  BY SyncAssumption DEF SyncInit
<1> QED  BY <1>1, <1>2, <1>3, <1>4, <1>5, <1>6 DEF SyncInv

LEMMA FixedBuilt ==
  ASSUME Built, UNCHANGED <<setup, accounts>>
  PROVE  Built'
BY DEF Built, Names, Kind

LEMMA LaunchKeeps ==
  ASSUME SyncInv, NEW request \in setup.requests, NEW requested \in Concurrencies,
         NEW failFast \in BOOLEAN, Launch(request, requested, failFast)
  PROVE  SyncInv'
<1>1. /\ Built /\ JobOK /\ ProcsOK /\ EntriesOK /\ Pooled /\ launches \in 0 .. MaxLaunches
  BY DEF SyncInv
<1>2. UNCHANGED <<setup, accounts, manual, proc>> /\ launches' = launches + 1 /\ launches < MaxLaunches
      /\ job.phase = "idle"
  BY DEF Launch, fixed
<1>3. PICK names : names = Selected(setup, request)
  OBVIOUS
<1>4. PICK pool : pool = IF failFast THEN 1 ELSE ResolveConcurrency(Len(names), requested)
  OBVIOUS
<1>5. job' = [phase |-> "running", names |-> names, asked |-> requested, failFast |-> failFast,
              pool |-> pool, next |-> 1]
      /\ slots' = [i \in DOMAIN names |-> Empty]
  BY <1>3, <1>4 DEF Launch
<1>6. names \in Seq(Names) /\ requested \in Nat
  BY <1>1, <1>3, BuiltAccounts, SyncAssumption
<1>7. Len(names) \in Nat /\ DOMAIN names = 1 .. Len(names)
  BY <1>6
<1>8. pool \in Nat
  <2>1. PICK k : k = Len(names)
    OBVIOUS
  <2>2. k \in Nat
    BY <1>7, <2>1
  <2> QED  BY <1>4, <1>6, <2>1, <2>2 DEF ResolveConcurrency, Smaller
<1>9. Names' = Names
  BY <1>2, SameNames
<1>10. Built'
  BY <1>1, <1>2, FixedBuilt
<1>11. JobOK'
  <2>1. job' \in Jobs
    BY <1>5, <1>6, <1>8 DEF Jobs
  <2>2. job'.next \in 1 .. Len(job'.names) + 1
    BY <1>5, <1>7
  <2>3. Jobs' = Jobs
    BY <1>9 DEF Jobs
  <2> QED  BY <2>1, <2>2, <2>3 DEF JobOK
<1>12. ProcsOK'
  <2>1. \A n : Authorised(n) => Authorised(n)'
    BY <1>2, AuthorisedKept
  <2> QED  BY <1>1, <1>2, <1>9, <2>1 DEF ProcsOK, Busy
<1>13. EntriesOK'
  <2>1. DOMAIN slots' = 1 .. Len(job'.names) /\ \A i \in DOMAIN slots' : slots'[i] = Empty
    BY <1>5, <1>7
  <2>2. slots' \in [DOMAIN slots' -> Entries(Names) \union {Empty}]
    BY <1>5
  <2> QED  BY <1>1, <1>2, <1>9, <2>1, <2>2 DEF EntriesOK
<1>14. Pooled'
  <2>1. \A v \in Workers : ~Busy(v)'
    BY <1>1, <1>2 DEF Pooled, Busy
  <2>2. \A i \in DOMAIN slots' : slots'[i] = Empty
    BY <1>5
  <2> QED  BY <2>1, <2>2, QuietPool
<1>15. launches' \in 0 .. MaxLaunches
  BY <1>1, <1>2, SyncAssumption
<1> QED  BY <1>10, <1>11, <1>12, <1>13, <1>14, <1>15 DEF SyncInv

LEMMA LaunchManualKeeps ==
  ASSUME SyncInv, NEW n \in setup.others, LaunchManual(n)
  PROVE  SyncInv'
<1>1. /\ Built /\ JobOK /\ ProcsOK /\ EntriesOK /\ Pooled /\ launches \in 0 .. MaxLaunches
  BY DEF SyncInv
<1>2. UNCHANGED <<setup, accounts, job, slots, manual>> /\ launches' = launches + 1 /\ launches < MaxLaunches
      /\ proc' = [proc EXCEPT ![Cli] = NewPass(n, 1)]
  BY DEF LaunchManual, fixed
<1>3. n \in Names /\ Cli \in Procs
  BY <1>1, BuiltAccounts, WorkersFacts DEF ScenarioOK, Names
<1>4. ProcsOK'
  BY <1>1, <1>2, <1>3, StartKeepsProcs
<1>5. Pooled'
  BY <1>1, <1>2, OtherKeepsPool
<1>6. EntriesOK'
  BY <1>1, <1>2, EntriesSame
<1>7. JobOK'
  BY <1>1, <1>2, SameNames DEF JobOK, Jobs
<1>8. launches' \in 0 .. MaxLaunches
  BY <1>1, <1>2, SyncAssumption
<1> QED  BY <1>1, <1>2, <1>4, <1>5, <1>6, <1>7, <1>8, FixedBuilt DEF SyncInv

LEMMA ClaimKeeps ==
  ASSUME SyncInv, NEW v \in Workers, Claim(v)
  PROVE  SyncInv'
<1>1. /\ Built /\ JobOK /\ ProcsOK /\ EntriesOK /\ Pooled /\ launches \in 0 .. MaxLaunches
  BY DEF SyncInv
<1>2. PICK k : k = job.next
  OBVIOUS
<1>3. UNCHANGED <<setup, accounts, slots, manual, launches>> /\ k <= Len(job.names)
      /\ proc' = [proc EXCEPT ![v] = NewPass(job.names[k], k)] /\ job' = [job EXCEPT !.next = k + 1]
  BY <1>2 DEF Claim, fixed
<1>4. job.names \in Seq(Names) /\ Len(job.names) \in Nat /\ k \in 1 .. Len(job.names)
  BY <1>1, <1>2, <1>3 DEF JobOK, Jobs
<1>5. job.names[k] \in Names /\ k \in Nat /\ k + 1 \in 1 .. Len(job.names) + 1 /\ v \in Procs
  BY <1>4, WorkersFacts
<1>6. ProcsOK'
  BY <1>1, <1>3, <1>5, StartKeepsProcs
<1>7. JobOK' /\ job'.names = job.names
  BY <1>1, <1>3, <1>5, NextOnly
<1>8. EntriesOK'
  BY <1>1, <1>3, <1>7, EntriesSame
<1>9. Pooled'
  BY <1>1, ClaimKeepsPool
<1> QED  BY <1>1, <1>3, <1>6, <1>7, <1>8, <1>9, FixedBuilt DEF SyncInv

LEMMA StepKeeps ==
  ASSUME SyncInv, NEW p \in Procs, Step(p)
  PROVE  SyncInv'
<1>1. /\ Built /\ JobOK /\ ProcsOK /\ EntriesOK /\ Pooled /\ launches \in 0 .. MaxLaunches
  BY DEF SyncInv
<1>2. Busy(p) /\ (PassMoves(p) \/ Ends(p)) /\ UNCHANGED <<setup, accounts, launches>>
  BY <1>1, StepMovesOrEnds
<1>3. CASE PassMoves(p)
  <2>1. UNCHANGED <<job, slots, manual>>
    BY <1>3 DEF PassMoves
  <2>2. ProcsOK' /\ Pooled'
    BY <1>1, <1>2, <1>3, MovesKeepsProcs, MovesKeepsPool
  <2>3. EntriesOK'
    BY <1>1, <1>2, <2>1, EntriesSame
  <2>4. JobOK'
    BY <1>1, <1>2, <2>1, SameNames DEF JobOK, Jobs
  <2> QED  BY <1>1, <1>2, <2>2, <2>3, <2>4, FixedBuilt DEF SyncInv
<1>4. CASE Ends(p)
  <2>1. ProcsOK'
    BY <1>1, <1>2, <1>4, EndsKeepsProcs
  <2>2. EntriesOK' /\ JobOK' /\ Pooled'
    BY <1>1, <1>2, <1>4, SettleKeepsEntries, SettleKeepsPool
  <2> QED  BY <1>1, <1>2, <2>1, <2>2, FixedBuilt DEF SyncInv
<1> QED  BY <1>2, <1>3, <1>4

LEMMA CrashKeepsProcs ==
  ASSUME ProcsOK, UNCHANGED <<setup, accounts>>, NEW killed \in SUBSET Procs,
         proc' = [p \in Procs |-> IF p \in killed THEN Idle ELSE proc[p]]
  PROVE  ProcsOK'
<1>1. Names' = Names
  BY SameNames
<1>2. proc' \in [Procs -> Passes(Names) \union {Idle}]
  BY DEF ProcsOK
<1>3. \A p \in Procs : Busy(p)' => Busy(p) /\ proc'[p] = proc[p]
  BY DEF Busy
<1>4. \A n : Authorised(n) => Authorised(n)'
  BY AuthorisedKept
<1> QED  BY <1>1, <1>2, <1>3, <1>4 DEF ProcsOK

LEMMA OtherStepKeeps ==
  ASSUME SyncInv, Report \/ CrashBulk \/ CrashManual \/ Tick
  PROVE  SyncInv'
<1>1. /\ Built /\ JobOK /\ ProcsOK /\ EntriesOK /\ Pooled /\ launches \in 0 .. MaxLaunches
  BY DEF SyncInv
<1>2. UNCHANGED <<setup, accounts, manual, launches>> /\ Names' = Names
  BY SameNames DEF Report, CrashBulk, CrashManual, Tick, fixed
<1>3. Built'
  BY <1>1, <1>2, FixedBuilt
<1>4. Cli \in Procs
  BY WorkersFacts
<1>5. CASE Report
  <2>1. UNCHANGED <<slots, proc>> /\ job' = [job EXCEPT !.phase = "idle"]
    BY <1>5 DEF Report
  <2>2. JobOK' /\ job'.names = job.names
    BY <1>1, <1>2, <2>1, PhaseOnly
  <2>3. EntriesOK'
    BY <1>1, <1>2, <2>1, <2>2, EntriesSame
  <2>4. Pooled'
    BY <1>1, <1>2, <1>5, ReportKeepsPool
  <2>5. \A n : Authorised(n) => Authorised(n)'
    BY <1>2, AuthorisedKept
  <2>6. ProcsOK'
    BY <1>1, <1>2, <2>1, <2>5 DEF ProcsOK, Busy
  <2> QED  BY <1>1, <1>2, <1>3, <2>2, <2>3, <2>4, <2>6 DEF SyncInv
<1>6. CASE CrashBulk
  <2>1. job' = NoJob /\ slots' = <<>> /\ proc' = [p \in Procs |-> IF p = Cli THEN proc[p] ELSE Idle]
    BY <1>6 DEF CrashBulk
  <2>2. proc' = [p \in Procs |-> IF p \in Procs \ {Cli} THEN Idle ELSE proc[p]]
    BY <2>1
  <2>3. ProcsOK'
    BY <1>1, <1>2, <2>2, CrashKeepsProcs
  <2>4. JobOK'
    BY <1>2, <2>1 DEF JobOK, Jobs, NoJob
  <2>5. EntriesOK'
    BY <1>1, <1>2, <2>1 DEF EntriesOK, NoJob
  <2>6. \A v \in Workers : ~Busy(v)'
    BY <2>1, WorkersFacts DEF Busy
  <2>7. Pooled'
    BY <2>1, <2>6, QuietPool
  <2> QED  BY <1>1, <1>2, <1>3, <2>3, <2>4, <2>5, <2>7 DEF SyncInv
<1>7. CASE CrashManual
  <2>1. UNCHANGED <<job, slots>> /\ proc' = [proc EXCEPT ![Cli] = Idle]
    BY <1>7 DEF CrashManual
  <2>2. ProcsOK'
    BY <1>1, <1>2, <1>4, <2>1, ProcsKept
  <2>3. Pooled'
    BY <1>1, <2>1, OtherKeepsPool
  <2>4. EntriesOK'
    BY <1>1, <1>2, <2>1, EntriesSame
  <2>5. JobOK'
    BY <1>1, <1>2, <2>1 DEF JobOK, Jobs
  <2> QED  BY <1>1, <1>2, <1>3, <2>2, <2>3, <2>4, <2>5 DEF SyncInv
<1>8. CASE Tick
  <2>1. UNCHANGED <<job, slots, proc>>
    BY <1>8 DEF Tick
  <2>2. \A n : Authorised(n) => Authorised(n)'
    BY <1>2, AuthorisedKept
  <2>3. ProcsOK' /\ Pooled'
    BY <1>1, <1>2, <2>1, <2>2 DEF ProcsOK, Pooled, Busy
  <2>4. EntriesOK'
    BY <1>1, <1>2, <2>1, EntriesSame
  <2>5. JobOK'
    BY <1>1, <1>2, <2>1 DEF JobOK, Jobs
  <2> QED  BY <1>1, <1>2, <1>3, <2>3, <2>4, <2>5 DEF SyncInv
<1> QED  BY <1>5, <1>6, <1>7, <1>8

LEMMA StutterKeeps ==
  ASSUME SyncInv, UNCHANGED syncVars
  PROVE  SyncInv'
<1>1. /\ Built /\ JobOK /\ ProcsOK /\ EntriesOK /\ Pooled /\ launches \in 0 .. MaxLaunches
      /\ UNCHANGED <<setup, accounts, job, slots, manual, proc, launches>>
  BY DEF SyncInv, syncVars
<1>2. Names' = Names /\ \A n : Authorised(n) => Authorised(n)'
  BY <1>1, SameNames, AuthorisedKept
<1>3. Built'
  BY <1>1, FixedBuilt
<1>4. ProcsOK' /\ Pooled'
  BY <1>1, <1>2 DEF ProcsOK, Pooled, Busy
<1>5. EntriesOK'
  BY <1>1, EntriesSame
<1>6. JobOK'
  BY <1>1, <1>2 DEF JobOK, Jobs
<1> QED  BY <1>1, <1>3, <1>4, <1>5, <1>6 DEF SyncInv

\* The invariant of the composed loops: where a pass is, what it has read and
\* counted there, who claimed what, and what its entry says.
THEOREM SyncInvariant == SyncSpec => []SyncInv
<1>1. SyncInit => SyncInv
  BY SyncStarts
<1>2. SyncInv /\ [SyncNext]_syncVars => SyncInv'
  BY LaunchKeeps, LaunchManualKeeps, ClaimKeeps, StepKeeps, OtherStepKeeps, StutterKeeps DEF SyncNext
<1> QED  BY <1>1, <1>2, PTL DEF SyncSpec

-----------------------------------------------------------------------------
(* What the invariant says of the entries, in the terms of their reader.      *)
LEMMA SettledFacts ==
  ASSUME SyncInv, NEW e \in Settled
  PROVE  /\ e \in Entries(Names) /\ e.name \in Names /\ EntryAt(e, setup, accounts)
         /\ AccountsOK(setup.kind[e.name], accounts[e.name])
<1>1. EntriesOK /\ Built
  BY DEF SyncInv
<1>2. e \in Entries(Names) /\ EntryAt(e, setup, accounts)
  BY <1>1 DEF EntriesOK, Settled
<1>3. e.name \in Names
  BY <1>2 DEF Entries
<1> QED  BY <1>1, <1>2, <1>3, BuiltAccounts DEF Kind

ScopeIs(e, n, w, d) ==
  /\ \A s : s \in Scope(e.name) <=> \E i \in 1 .. n : \E j \in 1 .. w[i] : s = <<i, j>>
  /\ \A i \in 1 .. n : \A j \in 1 .. w[i] : <<i, j>> \in WholeUnits(e) <=> IsWhole(e.read, d, i, j)

LEMMA ScopeOf ==
  ASSUME NEW e, NEW as, as = accounts[e.name], NEW n, n = Len(as), NEW w, w = WidthOf(as),
         NEW d, d = DepthOf(as), NEW kind, AccountsOK(kind, as)
  PROVE  ScopeIs(e, n, w, d)
<1>1. /\ DOMAIN as = 1 .. n
      /\ \A i \in 1 .. n : /\ DOMAIN as[i].units = 1 .. w[i]
                           /\ \A j \in 1 .. w[i] : DOMAIN Items(as[i].units[j]) = 1 .. d[i][j]
  BY AccountsGrid DEF GridOf
<1>2. \A s : s \in Scope(e.name) <=> \E i \in 1 .. n : \E j \in 1 .. w[i] : s = <<i, j>>
  <2>1. Scope(e.name) = UNION {{<<i, j>> : j \in DOMAIN as[i].units} : i \in DOMAIN as}
    BY DEF Scope
  <2>2. \A s : s \in Scope(e.name) <=> \E i \in DOMAIN as : \E j \in DOMAIN as[i].units : s = <<i, j>>
    BY <2>1
  <2>3. \A i \in 1 .. n : i \in DOMAIN as /\ DOMAIN as[i].units = 1 .. w[i]
    BY <1>1
  <2> TAKE s
  <2>4. ASSUME s \in Scope(e.name) PROVE \E i \in 1 .. n : \E j \in 1 .. w[i] : s = <<i, j>>
    <3>1. PICK i \in DOMAIN as : \E j \in DOMAIN as[i].units : s = <<i, j>>
      BY <2>2, <2>4
    <3>2. i \in 1 .. n /\ DOMAIN as[i].units = 1 .. w[i]
      BY <1>1
    <3> QED  BY <3>1, <3>2
  <2>5. ASSUME NEW i \in 1 .. n, NEW j \in 1 .. w[i], s = <<i, j>> PROVE s \in Scope(e.name)
    BY <2>2, <2>3, <2>5
  <2> QED  BY <2>4, <2>5
<1>3. ASSUME NEW i \in 1 .. n, NEW j \in 1 .. w[i]
      PROVE  <<i, j>> \in WholeUnits(e) <=> IsWhole(e.read, d, i, j)
  <2>1. PICK s : s = <<i, j>>
    OBVIOUS
  <2>2. s \in Scope(e.name) /\ s[1] = i /\ s[2] = j
    BY <1>2, <2>1
  <2>3. UnitOf(e, s) = as[i].units[j]
    BY <2>2 DEF UnitOf
  <2>4. DOMAIN Items(UnitOf(e, s)) = 1 .. d[i][j]
    BY <1>1, <2>3
  <2>5. s \in WholeUnits(e) <=> \A k \in DOMAIN Items(UnitOf(e, s)) : <<s[1], s[2], k>> \in e.read
    BY <2>2 DEF WholeUnits
  <2> QED  BY <2>1, <2>2, <2>4, <2>5 DEF IsWhole
<1> QED  BY <1>2, <1>3 DEF ScopeIs

LEMMA WholeInScope == \A e : WholeUnits(e) \subseteq Scope(e.name)
BY DEF WholeUnits

LEMMA InvOutcome == SyncInv => OutcomeHonest
<1> SUFFICES ASSUME SyncInv, NEW e \in Settled
             PROVE  /\ Kind(e.name) # "local" => (e.ok => WholeUnits(e) = Scope(e.name))
                    /\ ~e.ok /\ ~e.thrown =>
                         Vacant(e.name) \/ WholeUnits(e) \notin {{}, Scope(e.name)}
                    /\ e.thrown => \/ WholeUnits(e) = {}
                                   \/ Kind(e.name) = "web" /\ WholeUnits(e) # Scope(e.name)
  BY DEF OutcomeHonest
<1>1. PICK as, kind : as = accounts[e.name] /\ kind = setup.kind[e.name]
  OBVIOUS
<1>2. PICK n, w, d : n = Len(as) /\ w = WidthOf(as) /\ d = DepthOf(as)
  OBVIOUS
<1>3. AccountsOK(kind, as) /\ Kind(e.name) = kind /\ Told(e, kind, n, w, d) /\ e \in Entries(Names)
  BY <1>1, <1>2, SettledFacts DEF Kind, EntryAt
<1>4. /\ \A s : s \in Scope(e.name) <=> \E i \in 1 .. n : \E j \in 1 .. w[i] : s = <<i, j>>
      /\ \A i \in 1 .. n : \A j \in 1 .. w[i] : <<i, j>> \in WholeUnits(e) <=> IsWhole(e.read, d, i, j)
  <2>1. ScopeIs(e, n, w, d)
    BY <1>1, <1>2, <1>3, ScopeOf
  <2> QED  BY <2>1 DEF ScopeIs
<1>5. AllRead(e.read, n, w, d) <=> WholeUnits(e) = Scope(e.name)
  <2>1. ASSUME AllRead(e.read, n, w, d) PROVE Scope(e.name) \subseteq WholeUnits(e)
    <3> SUFFICES ASSUME NEW s \in Scope(e.name) PROVE s \in WholeUnits(e)
      OBVIOUS
    <3>1. PICK i \in 1 .. n : \E j \in 1 .. w[i] : s = <<i, j>>
      BY <1>4
    <3>2. PICK j \in 1 .. w[i] : s = <<i, j>>
      BY <3>1
    <3> QED  BY <1>4, <2>1, <3>2 DEF AllRead
  <2>2. ASSUME WholeUnits(e) = Scope(e.name) PROVE AllRead(e.read, n, w, d)
    <3> SUFFICES ASSUME NEW i \in 1 .. n, NEW j \in 1 .. w[i] PROVE IsWhole(e.read, d, i, j)
      BY DEF AllRead
    <3>1. <<i, j>> \in Scope(e.name)
      BY <1>4
    <3> QED  BY <1>4, <2>2, <3>1
  <2> QED  BY <2>1, <2>2, WholeInScope
<1>6. NoneRead(e.read, n, w, d) <=> WholeUnits(e) = {}
  <2>1. ASSUME NoneRead(e.read, n, w, d), NEW s \in WholeUnits(e) PROVE FALSE
    <3>1. PICK i \in 1 .. n : \E j \in 1 .. w[i] : s = <<i, j>>
      BY <1>4, WholeInScope
    <3>2. PICK j \in 1 .. w[i] : s = <<i, j>>
      BY <3>1
    <3> QED  BY <1>4, <2>1, <3>2 DEF NoneRead
  <2>2. ASSUME WholeUnits(e) = {} PROVE NoneRead(e.read, n, w, d)
    BY <1>4, <2>2 DEF NoneRead
  <2> QED  BY <2>1, <2>2
<1>7. NoUnits(n, w) => Vacant(e.name)
  <2>1. DOMAIN as = 1 .. n /\ \A i \in 1 .. n : w[i] = Len(as[i].units)
    BY <1>2, <1>3, AccountsGrid DEF GridOf
  <2> QED  BY <1>1, <2>1 DEF NoUnits, Vacant
<1> QED  BY <1>3, <1>5, <1>6, <1>7 DEF Told, Entries

LEMMA InvClaimed == SyncInv => ClaimedOnce
<1> SUFFICES ASSUME SyncInv PROVE ClaimedOnce
  OBVIOUS
<1>1. Pooled /\ JobOK
  BY DEF SyncInv
<1>2. job.phase = "running" => Cardinality({v \in Workers : Busy(v)}) <= job.pool
  <2>1. PICK pool, busy : pool = job.pool /\ busy = {v \in Workers : Busy(v)}
    OBVIOUS
  <2>2. pool \in Nat
    BY <1>1, <2>1 DEF JobOK, Jobs
  <2>3. busy \subseteq 1 .. pool
    BY <1>1, <2>1, <2>2, WorkersFacts DEF Pooled
  <2>4. IsFiniteSet(1 .. pool) /\ Cardinality(1 .. pool) = pool
    <3>1. IsFiniteSet(1 .. pool)
          /\ Cardinality(1 .. pool) = IF 1 > pool THEN 0 ELSE pool - 1 + 1
      BY <2>2, FS_Interval
    <3> QED  BY <2>2, <3>1
  <2>5. Cardinality(busy) <= Cardinality(1 .. pool)
    BY <2>3, <2>4, FS_Subset
  <2> QED  BY <2>1, <2>4, <2>5
<1> QED  BY <1>1, <1>2 DEF Pooled, ClaimedOnce

-----------------------------------------------------------------------------
(* What was read is in the store.                                             *)

\* A page of the accounts, and its copy in the store.
OfPlace(name, r) == /\ r[1] \in DOMAIN accounts[name]
                   /\ r[2] \in DOMAIN accounts[name][r[1]].units
StoredAs(name, a, u, x) ==
  /\ ExternalId(name, a, u, x) \in DOMAIN store
  /\ store[ExternalId(name, a, u, x)] = Copy(name, a, u, x)
InStore(name, r) ==
  LET a == accounts[name][r[1]]
      u == accounts[name][r[1]].units[r[2]]
  IN StoredAs(name, a, u, Items(u)[r[3]])
Kept(name, read) == name \in Names /\ \A r \in read : OfPlace(name, r) /\ InStore(name, r)
StoreInv ==
  /\ \A p \in Procs : Busy(p) => Kept(proc[p].name, proc[p].read)
  /\ \A i \in DOMAIN slots : slots[i] # Empty => Kept(slots[i].name, slots[i].read)
  /\ manual # Empty => Kept(manual.name, manual.read)

\* One id, one copy.
PageOf(m, a, u) ==
  /\ m \in Names
  /\ \E i \in DOMAIN accounts[m] :
       a = accounts[m][i] /\ \E j \in DOMAIN accounts[m][i].units : u = accounts[m][i].units[j]

LEMMA SameIdSameCopy ==
  ASSUME Built, NEW m1, NEW m2, NEW a1, NEW a2, NEW u1, NEW u2, NEW x1, NEW x2,
         PageOf(m1, a1, u1), PageOf(m2, a2, u2),
         ExternalId(m1, a1, u1, x1) = ExternalId(m2, a2, u2, x2)
  PROVE  Copy(m1, a1, u1, x1) = Copy(m2, a2, u2, x2)
<1> m1 \in Names /\ m2 \in Names
  BY DEF PageOf
<1> PICK i1 \in DOMAIN accounts[m1] :
      a1 = accounts[m1][i1] /\ \E j \in DOMAIN accounts[m1][i1].units : u1 = accounts[m1][i1].units[j]
  BY DEF PageOf
<1> PICK i2 \in DOMAIN accounts[m2] :
      a2 = accounts[m2][i2] /\ \E j \in DOMAIN accounts[m2][i2].units : u2 = accounts[m2][i2].units[j]
  BY DEF PageOf
<1> PICK j1 \in DOMAIN accounts[m1][i1].units : u1 = accounts[m1][i1].units[j1]
  OBVIOUS
<1> PICK j2 \in DOMAIN accounts[m2][i2].units : u2 = accounts[m2][i2].units[j2]
  OBVIOUS
<1> DEFINE kind == Kind(m1)
<1>1. \A m \in Names : Kind(m) \in Kinds
  BY BuiltAccounts DEF ScenarioOK, Names, Kind
<1>2. m1 = m2
  BY <1>1 DEF ExternalId, GoogleId, GraphId, BoxId, NotionId, PlaceId, Kinds
<1>3. AccountsOK(kind, accounts[m1]) /\ kind \in Kinds
  BY <1>1, BuiltAccounts
<1>4. a1.name # None /\ a2.name # None /\ (a1.name = a2.name => i1 = i2)
  BY <1>2, <1>3 DEF AccountsOK
<1>5. AccountPrefix(a1) = AccountPrefix(a2) => i1 = i2
  BY <1>4 DEF AccountPrefix
<1>6. CASE kind = "google"
  <2>1. GoogleId(m1, a1, u1, x1) = GoogleId(m2, a2, u2, x2)
    BY <1>2, <1>6 DEF ExternalId
  <2>2. AccountPrefix(a1) = AccountPrefix(a2) /\ u1.resource = u2.resource
        /\ u1.namespace = u2.namespace /\ x1 = x2
    BY <2>1 DEF GoogleId
  <2>3. i1 = i2 /\ a1 = a2
    BY <1>2, <1>5, <2>2
  <2>4. u1.calendar = u2.calendar
    BY <1>2, <1>3, <2>2, <2>3 DEF AccountsOK
  <2> QED  BY <1>2, <2>2, <2>3, <2>4 DEF Copy
<1>7. CASE kind = "ms-graph"
  <2>1. GraphId(m1, a1, u1, x1) = GraphId(m2, a2, u2, x2)
    BY <1>2, <1>7 DEF ExternalId
  <2>2. AccountPrefix(a1) = AccountPrefix(a2) /\ u1.resource = u2.resource /\ x1 = x2
    BY <2>1 DEF GraphId
  <2>3. a1 = a2
    BY <1>2, <1>5, <2>2
  <2>4. u1.calendar = None /\ u2.calendar = None
    BY <1>2, <1>3, <1>7 DEF AccountsOK
  <2> QED  BY <1>2, <2>2, <2>3, <2>4 DEF Copy
<1>8. CASE kind = "box"
  BY <1>2, <1>8 DEF ExternalId, BoxId, Copy
<1>9. CASE kind = "notion"
  BY <1>2, <1>9 DEF ExternalId, NotionId, Copy
<1>10. CASE kind \in {"web", "local"}
  BY <1>2, <1>10 DEF ExternalId, PlaceId, Copy
<1> QED  BY <1>3, <1>6, <1>7, <1>8, <1>9, <1>10 DEF Kinds

\* A page is stored: of connector n, unit j of its account i.
StoresPage(n, i, j, a, u, x, id) ==
  /\ n \in Names /\ i \in DOMAIN accounts[n] /\ j \in DOMAIN accounts[n][i].units
  /\ a = accounts[n][i] /\ u = a.units[j] /\ id = ExternalId(n, a, u, x)
  /\ store' = [k \in DOMAIN store \union {id} |-> IF k = id THEN Copy(n, a, u, x) ELSE store[k]]
  /\ UNCHANGED <<setup, accounts>>

\* Nothing is lost from the store, and what a page puts there is its copy.
LEMMA StoredKept ==
  ASSUME Built, NEW m \in Names, NEW r, OfPlace(m, r), InStore(m, r),
         NEW n, NEW i, NEW j, NEW a, NEW u, NEW x, NEW id, StoresPage(n, i, j, a, u, x, id)
  PROVE  OfPlace(m, r)' /\ InStore(m, r)'
<1> /\ n \in Names /\ i \in DOMAIN accounts[n] /\ j \in DOMAIN accounts[n][i].units
    /\ a = accounts[n][i] /\ u = a.units[j] /\ id = ExternalId(n, a, u, x)
    /\ store' = [k \in DOMAIN store \union {id} |-> IF k = id THEN Copy(n, a, u, x) ELSE store[k]]
    /\ UNCHANGED <<setup, accounts>>
  BY DEF StoresPage
<1>1. PICK b, v, y : b = accounts[m][r[1]] /\ v = b.units[r[2]] /\ y = Items(v)[r[3]]
  OBVIOUS
<1>2. PICK k : k = ExternalId(m, b, v, y)
  OBVIOUS
<1>3. k \in DOMAIN store /\ store[k] = Copy(m, b, v, y)
  BY <1>1, <1>2 DEF InStore, StoredAs
<1>4. k = id => Copy(m, b, v, y) = Copy(n, a, u, x)
  <2> SUFFICES ASSUME k = id PROVE Copy(m, b, v, y) = Copy(n, a, u, x)
    OBVIOUS
  <2>1. PICK i1, j1 : i1 = r[1] /\ j1 = r[2]
    OBVIOUS
  <2>2. i1 \in DOMAIN accounts[m] /\ j1 \in DOMAIN accounts[m][i1].units
        /\ b = accounts[m][i1] /\ v = b.units[j1]
    BY <1>1, <2>1 DEF OfPlace
  <2>3. ExternalId(m, b, v, y) = ExternalId(n, a, u, x)
    BY <1>2
  <2>4. PageOf(m, b, v)
    BY <2>2 DEF PageOf
  <2>5. PageOf(n, a, u)
    BY DEF PageOf
  <2> QED  BY ONLY Built, <2>3, <2>4, <2>5, SameIdSameCopy
<1>5. k \in DOMAIN store' /\ store'[k] = Copy(m, b, v, y)
  BY <1>3, <1>4
<1>6. /\ ExternalId(m, b, v, y)' = ExternalId(m, b, v, y) /\ Copy(m, b, v, y)' = Copy(m, b, v, y)
  BY DEF ExternalId, Copy, Kind, GoogleId, GraphId, BoxId, NotionId, PlaceId
<1>7. InStore(m, r)'
  BY <1>1, <1>2, <1>5, <1>6 DEF InStore, StoredAs
<1> QED  BY <1>7 DEF OfPlace

LEMMA PageStored ==
  ASSUME NEW r, NEW n, NEW i, NEW j, NEW a, NEW u, NEW x, NEW id, StoresPage(n, i, j, a, u, x, id),
         r[1] = i, r[2] = j, x = Items(u)[r[3]]
  PROVE  OfPlace(n, r)' /\ InStore(n, r)'
<1> /\ n \in Names /\ i \in DOMAIN accounts[n] /\ j \in DOMAIN accounts[n][i].units
    /\ a = accounts[n][i] /\ u = a.units[j] /\ id = ExternalId(n, a, u, x)
    /\ store' = [k \in DOMAIN store \union {id} |-> IF k = id THEN Copy(n, a, u, x) ELSE store[k]]
    /\ UNCHANGED <<setup, accounts>>
  BY DEF StoresPage
<1>1. id \in DOMAIN store' /\ store'[id] = Copy(n, a, u, x)
  OBVIOUS
<1>2. /\ ExternalId(n, a, u, x)' = ExternalId(n, a, u, x) /\ Copy(n, a, u, x)' = Copy(n, a, u, x)
  BY DEF ExternalId, Copy, Kind, GoogleId, GraphId, BoxId, NotionId, PlaceId
<1>3. InStore(n, r)'
  BY <1>1, <1>2 DEF InStore, StoredAs
<1> QED  BY <1>3 DEF OfPlace

\* Nothing else touches the store.
LEMMA KeptSame ==
  ASSUME UNCHANGED <<setup, accounts, store>>, NEW m, NEW read, Kept(m, read)
  PROVE  Kept(m, read)'
<1>1. \A b, v, y : /\ ExternalId(m, b, v, y)' = ExternalId(m, b, v, y)
                   /\ Copy(m, b, v, y)' = Copy(m, b, v, y)
  BY DEF ExternalId, Copy, Kind, GoogleId, GraphId, BoxId, NotionId, PlaceId
<1>2. \A r \in read : InStore(m, r)'
  BY <1>1 DEF Kept, InStore, StoredAs
<1> QED  BY <1>2 DEF Kept, OfPlace, Names

\* What a step does not touch, or adds to, stays kept.
KeepsKept == \A m, read : Kept(m, read) => Kept(m, read)'

LEMMA FetchStores ==
  ASSUME Built, ProcsOK, UNCHANGED <<setup, accounts>>, NEW p \in Procs, FetchPage(p),
         NEW r, r = <<proc[p].acct, proc[p].unit, proc[p].page>>, NEW n, n = proc[p].name
  PROVE  KeepsKept /\ OfPlace(n, r)' /\ InStore(n, r)'
<1>1. PICK i, j : i = proc[p].acct /\ j = proc[p].unit
  OBVIOUS
<1>2. PICK a, u : a = accounts[n][i] /\ u = a.units[j]
  OBVIOUS
<1>3. PICK x, id : x = Items(u)[r[3]] /\ id = ExternalId(n, a, u, x)
  OBVIOUS
<1>4. Account(p) = a /\ UnitAt(p) = u /\ r[1] = i /\ r[2] = j /\ r[3] = proc[p].page
  BY <1>1, <1>2 DEF Account, UnitAt, UnitsOf
<1>5. store' = [k \in DOMAIN store \union {id} |-> IF k = id THEN Copy(n, a, u, x) ELSE store[k]]
  BY <1>1, <1>3, <1>4 DEF FetchPage
<1>6. n \in Names /\ i \in DOMAIN accounts[n] /\ j \in DOMAIN accounts[n][i].units
  <2>1. Busy(p) /\ i \in 1 .. Len(accounts[n]) /\ j \in 1 .. Len(accounts[n][i].units)
    BY <1>1, <1>2, <1>4 DEF FetchPage, Scanning, In, UnitsOf
  <2>2. n \in Names /\ AccountsOK(setup.kind[n], accounts[n])
    BY <1>1, <2>1, BusyFacts
  <2>3. i \in DOMAIN accounts[n]
    BY <2>1, <2>2 DEF AccountsOK, IsSequence
  <2>4. IsSequence(accounts[n][i].units)
    BY <2>2, <2>3 DEF AccountsOK
  <2> QED  BY <2>1, <2>2, <2>3, <2>4 DEF IsSequence
<1>6a. StoresPage(n, i, j, a, u, x, id)
  BY <1>2, <1>3, <1>5, <1>6 DEF StoresPage
<1>7. ASSUME NEW m, NEW read, Kept(m, read) PROVE Kept(m, read)'
  <2>1. m \in Names /\ \A s \in read : OfPlace(m, s) /\ InStore(m, s)
    BY <1>7 DEF Kept
  <2>2. ASSUME NEW s \in read PROVE OfPlace(m, s)' /\ InStore(m, s)'
    <3>1. OfPlace(m, s) /\ InStore(m, s)
      BY <2>1
    <3> QED  BY ONLY Built, <1>6a, <2>1, <3>1, StoredKept
  <2> QED  BY <2>1, <2>2, SameNames DEF Kept
<1>8. OfPlace(n, r)' /\ InStore(n, r)'
  <2>1. r[1] = i /\ r[2] = j /\ x = Items(u)[r[3]]
    BY <1>3, <1>4
  <2> QED  BY ONLY <1>6a, <2>1, PageStored
<1> QED  BY <1>7, <1>8 DEF KeepsKept

LEMMA SameStores ==
  ASSUME UNCHANGED <<setup, accounts, store>>
  PROVE  KeepsKept
BY KeptSame DEF KeepsKept

\* Passes and entries that stay as they are, and a new pass.
LEMMA ProcKept ==
  ASSUME ProcsOK, StoreInv, KeepsKept, NEW p \in Procs, NEW Q, proc' = [proc EXCEPT ![p] = Q],
         Q # Idle => Kept(Q.name, Q.read)'
  PROVE  \A q \in Procs : Busy(q)' => Kept(proc[q].name, proc[q].read)'
<1> SUFFICES ASSUME NEW q \in Procs, Busy(q)'
             PROVE  Kept(proc[q].name, proc[q].read)'
  OBVIOUS
<1>1. CASE q = p
  <2>1. proc'[q] = Q /\ Q # Idle
    BY <1>1 DEF ProcsOK, Busy
  <2> QED  BY <2>1
<1>2. CASE q # p
  <2>1. proc'[q] = proc[q] /\ Busy(q)
    BY <1>2 DEF ProcsOK, Busy
  <2> QED  BY <2>1 DEF StoreInv, KeepsKept
<1> QED  BY <1>1, <1>2

LEMMA MovesStores ==
  ASSUME SyncInv, StoreInv, UNCHANGED <<setup, accounts>>, NEW p \in Procs, Busy(p), PassMoves(p)
  PROVE  StoreInv'
<1>1. Built /\ ProcsOK
  BY DEF SyncInv
<1>2. PICK Q \in Passes(Names) :
        /\ proc' = [proc EXCEPT ![p] = Q] /\ Q.name = proc[p].name
        /\ \/ Q.read = proc[p].read /\ UNCHANGED store
           \/ FetchPage(p) /\ Q.read = proc[p].read \union {<<proc[p].acct, proc[p].unit, proc[p].page>>}
  BY DEF PassMoves
<1>3. PICK n, read, r : n = proc[p].name /\ read = proc[p].read
                        /\ r = <<proc[p].acct, proc[p].unit, proc[p].page>>
  OBVIOUS
<1>4. Kept(n, read)
  BY <1>3 DEF StoreInv
<1>5. KeepsKept /\ Kept(Q.name, Q.read)'
  <2>1. CASE Q.read = read /\ UNCHANGED store
    <3>1. KeepsKept
      BY <2>1, SameStores
    <3> QED  BY <1>2, <1>3, <1>4, <2>1, <3>1 DEF KeepsKept
  <2>2. CASE FetchPage(p) /\ Q.read = read \union {r}
    <3>1. KeepsKept /\ OfPlace(n, r)' /\ InStore(n, r)'
      BY <1>1, <1>3, <2>2, FetchStores
    <3>2. Kept(n, read)'
      BY <1>4, <3>1 DEF KeepsKept
    <3>3. Kept(n, read \union {r})'
      BY <3>1, <3>2 DEF Kept
    <3> QED  BY <1>2, <1>3, <2>2, <3>1, <3>3
  <2> QED  BY <1>2, <1>3, <2>1, <2>2
<1>6. \A q \in Procs : Busy(q)' => Kept(proc[q].name, proc[q].read)'
  BY <1>1, <1>2, <1>5, ProcKept
<1>7. slots' = slots /\ manual' = manual
  BY DEF PassMoves
<1> QED  BY <1>5, <1>6, <1>7 DEF StoreInv, KeepsKept

LEMMA EndsStores ==
  ASSUME SyncInv, StoreInv, UNCHANGED <<setup, accounts>>, NEW p \in Procs, Busy(p), Ends(p)
  PROVE  StoreInv'
<1>1. ProcsOK /\ EntriesOK
  BY DEF SyncInv
<1>2. PICK ok \in BOOLEAN, thrown \in BOOLEAN : Settle(p, Entry(p, ok, thrown)) /\ UNCHANGED store
  BY DEF Ends
<1>3. PICK e : e = Entry(p, ok, thrown)
  OBVIOUS
<1>4. KeepsKept
  BY <1>2, SameStores
<1>5. Kept(e.name, e.read)'
  <2>1. Kept(e.name, e.read)
    BY <1>3, EntryFields DEF StoreInv
  <2> QED  BY <1>4, <2>1 DEF KeepsKept
<1>6. \A q \in Procs : Busy(q)' => Kept(proc[q].name, proc[q].read)'
  <2>1. proc' = [proc EXCEPT ![p] = Idle]
    BY <1>2 DEF Settle
  <2> QED  BY <1>1, <1>4, <2>1, ProcKept
<1>7. CASE p = Cli
  <2>1. manual' = e /\ slots' = slots
    BY <1>2, <1>3, <1>7 DEF Settle
  <2> QED  BY <1>4, <1>5, <1>6, <2>1 DEF StoreInv, KeepsKept
<1>8. CASE p # Cli
  <2>1. PICK i : i = proc[p].index
    OBVIOUS
  <2>2. slots' = [slots EXCEPT ![i] = e] /\ manual' = manual
    BY <1>2, <1>3, <1>8, <2>1 DEF Settle
  <2>3. DOMAIN slots' = DOMAIN slots /\ \A k \in DOMAIN slots : slots'[k] = IF k = i THEN e ELSE slots[k]
    BY <1>1, <2>2 DEF EntriesOK
  <2>4. ASSUME NEW k \in DOMAIN slots', (slots[k] # Empty)' PROVE Kept(slots[k].name, slots[k].read)'
    <3>1. CASE k = i
      BY <1>5, <2>3, <2>4, <3>1
    <3>2. CASE k # i
      <4>1. slots'[k] = slots[k] /\ slots[k] # Empty /\ k \in DOMAIN slots
        BY <2>3, <2>4, <3>2
      <4> QED  BY <1>4, <4>1 DEF StoreInv, KeepsKept
    <3> QED  BY <3>1, <3>2
  <2> QED  BY <1>4, <1>6, <2>2, <2>4 DEF StoreInv, KeepsKept
<1> QED  BY <1>7, <1>8

\* A pass that begins has read nothing.
LEMMA BeginsStores ==
  ASSUME Built, ProcsOK, StoreInv, UNCHANGED <<setup, accounts, store, slots, manual>>, NEW p \in Procs,
         NEW name \in Names, NEW index \in Nat, proc' = [proc EXCEPT ![p] = NewPass(name, index)]
  PROVE  StoreInv'
<1>1. PICK Q : Q = NewPass(name, index)
  OBVIOUS
<1>2. Q.name = name /\ Q.read = {}
  BY <1>1 DEF NewPass
<1>3. KeepsKept /\ Kept(Q.name, Q.read)'
  BY <1>2, SameStores, SameNames DEF Kept
<1>4. \A q \in Procs : Busy(q)' => Kept(proc[q].name, proc[q].read)'
  BY <1>1, <1>3, ProcKept
<1> QED  BY <1>3, <1>4 DEF StoreInv, KeepsKept

\* A pass that is killed, entries that are dropped.
LEMMA LessStores ==
  ASSUME StoreInv, UNCHANGED <<setup, accounts, store, manual>>,
         \A p \in Procs : proc'[p] \in {proc[p], Idle},
         slots' = slots \/ \A i \in DOMAIN slots' : slots'[i] = Empty
  PROVE  StoreInv'
<1>1. KeepsKept
  BY SameStores
<1>2. ASSUME NEW p \in Procs, Busy(p)' PROVE Kept(proc[p].name, proc[p].read)'
  <2>1. proc'[p] = proc[p] /\ Busy(p)
    BY <1>2 DEF Busy
  <2> QED  BY <1>1, <2>1 DEF StoreInv, KeepsKept
<1>3. ASSUME NEW i \in DOMAIN slots', (slots[i] # Empty)' PROVE Kept(slots[i].name, slots[i].read)'
  <2>1. slots' = slots
    BY <1>3
  <2> QED  BY <1>1, <1>3, <2>1 DEF StoreInv, KeepsKept
<1> QED  BY <1>1, <1>2, <1>3 DEF StoreInv, KeepsKept

LEMMA StoreStep ==
  ASSUME SyncInv, StoreInv, [SyncNext]_syncVars
  PROVE  StoreInv'
<1>1. Built /\ ProcsOK /\ JobOK
  BY DEF SyncInv
<1>2. ASSUME NEW request \in setup.requests, NEW requested \in Concurrencies, NEW failFast \in BOOLEAN,
             Launch(request, requested, failFast)
      PROVE  StoreInv'
  BY <1>2, LessStores DEF Launch, fixed
<1>3. ASSUME NEW n \in setup.others, LaunchManual(n) PROVE StoreInv'
  <2>1. n \in Names /\ Cli \in Procs
    BY <1>1, BuiltAccounts, WorkersFacts DEF ScenarioOK, Names
  <2> QED  BY <1>1, <1>3, <2>1, BeginsStores DEF LaunchManual, fixed
<1>4. ASSUME NEW v \in Workers, Claim(v) PROVE StoreInv'
  <2>1. PICK k : k = job.next
    OBVIOUS
  <2>2. k \in 1 .. Len(job.names) /\ job.names \in Seq(Names) /\ Len(job.names) \in Nat
    BY <1>1, <1>4, <2>1 DEF JobOK, Jobs, Claim
  <2>3. job.names[k] \in Names /\ k \in Nat /\ v \in Procs
    BY <2>2, WorkersFacts
  <2> QED  BY <1>1, <1>4, <2>1, <2>3, BeginsStores DEF Claim, fixed
<1>5. ASSUME NEW p \in Procs, Step(p) PROVE StoreInv'
  <2>1. Busy(p) /\ (PassMoves(p) \/ Ends(p)) /\ UNCHANGED <<setup, accounts>>
    BY <1>1, <1>5, StepMovesOrEnds
  <2> QED  BY <2>1, MovesStores, EndsStores
<1>6. CASE Report \/ Tick \/ UNCHANGED syncVars
  BY <1>6, LessStores DEF Report, Tick, syncVars, fixed
<1>7. CASE CrashBulk
  BY <1>7, LessStores DEF CrashBulk, fixed
<1>8. CASE CrashManual
  <2>1. \A p \in Procs : proc'[p] \in {proc[p], Idle}
    BY <1>1, <1>8 DEF CrashManual, ProcsOK
  <2> QED  BY <1>8, <2>1, LessStores DEF CrashManual, fixed
<1> QED  BY <1>2, <1>3, <1>4, <1>5, <1>6, <1>7, <1>8 DEF SyncNext

LEMMA InvStored == SyncInv /\ StoreInv => ReadIsStored
<1> SUFFICES ASSUME SyncInv, StoreInv,
                    NEW e \in Settled \union {proc[p] : p \in {q \in Procs : Busy(q)}}, NEW r \in e.read
             PROVE  LET a == accounts[e.name][r[1]]
                        u == UnitOf(e, r)
                        x == Items(u)[r[3]]
                        id == ExternalId(e.name, a, u, x)
                    IN id \in DOMAIN store /\ store[id] = Copy(e.name, a, u, x)
  BY DEF ReadIsStored
<1>1. Kept(e.name, e.read)
  BY DEF StoreInv, Settled
<1>2. InStore(e.name, r)
  BY <1>1 DEF Kept
<1> QED  BY <1>2 DEF InStore, StoredAs, UnitOf

\* A pass says what it did, has stored what it read, and was the only one of
\* its run: the loops of multi-account.ts, per-resource.ts, sync.ts and sync-all.ts together.
THEOREM SyncPassHonest == SyncSpec => []PassHonest
<1>1. SyncInit => SyncInv /\ StoreInv
  BY SyncStarts DEF SyncInit, StoreInv, Busy
<1>2. SyncInv /\ [SyncNext]_syncVars => SyncInv'
  BY LaunchKeeps, LaunchManualKeeps, ClaimKeeps, StepKeeps, OtherStepKeeps, StutterKeeps DEF SyncNext
<1>3. SyncInv /\ StoreInv /\ [SyncNext]_syncVars => StoreInv'
  BY StoreStep
<1>4. SyncInv /\ StoreInv => PassHonest
  BY InvOutcome, InvClaimed, InvStored DEF PassHonest
<1> QED  BY <1>1, <1>2, <1>3, <1>4, PTL DEF SyncSpec

-----------------------------------------------------------------------------
(* The runs that are kept, and the freshness read from them.                  *)
Statuses == {"absent", "running", "ok", "partial", "error"}
RunRows == [status : Statuses, ended : BOOLEAN, age : 0 .. AgeLimit]

LEMMA Ages == Threshold \in Nat /\ AgeLimit = Threshold + 1 /\ NeverRan = Threshold + 2
BY SyncAssumption DEF AgeLimit, NeverRan

LEMMA OlderIs ==
  ASSUME NEW age \in 0 .. AgeLimit
  PROVE  Older(age) \in 0 .. AgeLimit /\ Older(age) = (IF age = AgeLimit THEN AgeLimit ELSE age + 1)
BY Ages DEF Older, Smaller

LEMMA StartedFresh ==
  ASSUME Freshened, NEW n \in Names, RunStarted(n), UNCHANGED <<setup, good>>
  PROVE  Freshened'
<1>1. PICK row : row = Row("running", FALSE)
  OBVIOUS
<1>2. row \in RunRows /\ row.ended = FALSE
  BY <1>1, Ages DEF Row, RunRows, Statuses
<1>3. syncRuns \in [Names -> RunRows] /\ syncRuns' = [syncRuns EXCEPT ![n] = row]
  BY <1>1 DEF Freshened, RunStarted, RunRows, Statuses
<1>4. syncRuns' \in [Names -> RunRows]
        /\ \A m \in Names : syncRuns'[m] = IF m = n THEN row ELSE syncRuns[m]
  BY <1>2, <1>3
<1> QED  BY <1>2, <1>4, SameNames DEF Freshened, RunRows, Statuses

LEMMA EndedFresh ==
  ASSUME Freshened, NEW n \in Names, NEW status \in {"ok", "partial", "error"}, RunEnded(n, status),
         UNCHANGED setup
  PROVE  Freshened'
<1>1. PICK row : row = Row(status, TRUE)
  OBVIOUS
<1>2. row \in RunRows /\ row.ended = TRUE /\ row.status = status /\ row.age = 0
  BY <1>1, Ages DEF Row, RunRows, Statuses
<1>3. syncRuns \in [Names -> RunRows] /\ syncRuns' = [syncRuns EXCEPT ![n] = row]
  BY <1>1 DEF Freshened, RunEnded, RunRows, Statuses
<1>4. syncRuns' \in [Names -> RunRows]
        /\ \A m \in Names : syncRuns'[m] = IF m = n THEN row ELSE syncRuns[m]
  BY <1>2, <1>3
<1>5. good' \in [Names -> 0 .. NeverRan]
      /\ \A m \in Names : good'[m] = IF m = n /\ status # "error" THEN 0 ELSE good[m]
  BY Ages DEF RunEnded, Freshened
<1>6. ASSUME NEW m \in Names, syncRuns'[m].ended, syncRuns'[m].status # "error"
      PROVE  good'[m] <= syncRuns'[m].age
  <2>1. CASE m = n
    BY <1>2, <1>4, <1>5, <1>6, <2>1
  <2>2. CASE m # n
    BY <1>4, <1>5, <1>6, <2>2 DEF Freshened
  <2> QED  BY <2>1, <2>2
<1> QED  BY <1>4, <1>5, <1>6, SameNames DEF Freshened, RunRows, Statuses

LEMMA TickFresh ==
  ASSUME Freshened, Tick
  PROVE  Freshened'
<1>1. Names' = Names
  BY SameNames DEF Tick, fixed
<1>2. syncRuns' = [n \in Names |-> IF syncRuns[n].ended
                   THEN [syncRuns[n] EXCEPT !.age = Older(syncRuns[n].age)] ELSE syncRuns[n]]
      /\ good' = [n \in Names |-> IF good[n] = NeverRan THEN NeverRan ELSE Older(good[n])]
  BY DEF Tick
<1>3. ASSUME NEW n \in Names
      PROVE  /\ syncRuns'[n] \in RunRows /\ good'[n] \in 0 .. NeverRan
             /\ syncRuns'[n].ended /\ syncRuns'[n].status # "error" => good'[n] <= syncRuns'[n].age
  <2>1. PICK row, hours : row = syncRuns[n] /\ hours = good[n]
    OBVIOUS
  <2>2. row \in RunRows /\ hours \in 0 .. NeverRan
        /\ (row.ended /\ row.status # "error" => hours <= row.age)
    BY <2>1 DEF Freshened, RunRows, Statuses
  <2>3. PICK later : later = IF hours = NeverRan THEN NeverRan ELSE Older(hours)
    OBVIOUS
  <2>4. later \in 0 .. NeverRan /\ good'[n] = later
        /\ later = IF hours = NeverRan THEN NeverRan
                   ELSE IF hours = AgeLimit THEN AgeLimit ELSE hours + 1
    <3>1. CASE hours = NeverRan
      <4>1. later = NeverRan /\ good'[n] = NeverRan
        BY <1>2, <2>1, <2>3, <3>1
      <4> QED  BY <3>1, <4>1, Ages
    <3>2. CASE hours # NeverRan
      <4>1. hours \in 0 .. AgeLimit
        BY <2>2, <3>2, Ages
      <4> QED  BY <1>2, <2>1, <2>3, <3>2, <4>1, Ages, OlderIs
    <3> QED  BY <3>1, <3>2
  <2>5. CASE row.ended
    <3>1. PICK age, older : age = row.age /\ older = Older(age)
      OBVIOUS
    <3>2. age \in 0 .. AgeLimit /\ older \in 0 .. AgeLimit
          /\ older = IF age = AgeLimit THEN AgeLimit ELSE age + 1
      BY <2>2, <3>1, OlderIs DEF RunRows
    <3>3. syncRuns'[n] = [row EXCEPT !.age = older]
      BY <1>2, <2>1, <2>5, <3>1
    <3>4. syncRuns'[n] \in RunRows /\ syncRuns'[n].age = older /\ syncRuns'[n].status = row.status
      BY <2>2, <3>2, <3>3 DEF RunRows
    <3>5. ASSUME row.status # "error" PROVE later <= older
      <4>1. hours <= age
        BY <2>2, <2>5, <3>1, <3>5
      <4> QED  BY <2>2, <2>4, <3>2, <4>1, Ages
    <3> QED  BY <2>4, <3>4, <3>5
  <2>6. CASE ~row.ended
    <3>1. syncRuns'[n] = row
      BY <1>2, <2>1, <2>6
    <3> QED  BY <2>2, <2>4, <2>6, <3>1
  <2> QED  BY <2>5, <2>6
<1>4. syncRuns' \in [Names -> RunRows] /\ good' \in [Names -> 0 .. NeverRan]
  BY <1>2, <1>3
<1> QED  BY <1>1, <1>3, <1>4 DEF Freshened, RunRows, Statuses

LEMMA SameFresh ==
  ASSUME Freshened, UNCHANGED <<setup, syncRuns, good>>
  PROVE  Freshened'
BY SameNames DEF Freshened

LEMMA FreshStep ==
  ASSUME SyncInv, Freshened, [SyncNext]_syncVars
  PROVE  Freshened'
<1>1. ASSUME NEW p \in Procs, Step(p) PROVE Freshened'
  <2>1. Busy(p) /\ UNCHANGED <<setup, accounts>> /\ proc[p].name \in Names
    BY <1>1, StepMovesOrEnds, BusyFacts DEF SyncInv
  <2>2. CASE Begin(p)
    BY <2>1, <2>2, StartedFresh DEF Begin
  <2>3. CASE CredentialMissing(p) \/ SnapshotFails(p) \/ PassEnds(p)
    BY <2>1, <2>3, EndedFresh DEF CredentialMissing, SnapshotFails, PassEnds, Throw
  <2>4. CASE LoadFails(p) \/ EnterAccount(p) \/ FetchPage(p) \/ UnitFails(p) \/ RootUnreadable(p)
             \/ EntryUnreadable(p) \/ LeaveAccount(p)
    BY <2>1, <2>4, SameFresh
    DEF LoadFails, EnterAccount, FetchPage, UnitFails, RootUnreadable, EntryUnreadable, LeaveAccount
  <2> QED  BY <1>1, <2>2, <2>3, <2>4 DEF Step, Scan
<1>2. ASSUME \/ \E request \in setup.requests, requested \in Concurrencies, failFast \in BOOLEAN :
                  Launch(request, requested, failFast)
             \/ \E n \in setup.others : LaunchManual(n)
             \/ \E v \in Workers : Claim(v)
             \/ Report \/ CrashBulk \/ CrashManual \/ UNCHANGED syncVars
      PROVE  Freshened'
  BY <1>2, SameFresh DEF Launch, LaunchManual, Claim, Report, CrashBulk, CrashManual, syncVars, fixed
<1> QED  BY <1>1, <1>2, TickFresh DEF SyncNext

LEMMA FreshInit == SyncInit => Freshened
<1> SUFFICES ASSUME SyncInit PROVE Freshened
  OBVIOUS
<1>1. PICK row : row = NoRow
  OBVIOUS
<1>2. row \in RunRows /\ row.ended = FALSE
  BY <1>1, Ages DEF NoRow, Row, RunRows, Statuses
<1>3. syncRuns = [n \in Names |-> row] /\ good \in [Names -> 0 .. NeverRan]
  BY <1>1, Ages DEF SyncInit
<1> QED  BY <1>2, <1>3 DEF Freshened, RunRows, Statuses

\* A connector said to be fresh has had a run that ended well within the
\* threshold, though the row it is read from may be of another run.
THEOREM SyncFreshIsFresh == SyncSpec => []FreshIsFresh
<1>1. SyncInit => SyncInv /\ Freshened
  BY SyncStarts, FreshInit
<1>2. SyncInv /\ [SyncNext]_syncVars => SyncInv'
  BY LaunchKeeps, LaunchManualKeeps, ClaimKeeps, StepKeeps, OtherStepKeeps, StutterKeeps DEF SyncNext
<1>3. SyncInv /\ Freshened /\ [SyncNext]_syncVars => Freshened'
  BY FreshStep
<1>4. Freshened => FreshIsFresh
  <2> SUFFICES ASSUME Freshened, NEW n \in Names, Freshness(n) = "ok" PROVE good[n] <= Threshold
    BY DEF FreshIsFresh
  <2>1. syncRuns[n].ended /\ syncRuns[n].status # "error" /\ ~(syncRuns[n].age > Threshold)
    BY DEF Freshness
  <2>2. syncRuns[n].age \in 0 .. AgeLimit /\ good[n] \in 0 .. NeverRan /\ good[n] <= syncRuns[n].age
    BY <2>1 DEF Freshened
  <2> QED  BY <2>1, <2>2, Ages
<1> QED  BY <1>1, <1>2, <1>3, <1>4, PTL DEF SyncSpec

LEMMA InvType == SyncInv /\ Freshened => SyncTypeOK
<1> SUFFICES ASSUME SyncInv, Freshened PROVE SyncTypeOK
  OBVIOUS
<1>1. Built /\ JobOK /\ ProcsOK /\ EntriesOK /\ launches \in 0 .. MaxLaunches
  BY DEF SyncInv
<1>2. job.phase \in {"idle", "running"} /\ job.pool \in Nat /\ job.next \in 1 .. (Len(job.names) + 1)
  BY <1>1 DEF JobOK, Jobs
<1>3. DOMAIN slots \subseteq Nat
  <2>1. Len(job.names) \in Nat
    BY <1>1 DEF JobOK, Jobs
  <2> QED  BY <1>1, <2>1 DEF EntriesOK
<1>4. ASSUME NEW p \in Procs, Busy(p)
      PROVE  /\ proc[p].name \in Names /\ proc[p].stage \in {"load", "scan"}
             /\ IF proc[p].unit = 0 THEN proc[p].bad = 0
                ELSE proc[p].bad \in 0 .. (proc[p].unit - 1)
  <2>1. PICK P, as : P = proc[p] /\ as = accounts[P.name]
    OBVIOUS
  <2>2. PICK acct, unit, page, bad, n, w, d :
          /\ acct = P.acct /\ unit = P.unit /\ page = P.page /\ bad = P.bad
          /\ n = Len(as) /\ w = WidthOf(as) /\ d = DepthOf(as)
    OBVIOUS
  <2>3. P \in Passes(Names) /\ PassAt(P, setup, accounts) /\ AccountsOK(setup.kind[P.name], as)
    BY <1>1, <1>4, <2>1, BusyFacts
  <2>4. PlaceOK(acct, unit, page, bad, n, w, d)
    BY <2>1, <2>2, <2>3 DEF PassAt, PassOK
  <2>5. acct \in Nat /\ unit \in Nat /\ bad \in Nat /\ n \in Nat
    BY <2>2, <2>3, Fields, AccountsGrid DEF GridOf
  <2>6. IF unit = 0 THEN bad = 0 ELSE bad \in 0 .. (unit - 1)
    BY <2>4, <2>5 DEF PlaceOK
  <2>7. P.name \in Names /\ P.stage \in {"load", "scan"}
    BY <2>3, Fields
  <2> QED  BY <2>1, <2>2, <2>6, <2>7
<1>5. ASSUME NEW n \in Names
      PROVE  /\ syncRuns[n].status \in {"absent", "running", "ok", "partial", "error"}
             /\ syncRuns[n].age \in 0 .. AgeLimit
             /\ good[n] \in 0 .. NeverRan
  BY DEF Freshened
<1> QED  BY <1>1, <1>2, <1>3, <1>4, <1>5 DEF SyncTypeOK, Built

\* Every state of the loops is of the types their code gives it.
THEOREM SyncTypeCorrect == SyncSpec => []SyncTypeOK
<1>1. SyncInit => SyncInv /\ Freshened
  BY SyncStarts, FreshInit
<1>2. SyncInv /\ [SyncNext]_syncVars => SyncInv'
  BY LaunchKeeps, LaunchManualKeeps, ClaimKeeps, StepKeeps, OtherStepKeeps, StutterKeeps DEF SyncNext
<1>3. SyncInv /\ Freshened /\ [SyncNext]_syncVars => Freshened'
  BY FreshStep
<1> QED  BY <1>1, <1>2, <1>3, InvType, PTL DEF SyncSpec

=============================================================================
