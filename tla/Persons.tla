------------------------------- MODULE Persons -------------------------------
(***************************************************************************)
(* Persons, the connector identities that resolve to them, and the         *)
(* commitments linked to them.  A sync binds an identity to its own person *)
(* once; only a human's merge or split moves it; a commitment is linked    *)
(* when it is opened, from whatever was written about the other party, and *)
(* has to follow the identity it was linked through.                       *)
(*                                                                         *)
(* A write tool reads, decides, and records one event, without awaiting:   *)
(* two MCP servers over one store interleave between the two.              *)
(***************************************************************************)
EXTENDS Naturals, FiniteSets, Functions

CONSTANTS
    Identity,   \* identity keys, <connector>:<handle>
    HandleOf,   \* the handle of each identity
    Home,       \* the content-derived person of each identity
    Person,     \* person ids
    Name,       \* display names
    Written,    \* what a commitment says of its other party: a key, a handle, a name
    Commitment, \* content-derived commitment ids
    Server,     \* the MCP servers
    Unseen,     \* no row
    Unnamed,    \* the empty display name
    Nobody,     \* a null person_id
    MaxSeen,    \* bound: observations
    MaxOps      \* bound: tool calls

ASSUME PersonsAssumption ==
    /\ IsFiniteSet(Identity)
    /\ HandleOf \in [Identity -> Written]
    /\ Home \in [Identity -> Person]
    /\ Name \subseteq Written
    /\ Unnamed \notin Written
    /\ Nobody \notin Person
    /\ MaxSeen \in Nat
    /\ MaxOps \in Nat

VARIABLES
    ident,      \* person_identities: the person and display name of each identity
    persons,    \* persons: display name and identity count
    ledger,     \* commitments: what was written, the person it resolved to, the state
    run,        \* the event each server has decided to record, or Unseen
    seen, ops   \* how much of MaxSeen and MaxOps is used

view == <<ident, persons, ledger>>
vars == <<view, run, seen, ops>>

CommitmentState == {"open", "resolved", "dismissed"}

IdentRow == [person : Person, name : Name \union {Unnamed}]
PersonRow == [name : Name \union {Unnamed}, count : Nat]
LedgerRow == [written : Written, person : Person \union {Nobody}, state : CommitmentState]

Event ==
    [type : {"PersonsMerged"}, from : Person, into : Person]
      \union [type : {"PersonSplit"}, identity : Identity, into : Person]
      \union [type : {"CommitmentOpened"}, id : Commitment, written : Written]
      \union [type : {"CommitmentMoved"}, id : Commitment, to : CommitmentState]

ASSUME RowAssumption ==
    Unseen \notin IdentRow \union PersonRow \union LedgerRow \union Event

TypeOK ==
    /\ ident \in [Identity -> IdentRow \union {Unseen}]
    /\ persons \in [Person -> PersonRow \union {Unseen}]
    /\ ledger \in [Commitment -> LedgerRow \union {Unseen}]
    /\ run \in [Server -> Event \union {Unseen}]
    /\ seen \in 0 .. MaxSeen
    /\ ops \in 0 .. MaxOps

Init ==
    /\ ident = [i \in Identity |-> Unseen]
    /\ persons = [p \in Person |-> Unseen]
    /\ ledger = [c \in Commitment |-> Unseen]
    /\ run = [s \in Server |-> Unseen]
    /\ seen = 0
    /\ ops = 0
-----------------------------------------------------------------------------
(***************************************************************************)
(* Operators of the reducer.                                               *)
(***************************************************************************)

Seen == {i \in Identity : ident[i] # Unseen}

IdentitiesOf(id, p) == {i \in Identity : id[i] # Unseen /\ id[i].person = p}

\* ensurePerson: a row with count 0 unless there is one; a name that is not empty wins.
Ensured(p, name) ==
    [persons EXCEPT ![p] = IF @ = Unseen THEN [name |-> name, count |-> 0]
                           ELSE IF name # Unnamed THEN [@ EXCEPT !.name = name]
                           ELSE @]

\* refreshIdentityCount, for the persons in P that have a row.
Recount(rows, id, P) ==
    [p \in Person |->
        IF p \in P /\ rows[p] # Unseen
        THEN [rows[p] EXCEPT !.count = Cardinality(IdentitiesOf(id, p))]
        ELSE rows[p]]

\* The person a text names: by identity key, else by a handle only one person has,
\* else by a display name only one person with identities has, else nobody.
resolvePersonId(w) ==
    LET byHandle == {ident[i].person : i \in {k \in Seen : HandleOf[k] = w}}
        byName   == {p \in Person : /\ persons[p] # Unseen
                                    /\ persons[p].name = w
                                    /\ persons[p].count > 0}
    IN  IF w \in Seen THEN ident[w].person
        ELSE IF Cardinality(byHandle) = 1 THEN CHOOSE p \in byHandle : TRUE
        ELSE IF Cardinality(byName) = 1 THEN CHOOSE p \in byName : TRUE
        ELSE Nobody
-----------------------------------------------------------------------------
(***************************************************************************)
(* applyEvent, one operator per event.                                     *)
(***************************************************************************)

\* Mutant: a known identity is bound to its home again.
ObserveRebinds(i, name) ==
    LET rows == Ensured(Home[i], name) IN
    /\ ident' = [ident EXCEPT ![i] = [person |-> Home[i], name |-> name]]
    /\ persons' = Recount(rows, ident', Person)
    /\ UNCHANGED ledger

\* A new identity is bound to its home; a known one only ever learns a name, which its
\* present person takes too.
PersonIdentityObserved(i, name) ==
    /\ IF ident[i] = Unseen
       THEN /\ ident' = [ident EXCEPT ![i] = [person |-> Home[i], name |-> name]]
            /\ persons' = Recount(Ensured(Home[i], name), ident', {Home[i]})
       ELSE IF name # Unnamed
       THEN /\ ident' = [ident EXCEPT ![i].name = name]
            /\ persons' = [persons EXCEPT ![ident[i].person].name = name]
       ELSE UNCHANGED <<ident, persons>>
    /\ UNCHANGED ledger

\* Mutant: the counts of the target are not refreshed.
MergeNoRecount(p, q) ==
    /\ ident' = [i \in Identity |-> IF i \in IdentitiesOf(ident, p)
                                    THEN [ident[i] EXCEPT !.person = q] ELSE ident[i]]
    /\ persons' = Recount(Ensured(q, Unnamed), ident', {p})
    /\ ledger' = [c \in Commitment |-> IF ledger[c] # Unseen /\ ledger[c].person = p
                                       THEN [ledger[c] EXCEPT !.person = q] ELSE ledger[c]]

\* Mutant: commitments stay with the emptied person.
MergeNoCascade(p, q) ==
    /\ ident' = [i \in Identity |-> IF i \in IdentitiesOf(ident, p)
                                    THEN [ident[i] EXCEPT !.person = q] ELSE ident[i]]
    /\ persons' = Recount(Ensured(q, Unnamed), ident', {p, q})
    /\ UNCHANGED ledger

\* Every identity and every commitment of p moves to q.
PersonsMerged(p, q) ==
    /\ ident' = [i \in Identity |-> IF i \in IdentitiesOf(ident, p)
                                    THEN [ident[i] EXCEPT !.person = q] ELSE ident[i]]
    /\ persons' = Recount(Ensured(q, Unnamed), ident', {p, q})
    /\ ledger' = [c \in Commitment |-> IF ledger[c] # Unseen /\ ledger[c].person = p
                                       THEN [ledger[c] EXCEPT !.person = q] ELSE ledger[c]]

\* The commitments of its person that were written by key or handle go with an identity.
WrittenAs(row, i) == row.written = i \/ row.written = HandleOf[i]

\* One identity moves to q.  Nothing happens if it is there already.
PersonSplit(i, q) ==
    LET p == ident[i].person IN
    IF ident[i] = Unseen \/ ident[i].person = q THEN UNCHANGED view
    ELSE /\ ident' = [ident EXCEPT ![i].person = q]
         /\ persons' = Recount(Ensured(q, Unnamed), ident', {p, q})
         /\ ledger' = [c \in Commitment |->
                         IF /\ ledger[c] # Unseen
                            /\ ledger[c].person = p
                            /\ WrittenAs(ledger[c], i)
                         THEN [ledger[c] EXCEPT !.person = q] ELSE ledger[c]]

\* A row that is there keeps its state: extraction never reopens.
StateOnOpen(row) == IF row = Unseen THEN "open" ELSE row.state

CommitmentOpened(c, w) ==
    /\ ledger' = [ledger EXCEPT ![c] = [written |-> w, person |-> resolvePersonId(w),
                                        state |-> StateOnOpen(ledger[c])]]
    /\ UNCHANGED <<ident, persons>>

\* CommitmentResolved, CommitmentDismissed, CommitmentReopened
CommitmentMoved(c, s) ==
    /\ ledger' = [ledger EXCEPT ![c] = IF @ = Unseen THEN @ ELSE [@ EXCEPT !.state = s]]
    /\ UNCHANGED <<ident, persons>>
-----------------------------------------------------------------------------
(***************************************************************************)
(* The sync pass and the write tools.                                      *)
(***************************************************************************)

\* A record whose author has this identity; the connector may have resolved a name.
Observe(i, name) ==
    /\ seen < MaxSeen
    /\ seen' = seen + 1
    /\ PersonIdentityObserved(i, name)
    /\ UNCHANGED <<run, ops>>

Decide(s, e) ==
    /\ run[s] = Unseen
    /\ ops < MaxOps
    /\ ops' = ops + 1
    /\ run' = [run EXCEPT ![s] = e]
    /\ UNCHANGED <<view, seen>>

\* The target need not be known; a source without identities is a no-op or an error.
personMerge(s, p, q) ==
    /\ p # q
    /\ IdentitiesOf(ident, p) # {}
    /\ Decide(s, [type |-> "PersonsMerged", from |-> p, into |-> q])

\* Without newPersonId, q is the identity's home.
personSplit(s, i, q) ==
    /\ ident[i] # Unseen
    /\ ident[i].person # q
    /\ Decide(s, [type |-> "PersonSplit", identity |-> i, into |-> q])

\* propose.apply of a commitment candidate: skipped if the row is there.  The verdicts
\* on the candidate itself are in ProposalLedger.
proposeApply(s, c, w) ==
    /\ ledger[c] = Unseen
    /\ Decide(s, [type |-> "CommitmentOpened", id |-> c, written |-> w])

\* commitment.resolve and commitment.dismiss want an open row, commitment.reopen another.
commitmentTransition(s, c, to) ==
    /\ ledger[c] # Unseen
    /\ (ledger[c].state = "open") # (to = "open")
    /\ Decide(s, [type |-> "CommitmentMoved", id |-> c, to |-> to])

\* Store.record of the decided event.
Record(s) ==
    LET e == run[s] IN
    /\ e # Unseen
    /\ \/ e.type = "PersonsMerged" /\ PersonsMerged(e.from, e.into)
       \/ e.type = "PersonSplit" /\ PersonSplit(e.identity, e.into)
       \/ e.type = "CommitmentOpened" /\ CommitmentOpened(e.id, e.written)
       \/ e.type = "CommitmentMoved" /\ CommitmentMoved(e.id, e.to)
    /\ run' = [run EXCEPT ![s] = Unseen]
    /\ UNCHANGED <<seen, ops>>

Next ==
    \/ \E i \in Identity, n \in Name \union {Unnamed} : Observe(i, n)
    \/ \E s \in Server :
          \/ \E p, q \in Person : personMerge(s, p, q)
          \/ \E i \in Identity, q \in Person : personSplit(s, i, q)
          \/ \E c \in Commitment, w \in Written : proposeApply(s, c, w)
          \/ \E c \in Commitment, to \in CommitmentState : commitmentTransition(s, c, to)
          \/ Record(s)

Spec == Init /\ [][Next]_vars
-----------------------------------------------------------------------------
(***************************************************************************)
(* Properties.                                                             *)
(***************************************************************************)

\* The stored counter, by which person.list hides merge tombstones, is the number of
\* identities; whoever an identity resolves to has a row (reducer.ts:117-190, 607-703).
CountsMatch ==
    /\ \A i \in Seen : persons[ident[i].person] # Unseen
    /\ \A p \in Person :
          persons[p] # Unseen => persons[p].count = Cardinality(IdentitiesOf(ident, p))

Linked(c) == ledger[c] # Unseen /\ ledger[c].person # Nobody

\* What can only be a key, and what can only be a handle.
Key == Identity \ (Name \union Range(HandleOf))
Handle == Range(HandleOf) \ (Name \union Identity)

KeyAt(c) ==
    Linked(c) /\ ledger[c].written \in Key
        => ledger[c].written \in Seen /\ ledger[c].person = ident[ledger[c].written].person

HandleAt(c) ==
    Linked(c) /\ ledger[c].written \in Handle
        => \E i \in Seen : HandleOf[i] = ledger[c].written /\ ident[i].person = ledger[c].person

\* Whatever merges and splits follow, a commitment linked through an identity's key
\* stays with that identity (reducer.ts:651-660, 685-692).
KeyFollows == \A c \in Commitment : KeyAt(c)

\* A commitment linked through a bare handle stays with one of the identities that have
\* it, and so never with a person a merge or a split has emptied.
HandleFollows == \A c \in Commitment : HandleAt(c)

\* A commitment stays with the identity it was linked through.
CommitmentsFollow == KeyFollows /\ HandleFollows

MovedByHand ==
    \A i \in Seen :
        ident'[i].person # ident[i].person =>
            \E s \in Server :
               /\ run[s] # Unseen /\ run'[s] = Unseen
               /\ \/ run[s].type = "PersonsMerged" /\ run[s].from = ident[i].person
                  \/ run[s].type = "PersonSplit" /\ run[s].identity = i

\* "Re-observing never resurrects a person an operator merged away" (person.ts:4-9):
\* an identity that is known changes its person only by a recorded merge or split.
OnlyHumansMove == [][MovedByHand]_vars
=============================================================================
