------------------------------- MODULE Graph -------------------------------
(***************************************************************************)
(* The tools over the links between entities: `graph.related`,             *)
(* `graph.expand` and `activity.timeline`.  A walk asks the store node by  *)
(* node and direction by direction, a timeline then reads each node it     *)
(* found; nothing is awaited, but every question is a statement of its     *)
(* own, and other processes add, remove, update and forget in between.     *)
(* Moments are kept as text and compared as text: by the clock they were   *)
(* written down from, whatever its offset.                                 *)
(***************************************************************************)
EXTENDS Naturals, Sequences, FiniteSets, SequencesExt

CONSTANTS
    Node,         \* entities; their numbers are the order of kind and id
    Timed,        \* the sources, tasks and decisions among them
    Ingested,     \* the sources: their moments are the services'
    Shapes,       \* links and moments to begin with
    Linkable,     \* links other processes may add
    Calls,        \* the calls made
    Factor,       \* 4, of graphLimit
    DefaultLimit, \* DEFAULT_LIST_LIMIT
    MaxChanges    \* bound: changes by other processes

EveryLink == "any"                            \* no relation asked for
Unset == [time |-> 0, offset |-> 0]     \* no row, no bound

\* What the constants are; no link leads from a node to itself.
GraphConstants ==
    /\ Node \subseteq Nat /\ Timed \subseteq Node /\ Ingested \subseteq Timed
    /\ \A l \in Linkable \union UNION {s.links : s \in Shapes} : l.from # l.to
    /\ \A s \in Shapes, n \in Node :
          /\ n \notin Timed => s.moment[n] = Unset
          /\ n \notin Ingested => s.moment[n].offset = 0
    /\ \A c \in Calls : c.origin \in Node /\ c.limit > 0 /\ c.depth > 0
    /\ Factor \in Nat \ {0} /\ DefaultLimit \in Nat \ {0}

VARIABLES
    links,   \* the rows of links
    moment,  \* when each timed entity was last observed, updated or recorded
    call,    \* the tool and its arguments
    walk,    \* where the walk is and what it has
    items,   \* the timeline's items
    ever,    \* links that were there at some time of the call
    stay,    \* links that were there all the time
    touched, \* entities that changed during the call
    changes

world == <<links, moment, ever, stay, touched, changes>>
vars == <<world, call, walk, items>>

FirstSide == IF call.direction = "in" THEN "in" ELSE "out"

\* graphLimit of a timeline.
WalkLimit ==
    IF call.tool # "timeline" THEN call.limit
    ELSE IF call.limit * Factor > DefaultLimit THEN call.limit * Factor ELSE DefaultLimit

Init ==
    /\ \E s \in Shapes : links = s.links /\ moment = s.moment
    /\ call \in Calls
    /\ walk = [at |-> FirstSide, hop |-> 0, frontier |-> <<call.origin>>, next |-> <<>>,
               got |-> <<>>, nodes |-> <<call.origin>>, edges |-> {}, full |-> FALSE,
               fetched |-> 0]
    /\ items = <<>>
    /\ ever = links /\ stay = links /\ touched = {}
    /\ changes = 0

\* What one statement of listLinks finds at a node.
Rows(side, n) ==
    {l \in links : (IF side = "out" THEN l.from ELSE l.to) = n /\ call.relation \in {EveryLink, l.relation}}

Neighbour(side, l) == [node |-> IF side = "out" THEN l.to ELSE l.from, link |-> l]

\* One neighbour; the node that reaches the limit ends the walk.
Visit(w, nb) ==
    LET fresh == nb.node \notin ToSet(w.nodes)
        add(s) == IF fresh THEN Append(s, nb.node) ELSE s
    IN  IF w.full THEN w
        ELSE [w EXCEPT !.edges = @ \union {nb.link}, !.nodes = add(@), !.next = add(@),
                       !.full = fresh /\ Len(add(w.nodes)) >= WalkLimit]

\* What follows a walk.
Walked(w) == [w EXCEPT !.at = IF call.tool = "timeline" THEN "fetch" ELSE "done"]

\* Mutant: the hop that was just done is not counted.
MoreHops(w) == w.hop < call.depth /\ w.next # <<>>

AnotherHop(w) == w.hop + 1 < call.depth /\ w.next # <<>>

\* The node is done: the next of this hop, or the next hop.
Onward(w) ==
    IF w.full THEN Walked(w)
    ELSE IF Len(w.frontier) > 1
    THEN [w EXCEPT !.at = FirstSide, !.frontier = Tail(@), !.got = <<>>]
    ELSE IF AnotherHop(w)
    THEN [w EXCEPT !.at = FirstSide, !.hop = @ + 1, !.frontier = w.next, !.next = <<>>, !.got = <<>>]
    ELSE Walked(w)

\* listLinks, a statement at a time, and what expandGraph does with its answer.
listLinks ==
    /\ walk.at \in {"out", "in"}
    /\ \E rows \in SetToSeqs(Rows(walk.at, Head(walk.frontier))) :
          LET got == walk.got \o [n \in DOMAIN rows |-> Neighbour(walk.at, rows[n])]
              asked == [walk EXCEPT !.got = got]
          IN  walk' = IF walk.at = "out" /\ call.direction = "both" THEN [asked EXCEPT !.at = "in"]
                      ELSE IF call.tool = "related" THEN Walked(asked)
                      ELSE Onward(FoldLeft(Visit, asked, got))
    /\ UNCHANGED <<world, call, items>>

Written(m) == m.time + m.offset

InWindow(m) ==
    /\ call.after = Unset \/ Written(m) >= Written(call.after)
    /\ call.before = Unset \/ Written(m) < Written(call.before)

\* Newest first, then by kind and id.
Before(a, b) ==
    \/ Written(a.moment) > Written(b.moment)
    \/ Written(a.moment) = Written(b.moment) /\ a.node < b.node

\* getSource, getTask, getDecision of the next node.
Fetch ==
    /\ walk.at = "fetch" /\ walk.fetched < Len(walk.nodes)
    /\ LET n == walk.nodes[walk.fetched + 1] IN
       items' = IF n \in Timed /\ moment[n] # Unset /\ InWindow(moment[n])
                THEN Append(items, [node |-> n, moment |-> moment[n]]) ELSE items
    /\ walk' = [walk EXCEPT !.fetched = @ + 1]
    /\ UNCHANGED <<world, call>>

\* Sorted and cut.
buildActivityTimeline ==
    /\ walk.at = "fetch" /\ walk.fetched = Len(walk.nodes)
    /\ LET sorted == SetToSortSeq(ToSet(items), Before) IN
       items' = SubSeq(sorted, 1, IF Len(sorted) < call.limit THEN Len(sorted) ELSE call.limit)
    /\ walk' = [walk EXCEPT !.at = "done"]
    /\ UNCHANGED <<world, call>>

Changing == walk.at # "done" /\ changes < MaxChanges /\ changes' = changes + 1

\* link.add, or an event that derives a link.
LinkAdded(l) ==
    /\ Changing /\ l \notin links
    /\ links' = links \union {l} /\ ever' = ever \union {l}
    /\ UNCHANGED <<moment, stay, touched, call, walk, items>>

\* Only links made by hand are removed.
LinkRemoved(l) ==
    /\ Changing /\ l \in links /\ l.relation = "manual_link"
    /\ links' = links \ {l} /\ stay' = stay \ {l}
    /\ UNCHANGED <<moment, ever, touched, call, walk, items>>

\* A new version, an update; or a forget, which leaves the links.
Touch(n, m) ==
    /\ Changing /\ moment[n] # m
    /\ m = Unset => n \in Ingested
    /\ moment' = [moment EXCEPT ![n] = m] /\ touched' = touched \union {n}
    /\ UNCHANGED <<links, ever, stay, call, walk, items>>

Next ==
    \/ listLinks \/ Fetch \/ buildActivityTimeline
    \/ \E l \in Linkable : LinkAdded(l) \/ LinkRemoved(l)
    \/ \E n \in Timed, m \in {Unset, [time |-> 9, offset |-> 0]} : Touch(n, m)

Spec == Init /\ [][Next]_vars
-----------------------------------------------------------------------------
(***************************************************************************)
(* Properties.                                                             *)
(***************************************************************************)

\* The links a walk may cross from one of the nodes.
Crossed(L, nodes) ==
    {l \in L : \/ l.from \in nodes /\ call.direction \in {"out", "both"}
               \/ l.to \in nodes /\ call.direction \in {"in", "both"}}

\* The nodes within k hops over the links L.
Around(L, k) ==
    LET ball[j \in 0..k] ==
            IF j = 0 THEN {call.origin}
            ELSE ball[j - 1]
                 \union {l.to : l \in {e \in L : call.direction # "in" /\ e.from \in ball[j - 1]}}
                 \union {l.from : l \in {e \in L : call.direction # "out" /\ e.to \in ball[j - 1]}}
    IN  ball[k]

Found == ToSet(walk.nodes)
Cut   == Len(walk.nodes) >= WalkLimit

\* A walk tells of what is around its origin, over links that were there while it went on:
\* the nodes are those the links it tells of lead to within the depth, each once.  With
\* fewer nodes than the limit nothing that stayed is missing, nodes or links.  A walk that
\* was cut keeps the nearest, if the links stayed.  With a limit of one it has two nodes.
WalkHonest ==
    walk.at \in {"fetch", "done"} /\ call.tool # "related" =>
        /\ Len(walk.nodes) = Cardinality(Found)
        /\ Len(walk.nodes) <= IF WalkLimit = 1 THEN 2 ELSE WalkLimit
        /\ walk.edges \subseteq ever /\ Found = Around(walk.edges, call.depth)
        /\ ~Cut => /\ Around(stay, call.depth) \subseteq Found
                   /\ Crossed(stay, Around(stay, call.depth - 1)) \subseteq walk.edges
        /\ Cut /\ ever = stay =>
              \E k \in 1..call.depth : /\ Around(stay, k - 1) \subseteq Found
                                       /\ Found \subseteq Around(stay, k)

\* The neighbours of `graph.related` are those that were there; none that stayed is missing.
RelatedHonest ==
    walk.at = "done" /\ call.tool = "related" =>
        LET told == {nb.link : nb \in ToSet(walk.got)}
            asked(L) == {l \in Crossed(L, {call.origin}) : call.relation \in {EveryLink, l.relation}}
        IN  asked(stay) \subseteq told /\ told \subseteq asked(ever)

\* All that was compared was written down in UTC.
InUtc ==
    /\ call.after.offset = 0 /\ call.before.offset = 0
    /\ \A n \in Ingested : moment[n].offset = 0
    /\ \A i \in DOMAIN items : items[i].moment.offset = 0

InTime(t) == (call.after = Unset \/ t >= call.after.time) /\ (call.before = Unset \/ t < call.before.time)

\* A timeline has the latest of what the walk found, latest first, each of its time span; what
\* changed meanwhile may be missing or be there as it was.  So it is where all moments are
\* in UTC, as the comment over the time filters takes them to be.
TimelineHonest ==
    walk.at = "done" /\ call.tool = "timeline" =>
        /\ Len(items) <= call.limit /\ {i.node : i \in ToSet(items)} \subseteq Found
        /\ InUtc =>
              /\ \A i \in DOMAIN items :
                    /\ InTime(items[i].moment.time)
                    /\ \A j \in 1..(i - 1) : items[j].moment.time >= items[i].moment.time
              /\ \A n \in (Found \cap Timed) \ touched :
                    moment[n] # Unset /\ InTime(moment[n].time) =>
                        \/ \E i \in DOMAIN items : items[i] = [node |-> n, moment |-> moment[n]]
                        \/ /\ Len(items) = call.limit
                           /\ \A i \in DOMAIN items : items[i].moment.time >= moment[n].time
=============================================================================
