----------------------------- MODULE Discovery -----------------------------
(***************************************************************************)
(* What a credential can see against what the configuration lists: one     *)
(* sweep of a discovery verb with --new, of `slack conversations --new`,   *)
(* of `slack follow --suggest` or of the Slack sync's own check, and what  *)
(* it tells the user.  The listings take several calls, a call may fail or *)
(* come back unreadable, and items come and go meanwhile.                  *)
(***************************************************************************)
EXTENDS Naturals, Sequences, FiniteSets

CONSTANTS
    Kinds,      \* the sweeps a behaviour may be of
    Seen,       \* the (token, conversation) pairs there can be, in Slack
    Written,    \* what the configuration may list
    MaxChanges  \* bound: items that come or go during the sweep

OneToken == {"github", "google", "box", "notion", "jira"}
Slack    == {"new", "suggest", "sync"}
Offset   == {"github", "jira"}  \* pages counted, not continued from an item

\* An id is that of an item; Alias is "primary" of Google, "0" of Box; Respelt(i)
\* is i in another case or, in Notion, without its dashes.
Items == {1, 2, 3}
Alias == 0
Respelt(i) == 10 + i

DiscoveryConstants ==
    /\ Kinds \subseteq OneToken \union Slack
    /\ Seen \subseteq {1, 2} \X Items /\ {<<1, i>> : i \in Items} \subseteq Seen \union {<<1, 2>>}
    /\ \A w \in Written : w \subseteq Items \union {Alias} \union {Respelt(i) : i \in Items}
    /\ MaxChanges \in Nat

VARIABLES
    kind,
    conf,       \* the ids in the configuration, and whether it has the key at all
    opts,       \* --filter, --root, --limit, --types
    remote,     \* what each token sees: 0 not at all, 1 listed, 2 joined
    sweep,      \* the sweep under way
    report,     \* what the user is told
    span,       \* history: the least and the most each token saw, and gaps in the pages
    changes     \* how much of the bound is used

vars == <<kind, conf, opts, remote, sweep, report, span, changes>>

None  == [at |-> "none"]
NoLimit == 9

Pairs  == IF kind \in Slack THEN Seen ELSE {<<1, i>> : i \in Items}
Tokens == {p[1] : p \in Pairs}

-----------------------------------------------------------------------------
(***************************************************************************)
(* The options and the configuration.                                      *)
(***************************************************************************)

TypeOf(i) == IF kind \notin Slack THEN "item"
             ELSE IF i = 1 THEN "public" ELSE IF i = 2 THEN "private" ELSE "im"

\* In Box, item 3 is a folder in item 1.
ParentOf(i) == IF kind = "box" /\ i = 3 THEN 1 ELSE 0

Options ==
    [filter : IF kind \in OneToken THEN {Items, {1}} ELSE {Items},
     root   : IF kind = "box" THEN {0, 1} ELSE {0},
     limit  : IF kind = "new" THEN {NoLimit, 1} ELSE {NoLimit},
     types  : IF kind \in OneToken THEN { <<"item">> }
              ELSE IF kind = "new" THEN { <<"public", "private">>, <<"public", "private", "im">> }
              ELSE { <<"public", "private">> }]

partialView == opts.filter # Items \/ opts.root # 0

\* An absent key is what the connector reads without it: Google's own calendar.
configuredIds ==
    IF conf.set THEN conf.ids ELSE IF kind = "google" THEN {Alias} ELSE {}

\* The generic verbs compare ids in lower case, Notion's without dashes; Slack's as they are.
normalizeId(id) == IF kind \in OneToken /\ id > 10 THEN id - 10 ELSE id

Empty == [i \in Items |-> 0]

Init ==
    /\ kind \in Kinds
    /\ conf \in [set : {TRUE}, ids : Written] \union {[set |-> FALSE, ids |-> {}]}
    /\ kind \in Slack => conf.ids # {} /\ conf.ids \subseteq Items
    /\ opts \in Options
    /\ remote \in [Pairs -> IF kind \in Slack THEN 0..2 ELSE {0, 2}]
    /\ sweep = [at |-> IF kind = "google" THEN "mint" ELSE "list", token |-> 1, type |-> 1,
                last |-> 0, count |-> 0, rows |-> Empty, found |-> Empty, seen |-> Empty,
                missing |-> {}, swept |-> {}]
    /\ report = None
    /\ span = [low |-> remote, high |-> remote, gap |-> FALSE]
    /\ changes = 0
-----------------------------------------------------------------------------
(***************************************************************************)
(* The listings.                                                           *)
(***************************************************************************)

Type == opts.types[sweep.type]

\* What the service has for the token, in the order of the items.
Listed == {i \in Items : <<sweep.token, i>> \in Pairs /\ remote[<<sweep.token, i>>] > 0}

Before(i, S) == Cardinality({j \in S : j < i})

\* What is still to come: after the last item read, or after as many as were read.
ByCursor == {i \in Listed : i > sweep.last}
ByCount  == {i \in Listed : Before(i, Listed) >= sweep.count}

listRepos         == ByCount
listProjects      == ByCount
listCalendars     == ByCursor
listDatabases     == ByCursor
listFolders       == {i \in ByCursor : ParentOf(i) = opts.root}
listConversations == {i \in ByCursor : TypeOf(i) = Type}

Left ==
    CASE kind = "github" -> listRepos
      [] kind = "jira"   -> listProjects
      [] kind = "google" -> listCalendars
      [] kind = "notion" -> listDatabases
      [] kind = "box"    -> listFolders
      [] kind \in Slack  -> listConversations

First(S) == CHOOSE i \in S : \A j \in S : i <= j

\* Rows that one more type adds to the token's, up to the limit.
Capped(found, rows) ==
    LET room == opts.limit - Cardinality({i \in Items : found[i] > 0})
        new  == {i \in Items : rows[i] > 0}
    IN  [i \in Items |-> IF i \in new /\ Before(i, new) < room THEN rows[i] ELSE found[i]]

\* Mutant: the row of the first token that lists it, as slack follow has it.
MergeFirst(seen, found) == [i \in Items |-> IF seen[i] > 0 THEN seen[i] ELSE found[i]]

\* A joined row wins over one that is not.
Merge(seen, found) ==
    [i \in Items |-> IF seen[i] < found[i] THEN found[i] ELSE seen[i]]

sweepPool(seen, found) == [i \in Items |-> IF seen[i] > 0 THEN seen[i] ELSE found[i]]

\* The next token, or the end.
NextToken(s) ==
    IF s.token + 1 \in Tokens
    THEN [s EXCEPT !.token = @ + 1, !.type = 1, !.last = 0, !.count = 0,
                   !.rows = Empty, !.found = Empty]
    ELSE [s EXCEPT !.at = "diff"]

EndToken(s) ==
    NextToken([s EXCEPT !.seen = IF kind = "suggest" THEN sweepPool(@, s.found)
                                 ELSE Merge(@, s.found),
                        !.swept = @ \union {s.token}])

\* The next type, unless the limit is reached.
EndType(s) ==
    LET found == Capped(s.found, s.rows) IN
    IF s.type < Len(opts.types) /\ Cardinality({i \in Items : found[i] > 0}) < opts.limit
    THEN [s EXCEPT !.type = @ + 1, !.last = 0, !.count = 0, !.rows = Empty, !.found = found]
    ELSE EndToken([s EXCEPT !.found = found])

\* A Google refresh token becomes an access token.
mintAccessToken ==
    /\ sweep.at = "mint"
    /\ sweep' = [sweep EXCEPT !.at = "list"]
    /\ UNCHANGED <<kind, conf, opts, remote, report, span, changes>>

\* A page, and whether there is another.
fetchPage ==
    /\ sweep.at = "list"
    /\ sweep' =
         IF Left = {} THEN EndType(sweep)
         ELSE LET i == First(Left)
                  s == [sweep EXCEPT !.last = i, !.count = @ + 1,
                           !.rows[i] = IF i \in opts.filter THEN remote[<<sweep.token, i>>] ELSE @]
              IN  IF Left = {i} THEN EndType(s) ELSE s
    /\ UNCHANGED <<kind, conf, opts, remote, report, span, changes>>

\* A page with a good status whose body cannot be read counts as empty, and as the last
\* where the body says whether there is another.
Unreadable ==
    /\ sweep.at = "list" /\ kind \in OneToken
    /\ span' = [span EXCEPT !.gap = TRUE]
    /\ sweep' = IF kind = "github" /\ Cardinality(Left) > 1
                THEN [sweep EXCEPT !.count = @ + 1] ELSE EndType(sweep)
    /\ UNCHANGED <<kind, conf, opts, remote, report, changes>>

\* A call fails for good: no report, but the check of a sync goes on without the token.
Fails ==
    /\ sweep.at \in {"mint", "list"}
    /\ sweep' = IF kind = "sync" THEN NextToken(sweep) ELSE [sweep EXCEPT !.at = "failed"]
    /\ UNCHANGED <<kind, conf, opts, remote, report, span, changes>>

\* The token may not list this type: its other types are still listed.
MissingScope ==
    /\ sweep.at = "list" /\ kind \in Slack
    /\ sweep' = EndType([sweep EXCEPT !.missing = @ \union {Type}])
    /\ UNCHANGED <<kind, conf, opts, remote, report, span, changes>>

Visible == {i \in Items : sweep.seen[i] > 0}
Configured(i) == \E c \in configuredIds : normalizeId(c) = i

renderDriftReport(added, removed) == [at |-> "told", added |-> added, removed |-> removed]

diffDiscovered ==
    renderDriftReport({i \in Visible : ~Configured(i)},
        IF partialView THEN {} ELSE {c \in configuredIds : normalizeId(c) \notin Visible})

\* An id that can only be of a type the sweep did not ask for is not missed.
diffConversations ==
    [at |-> "told", added |-> {i \in Visible : sweep.seen[i] = 2 /\ i \notin configuredIds},
     removed |-> {c \in configuredIds : /\ c \notin Visible
                                        /\ \E n \in DOMAIN opts.types : opts.types[n] = TypeOf(c)}]

\* The list of --suggest, and the number a sync warns of, are of what is new only.
suggest == [diffConversations EXCEPT !.removed = {}]

sweepDiscovery ==
    IF sweep.swept = {} THEN None ELSE [diffConversations EXCEPT !.removed = {}]

Report ==
    /\ sweep.at = "diff"
    /\ sweep' = [sweep EXCEPT !.at = "off"]
    /\ report' = CASE kind \in OneToken -> diffDiscovered
                   [] kind = "new"      -> diffConversations
                   [] kind = "suggest"  -> suggest
                   [] kind = "sync"     -> sweepDiscovery
    /\ UNCHANGED <<kind, conf, opts, remote, span, changes>>

\* An item is made, shared, joined, left, archived or deleted.
Change(p, level) ==
    /\ changes < MaxChanges /\ sweep.at \in {"mint", "list"}
    /\ p \in Pairs /\ level # remote[p] /\ (kind \in OneToken => level # 1)
    /\ changes' = changes + 1 /\ remote' = [remote EXCEPT ![p] = level]
    /\ span' = [span EXCEPT !.low[p] = IF level < @ THEN level ELSE @,
                            !.high[p] = IF level > @ THEN level ELSE @]
    /\ UNCHANGED <<kind, conf, opts, sweep, report>>

Next ==
    \/ mintAccessToken \/ fetchPage \/ Unreadable \/ Fails \/ MissingScope \/ Report
    \/ \E p \in {1, 2} \X Items, level \in 0..2 : Change(p, level)

Spec == Init /\ [][Next]_vars
-----------------------------------------------------------------------------
(***************************************************************************)
(* Properties.                                                             *)
(***************************************************************************)

Of(i) == {p \in Pairs : p[2] = i}
Denoted(c) == IF c > 10 THEN c - 10 ELSE c

\* Why an item in view may go unseen: a page that could not be read, an earlier item gone
\* from a listing whose pages are counted, a limit, a type or a token that could not be listed.
Overlooked(i) ==
    \/ span.gap
    \/ kind \in Offset /\ \E p \in Pairs : p[2] < i /\ span.low[p] < span.high[p]
    \/ opts.limit # NoLimit
    \/ TypeOf(i) \in sweep.missing
    \/ ParentOf(i) # opts.root

\* What a sweep tells of is so: what is reported new was in view (in Slack, joined) at some
\* moment of the sweep, and all that stayed in view and is not configured is reported; what
\* is reported gone was out of view for every token at some moment.  The exceptions: what
\* is overlooked, Google's "primary" and Box's "0", that no listing has, and a channel that
\* slack follow saw first with a token that is not in it.
DriftHonest ==
    report # None =>
        /\ \A i \in report.added : \E p \in Of(i) : span.high[p] = 2
        /\ \A c \in report.removed :
              \/ c = Alias
              \/ \A p \in Of(Denoted(c)) : span.low[p] = 0
              \/ Overlooked(Denoted(c))
        /\ \A i \in opts.filter :
              \/ \E c \in configuredIds : Denoted(c) = i
              \/ i \in report.added
              \/ \A p \in Of(i) : span.low[p] < 2 \/ p[1] \notin sweep.swept
              \/ ~\E n \in DOMAIN opts.types : opts.types[n] = TypeOf(i)
              \/ Overlooked(i)
              \/ kind = "suggest" /\ \E p \in Of(i) : span.high[p] > 0 /\ span.low[p] < 2
=============================================================================
