------------------------------- MODULE Names -------------------------------
(***************************************************************************)
(* The names of Slack users, conversations and workspaces, which Slack     *)
(* gives as ids.  A sync pass asks for those of the messages it lists, and *)
(* `slack resolve-names` for those the store lacks; both keep what they    *)
(* were told, a refusal included, for the length of their run, and record  *)
(* it last-write-wins.  Meanwhile things are renamed, requests fail, and   *)
(* other runs record.                                                      *)
(*                                                                         *)
(* A name is the set of its parts, each told by whose name it is and the   *)
(* how-manieth of that one; part 0 stands for the bare id, and a direct    *)
(* conversation is named by its counterpart, a group by its members.       *)
(***************************************************************************)
EXTENDS Naturals, Sequences, FiniteSets

CONSTANTS
    User, Conv, Team,
    MembersOf,  \* of a conversation named by its members
    Group,      \* those named by several
    Post,       \* the messages: [user, conv]
    Proc,       \* processes
    Token,      \* the pool: 1..n
    TeamOf,     \* the workspace of each token
    SelfOf,     \* the user of each token
    SelfIds,    \* the first of [connectors.slack] self_user_ids, if any is configured
    Sees,       \* what the scopes of each token let it ask for
    Reach,      \* the workspaces each token can list, on an Enterprise Grid
    Renamed,    \* the things that may be renamed
    Described,  \* which of them auth.test tells a workspace of, run by run
    MaxRuns, MaxRenames, MaxFaults  \* bounds: runs, renamings, requests that fail

\* What the constants are.
NamesConstants ==
    /\ User \cap Conv = {} /\ User \cap Team = {} /\ Conv \cap Team = {}
    /\ MembersOf \in [Conv -> SUBSET User] /\ Group \subseteq {c \in Conv : MembersOf[c] # {}}
    /\ Post \subseteq [user : User, conv : Conv]
    /\ Token = 1 .. Cardinality(Token) /\ Token # {} /\ TeamOf \in [Token -> Team]
    /\ SelfOf \in [Token -> User] /\ Sees \in [Token -> SUBSET (User \union Conv)]
    /\ SelfIds \subseteq User /\ Reach \in [Token -> SUBSET Team]
    /\ Described \subseteq SUBSET Token /\ Renamed \subseteq User \union Conv \union Team
    /\ {MaxRuns, MaxRenames, MaxFaults} \subseteq Nat

VARIABLES
    upstream,   \* the how-manieth name each thing has
    rows,       \* the names in the projections; persons, slack_channels, slack_teams
    stored,     \* the ingested messages, with the workspace they were read in
    run,        \* what each process is doing
    used        \* how much of each bound is used

vars == <<upstream, rows, stored, run, used>>

Thing == User \union Conv \union Team
Nameless == {}
Unasked  == {<<"unasked", 0>>}
Absent   == "absent"
NoTeam   == "no team"
NoIds    == [x \in {} |-> {}]
Idle     == [at |-> "idle"]
None     == [at |-> "none"]

Least(S)    == CHOOSE i \in S : \A j \in S : i <= j
Elements(s) == {s[i] : i \in DOMAIN s}

\* A pass has one cache for all tokens, the backfill one for each.
Shared == 0
CacheOf(q, t) == IF run[q].at = "sync" THEN Shared ELSE t
Known(q, t, x) == run[q].cache[CacheOf(q, t)][x]

\* Who asks, as far as auth.test or the configuration tells; the backfill does not know.
Self(q, t) ==
    IF run[q].at # "sync" THEN {}
    ELSE IF t \in run[q].described THEN {SelfOf[t]} ELSE SelfIds

\* Whose names a conversation's is made of.
Members(q, t, c) == IF c \in Group THEN MembersOf[c] \ Self(q, t) ELSE MembersOf[c]

Part(x) == {<<x, upstream[x]>>}

\* A member without name goes by the id, a counterpart leaves the conversation nameless.
GroupName(q, t, c) ==
    UNION {IF Known(q, t, u) = Nameless THEN {<<u, 0>>} ELSE Known(q, t, u) :
             u \in Members(q, t, c)}

ConvName(q, t, c) ==
    IF c \in Group THEN GroupName(q, t, c)
    ELSE IF MembersOf[c] = {} THEN Part(c) ELSE UNION {Known(q, t, u) : u \in MembersOf[c]}
-----------------------------------------------------------------------------
(***************************************************************************)
(* Requests.  `cur` is the id, or the message, whose names are asked for,  *)
(* with the tokens to ask with.                                            *)
(***************************************************************************)

Asking(q) == run[q].at # "idle" /\ run[q].cur # None
Asker(q)  == Head(run[q].cur.tokens)

\* In the order in which they are asked for.
Wanted(q) == {i \in DOMAIN run[q].cur.things : Known(q, Asker(q), run[q].cur.things[i]) = Unasked}
Asked(q)  == run[q].cur.things[Least(Wanted(q))]
Resolved(q) == Asking(q) /\ Wanted(q) = {}

Remember(q, x, name) == run' = [run EXCEPT ![q].cache[CacheOf(q, Asker(q))][x] = name]

resolveUserName(q, u) == Remember(q, u, IF u \in Sees[Asker(q)] THEN Part(u) ELSE Nameless)

\* conversations.info, after which the members' names are asked for.
resolveChannel(q, c) ==
    LET t == Asker(q)
        open == {u \in Members(q, t, c) : Known(q, t, u) = Unasked}
    IN  IF c \notin Sees[t] THEN Remember(q, c, Nameless)
        ELSE IF open = {} THEN Remember(q, c, ConvName(q, t, c))
        ELSE \E u \in open : resolveUserName(q, u)

\* The workspaces a token can list are named in one sweep, once in a run; for one that is
\* not among them the token's own name is taken.
enumerateTeams(q) ==
    LET t == Asker(q) IN
    \E listed \in SUBSET Reach[t] :
       /\ listed # Reach[t] => used.faults < MaxFaults
       /\ used' = [used EXCEPT !.faults = IF listed = Reach[t] THEN @ ELSE @ + 1]
       /\ run' = [run EXCEPT
           ![q].cache[CacheOf(q, t)] =
               [x \in Thing |-> IF x \in listed THEN Part(x) ELSE @[x]],
           ![q].listed = @ \union {CacheOf(q, t)},
           ![q].fault = @ \/ listed # Reach[t]]

resolveTeamName(q, x) ==
    IF CacheOf(q, Asker(q)) \notin run[q].listed THEN enumerateTeams(q)
    ELSE Remember(q, x, Part(TeamOf[Asker(q)])) /\ UNCHANGED used

Ask(q) ==
    /\ Asking(q) /\ ~Resolved(q)
    /\ LET x == Asked(q) IN
       \/ x \in User /\ resolveUserName(q, x) /\ UNCHANGED used
       \/ x \in Conv /\ resolveChannel(q, x) /\ UNCHANGED used
       \/ x \in Team /\ resolveTeamName(q, x)
    /\ UNCHANGED <<upstream, rows, stored>>

\* A request fails, of a conversation or one of its members too: no name, for the run.
Degrade(q) ==
    /\ Asking(q) /\ ~Resolved(q)
    /\ used.faults < MaxFaults /\ used' = [used EXCEPT !.faults = @ + 1]
    /\ Asked(q) \in Team => CacheOf(q, Asker(q)) \in run[q].listed
    /\ \E x \in {Asked(q)} \union
                  (IF Asked(q) \in Conv THEN Members(q, Asker(q), Asked(q)) ELSE {}) :
          /\ Known(q, Asker(q), x) = Unasked
          /\ run' = [run EXCEPT ![q].cache[CacheOf(q, Asker(q))][x] = Nameless,
                                ![q].fault = TRUE]
    /\ UNCHANGED <<upstream, rows, stored>>
-----------------------------------------------------------------------------
(***************************************************************************)
(* Recording.  A name is never replaced by none.                           *)
(***************************************************************************)

Observed(x, name) == IF name # Nameless THEN name ELSE rows[x]

NewRun(kind, described) ==
    [at |-> kind, cur |-> None, seen |-> {}, left |-> Post, ids |-> NoIds, force |-> FALSE,
     cache |-> [k \in Token \union {Shared} |-> [x \in Thing |-> Unasked]],
     listed |-> {}, described |-> described, start |-> upstream, fault |-> FALSE]

Start(q) ==
    run[q] = Idle /\ used.runs < MaxRuns /\ used' = [used EXCEPT !.runs = @ + 1]

\* A pass of the Slack connector.
BeginSync(q) ==
    /\ Start(q)
    /\ \E described \in Described : run' = [run EXCEPT ![q] = NewRun("sync", described)]
    /\ UNCHANGED <<upstream, rows, stored>>

\* It lists a message with some token, and asks for its author, channel and workspace.
FetchItem(q) ==
    /\ run[q].at = "sync" /\ run[q].cur = None
    /\ \E p \in run[q].left, t \in Token :
          run' = [run EXCEPT ![q].cur =
              [at |-> "item", post |-> p, tokens |-> <<t>>,
               things |-> IF t \in run[q].described
                          THEN <<p.user, p.conv, TeamOf[t]>> ELSE <<p.user, p.conv>>]]
    /\ UNCHANGED <<upstream, rows, stored, used>>

\* The message is new or was edited: its author is observed, its channel and workspace once
\* in a run.  The events concern different rows.
RecordItem(q, edited) ==
    LET cur == run[q].cur
        new == stored[cur.post] = Absent \/ edited
        observed == {x \in Elements(cur.things) : x \in User \/ x \notin run[q].seen}
    IN  /\ run[q].at = "sync" /\ Resolved(q)
        /\ rows' = IF ~new THEN rows
                   ELSE [x \in Thing |-> IF x \notin observed THEN rows[x]
                                         ELSE Observed(x, Known(q, Asker(q), x))]
        /\ stored' = IF ~new THEN stored
                     ELSE [stored EXCEPT ![cur.post] =
                             IF Asker(q) \in run[q].described THEN TeamOf[Asker(q)] ELSE NoTeam]
        /\ run' = [run EXCEPT ![q].cur = None, ![q].left = @ \ {cur.post},
                              ![q].seen = IF new THEN @ \union observed ELSE @]
        /\ UNCHANGED <<upstream, used>>

\* slack resolve-names: the ids of the ingested messages, each with the workspaces it was
\* seen in, and the workspaces themselves.
distinctByTeam(x) == {stored[p] : p \in {r \in Post : stored[r] # Absent /\ x \in {r.user, r.conv}}}

IdsToName(described) ==
    {x \in User \union Conv : distinctByTeam(x) # {}}
      \union {stored[p] : p \in {r \in Post : stored[r] \notin {Absent, NoTeam}}}
      \union {TeamOf[t] : t \in described}

backfillSlackNames(q, force) ==
    /\ Start(q)
    /\ \E p \in Post : stored[p] # Absent
    /\ \E described \in Described :
          LET ids == IdsToName(described) IN
          run' = [run EXCEPT ![q] = [NewRun("fill", described) EXCEPT
              !.force = force,
              !.ids = [x \in ids |-> IF x \in Team THEN {x} ELSE distinctByTeam(x)]]]
    /\ UNCHANGED <<upstream, rows, stored>>

\* The token of that workspace first, and one more.
resolversFor(described, team) ==
    LET matched == {t \in described : TeamOf[t] = team}
        first == IF matched = {} THEN Least(Token) ELSE Least(matched)
        others == Token \ {first}
    IN  IF others = {} THEN <<first>> ELSE <<first, Least(others)>>

\* Workspaces go first, then conversations, then users.
Due(q) ==
    LET left == DOMAIN run[q].ids IN
    IF left \cap Team # {} THEN left \cap Team
    ELSE IF left \cap Conv # {} THEN left \cap Conv ELSE left

Without(ids, x) == [y \in DOMAIN ids \ {x} |-> ids[y]]

\* What has a name is passed over, unless forced; of several workspaces any comes first.
NextId(q) ==
    /\ run[q].at = "fill" /\ run[q].cur = None
    /\ \E x \in Due(q) :
          IF ~run[q].force /\ rows[x] # Nameless
          THEN run' = [run EXCEPT ![q].ids = Without(@, x)]
          ELSE \E team \in run[q].ids[x] :
                  run' = [run EXCEPT ![q].cur = [at |-> "id", things |-> <<x>>,
                                                 tokens |-> resolversFor(run[q].described, team)]]
    /\ UNCHANGED <<upstream, rows, stored, used>>

\* Mutant: the first token's answer stands, whatever it is.
RecordIdAtOnce(q) ==
    LET x == run[q].cur.things[1] IN
    /\ run[q].at = "fill" /\ Resolved(q)
    /\ rows' = [rows EXCEPT ![x] = Observed(x, Known(q, Asker(q), x))]
    /\ run' = [run EXCEPT ![q].cur = None, ![q].ids = Without(@, x)]
    /\ UNCHANGED <<upstream, stored, used>>

\* The next token is tried while there is no name; then what there is is recorded.
RecordId(q) ==
    LET x == run[q].cur.things[1]
        name == Known(q, Asker(q), x)
    IN  /\ run[q].at = "fill" /\ Resolved(q)
        /\ IF name = Nameless /\ Len(run[q].cur.tokens) > 1
           THEN run' = [run EXCEPT ![q].cur.tokens = Tail(@)] /\ UNCHANGED rows
           ELSE /\ rows' = [rows EXCEPT ![x] = Observed(x, name)]
                /\ run' = [run EXCEPT ![q].cur = None, ![q].ids = Without(@, x)]
        /\ UNCHANGED <<upstream, stored, used>>

\* The run is over, or killed.
End(q) ==
    /\ run[q] # Idle
    /\ run' = [run EXCEPT ![q] = Idle]
    /\ UNCHANGED <<upstream, rows, stored, used>>

\* Somebody renames something.
Rename(x) ==
    /\ used.renames < MaxRenames /\ used' = [used EXCEPT !.renames = @ + 1]
    /\ upstream' = [upstream EXCEPT ![x] = @ + 1]
    /\ UNCHANGED <<rows, stored, run>>

Init ==
    /\ upstream = [x \in Thing |-> 1]
    /\ rows = [x \in Thing |-> Nameless]
    /\ stored \in [Post -> Team \union {NoTeam, Absent}]
    /\ run = [q \in Proc |-> Idle]
    /\ used = [runs |-> 0, renames |-> 0, faults |-> 0]

Next ==
    \/ \E q \in Proc :
          \/ BeginSync(q) \/ FetchItem(q) \/ Ask(q) \/ Degrade(q)
          \/ \E edited \in BOOLEAN : RecordItem(q, edited)
          \/ \E force \in BOOLEAN : backfillSlackNames(q, force)
          \/ NextId(q) \/ RecordId(q) \/ End(q)
    \/ \E x \in Renamed : Rename(x)

Spec == Init /\ [][Next]_vars
-----------------------------------------------------------------------------
(***************************************************************************)
(* Properties.                                                             *)
(***************************************************************************)

\* A name that is shown was the thing's own, its members' if it is named by them, at some
\* moment of the run that recorded it: nothing a run was told outlives it, and no cache
\* mixes up ids.  One exception: asked for the name of a workspace that is not its own and
\* that it cannot list, or failed to, a token gives the name of its own, and the backfill
\* records that.
Nameable(q, x) ==
    CASE x \in Conv -> {x} \union MembersOf[x]
      [] x \in Team /\ run[q].at = "fill" /\ (x \notin Reach[Asker(q)] \/ run[q].fault) -> Team
      [] OTHER -> {x}

OwnName(q, x, name) ==
    \A part \in name :
        part[1] \in Nameable(q, x) /\ (part[2] = 0 \/ part[2] >= run[q].start[part[1]])

\* A name that is known is never lost, and changes only to one that is so.
NamesKeptStep ==
    \A x \in Thing : rows'[x] # rows[x] =>
        rows'[x] # Nameless /\ \E q \in Proc : Asking(q) /\ OwnName(q, x, rows'[x])

\* When resolve-names is through with an id and no request failed in its run, the id has a
\* name, provided that one of the tokens tried may ask for it: what one token may not see
\* does not keep another from telling it.
Tellable(x, t) ==
    x \in Team \/ ({x} \union (IF x \in Conv \ Group THEN MembersOf[x] ELSE {})) \subseteq Sees[t]

BackfilledStep ==
    \A q \in Proc :
        run[q].at = "fill" /\ run'[q].at = "fill" /\ ~run[q].fault =>
            \A x \in DOMAIN run[q].ids \ DOMAIN run'[q].ids :
               (\E team \in run[q].ids[x] : \A t \in Elements(resolversFor(run[q].described, team)) :
                   ~Tellable(x, t))
                 \/ rows'[x] # Nameless

NamesKept == [][NamesKeptStep /\ BackfilledStep]_vars
-----------------------------------------------------------------------------
(***************************************************************************)
(* Why they hold: what the caches of a run have, and the tokens it tried.  *)
(***************************************************************************)

NameSet == SUBSET ((Thing \union {"unasked"}) \X Nat)
Key     == Token \union {Shared}

\* What is asked for: the names of a message, or of an id.
Item == [at : {"item"}, post : Post, tokens : Seq(Token), things : Seq(Thing)]
Id   == [at : {"id"}, things : Seq(Thing), tokens : Seq(Token)]

Run == [at : {"sync", "fill"}, cur : {None} \union Item \union Id, seen : SUBSET Thing,
        left : SUBSET Post, ids : UNION {[D -> SUBSET (Team \union {NoTeam})] : D \in SUBSET Thing},
        force : BOOLEAN, cache : [Key -> [Thing -> NameSet]], listed : SUBSET Key,
        described : SUBSET Token, start : [Thing -> Nat], fault : BOOLEAN]

\* The caches that a run uses.
Keys(r) == IF r.at = "sync" THEN {Shared} ELSE Token

\* Whose names a name of x may be made of: see OwnName.
Owners(r, k, x) ==
    IF x \in Conv THEN {x} \union MembersOf[x]
    ELSE IF x \in Team /\ r.at = "fill" /\ (x \notin Reach[k] \/ r.fault) THEN Team ELSE {x}

MadeOf(name, owners, start) ==
    \A part \in name : part[1] \in owners /\ (part[2] = 0 \/ part[2] >= start[part[1]])

CacheOwn(r) ==
    \A k \in Keys(r), x \in Thing :
       r.cache[k][x] = Unasked \/ MadeOf(r.cache[k][x], Owners(r, k, x), r.start)

\* After its sweep a token has the names of the workspaces it can list.
SweepOK(r) ==
    r.at = "fill" /\ ~r.fault =>
        \A k \in r.listed : k \in Token /\ \A x \in Reach[k] : r.cache[k][x] # Unasked

\* It has no name only of what it may not ask for.
TellsAll(r) ==
    r.at = "fill" /\ ~r.fault =>
        \A k \in Token, x \in Thing : r.cache[k][x] = Nameless => ~Tellable(x, k)

\* A message is listed with one token, whose workspace it is of.
ItemOK(r) ==
    r.at = "sync" /\ r.cur # None =>
        /\ r.cur \in Item
        /\ \E t \in Token, u \in User, c \in Conv :
              r.cur.tokens = <<t>> /\ r.cur.things \in {<<u, c>>, <<u, c, TeamOf[t]>>}

\* The tokens given up may not ask for the id.
IdOK(r) ==
    r.at = "fill" /\ r.cur # None =>
        /\ r.cur \in Id
        /\ \E x \in DOMAIN r.ids :
              /\ r.cur.things = <<x>> /\ r.cur.tokens # <<>>
              /\ \E team \in r.ids[x] : \A t \in Elements(resolversFor(r.described, team)) :
                    t \in Elements(r.cur.tokens) \/ (~r.fault => ~Tellable(x, t))

RunOK(r) ==
    r # Idle =>
        /\ r \in Run
        /\ CacheOwn(r) /\ SweepOK(r) /\ TellsAll(r) /\ ItemOK(r) /\ IdOK(r)

NamesInv ==
    /\ upstream \in [Thing -> Nat \ {0}] /\ rows \in [Thing -> NameSet]
    /\ stored \in [Post -> Team \union {NoTeam, Absent}]
    /\ run \in [Proc -> {Idle} \union Run]
    /\ \A q \in Proc :
          /\ RunOK(run[q])
          /\ run[q] # Idle => \A x \in Thing : run[q].start[x] <= upstream[x]
=============================================================================
