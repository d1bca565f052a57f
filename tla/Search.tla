------------------------------- MODULE Search -------------------------------
(***************************************************************************)
(* The tool `search`.  The words are looked up in the full-text index when *)
(* the call arrives, with one statement for the page and, if it is full,   *)
(* another that counts the matches; the meaning is looked up among the     *)
(* vectors once the embedder has answered for the query.  Between any two  *)
(* of these other processes ingest and forget sources and store vectors.   *)
(* Both lists are cut at the limit and fused by Reciprocal Rank Fusion.    *)
(* The index and, for queries too short for it, the scan both give the     *)
(* matches of the words, in an order of their own.                         *)
(***************************************************************************)
EXTENDS Naturals, Sequences, FiniteSets, SequencesExt

CONSTANTS
    Source,     \* external ids; their numbers are their order as text
    WordOrders, \* orders in which the index ranks the sources
    NearOrders, \* orders of the vectors' distances to the query
    Typed,      \* the sources of the type a filter asks for
    Limits,     \* limits asked for
    Overfetch,  \* RECALL_FILTER_OVERFETCH
    RrfK,       \* DEFAULT_RRF_K
    MaxChanges, \* bound: changes by other processes
    MaxAsks     \* bound: searches

\* What the constants are.
SearchConstants ==
    /\ Source \subseteq Nat /\ Typed \subseteq Source /\ Limits \subseteq Nat \ {0}
    /\ WordOrders \union NearOrders \subseteq SetToSeqs(Source)
    /\ Overfetch \in Nat \ {0} /\ RrfK \in Nat \ {0}

VARIABLES
    backend,    \* an embedder is configured
    wordOrder, nearOrder,
    stored,     \* the sources in the store
    matching,   \* those of them whose text has the words
    vectors,    \* the external ids with a vector, of sources gone included
    call,       \* the search in flight
    answer,     \* the last answer, and what there was when its lists were read
    changes, asks

world == <<stored, matching, vectors>>
setting == <<backend, wordOrder, nearOrder>>
vars == <<setting, world, call, answer, changes, asks>>

Idle == [at |-> "idle"]
NoAnswer == [mode |-> "none"]
NoRows   == [hits |-> <<>>, truncated |-> FALSE]

Init ==
    /\ backend \in BOOLEAN
    /\ wordOrder \in WordOrders /\ nearOrder \in NearOrders
    /\ stored = Source /\ matching \in SUBSET Source /\ vectors \in {Source, Typed}
    /\ call = Idle /\ answer = NoAnswer
    /\ changes = 0 /\ asks = 0

Passing(filtered) == IF filtered THEN Typed ELSE Source

Ranked(order, S) == SelectSeq(order, LAMBDA s : s \in S)

Page(seq, limit) == SubSeq(seq, 1, IF Len(seq) < limit THEN Len(seq) ELSE limit)

Matches(filtered) == stored \cap matching \cap Passing(filtered)

\* searchSources begins with a page of the matches; a short one has them all.
searchSources(filtered, limit) ==
    [hits |-> Page(Ranked(wordOrder, Matches(filtered)), limit), truncated |-> FALSE]

\* The k nearest vectors come first; the join and the filter see only those.
NearestK(filtered, limit) ==
    Page(Ranked(nearOrder, vectors), IF filtered THEN (limit + 1) * Overfetch ELSE limit + 1)

\* recallSearch, after the embedder's answer.
recallSearch(filtered, limit) ==
    LET rows == Page(Ranked(NearestK(filtered, limit), stored \cap Passing(filtered)), limit + 1) IN
    [hits |-> Page(rows, limit), truncated |-> Len(rows) > limit]

RankIn(seq, s) == CHOOSE n \in DOMAIN seq : seq[n] = s

\* A score as a fraction: 1 / (RrfK + rank), summed over the lists that have the hit.
Score(s, a, b) ==
    LET den(l) == RrfK + RankIn(l, s) - 1
        inA == s \in ToSet(a)
        inB == s \in ToSet(b) IN
    IF inA /\ inB THEN <<den(a) + den(b), den(a) * den(b)>>
    ELSE IF inA THEN <<1, den(a)>> ELSE <<1, den(b)>>

\* fuseRrf: by score, then by external id.
fuseRrf(a, b) ==
    LET Before(s, t) ==
            LET p == Score(s, a, b)
                q == Score(t, a, b) IN
            \/ p[1] * q[2] > q[1] * p[2]
            \/ p[1] * q[2] = q[1] * p[2] /\ s < t IN
    SetToSortSeq(ToSet(a) \union ToSet(b), Before)
-----------------------------------------------------------------------------
Reply(mode, words, near, hits, truncated, signal) ==
    answer' = [mode |-> mode, hits |-> hits, truncated |-> truncated, signal |-> signal,
               words |-> words.hits, near |-> near.hits, filtered |-> call'.filtered,
               asked |-> call'.asked, counted |-> call'.counted,
               heard |-> [stored |-> stored, vectors |-> vectors]]

\* The embedder is awaited once the words are read; without a backend the call is
\* answered: `auto` is then `fts`.
AfterWords(mode) == IF mode = "fts" \/ ~backend THEN "answered" ELSE "embedding"

ReplyByWords ==
    IF call'.at # "answered" THEN UNCHANGED answer
    ELSE Reply(call'.mode, call'.words, NoRows, call'.words.hits, call'.words.truncated,
               call'.mode # "fts")

\* The call reads the page of the words at once, except for mode `semantic`.
Ask(mode, filtered, limit) ==
    /\ call = Idle /\ asks < MaxAsks
    /\ asks' = asks + 1
    /\ LET words == IF mode = "semantic" THEN NoRows ELSE searchSources(filtered, limit) IN
       call' = [at |-> IF Len(words.hits) = limit THEN "count" ELSE AfterWords(mode),
                mode |-> mode, filtered |-> filtered, limit |-> limit, words |-> words,
                asked |-> [stored |-> stored, matching |-> Matches(filtered)],
                counted |-> Matches(filtered)]
    /\ ReplyByWords
    /\ UNCHANGED <<setting, world, changes>>

\* The page is full: a second statement counts what matches by now.
Count ==
    /\ call.at = "count"
    /\ LET now == Matches(call.filtered) IN
       call' = [call EXCEPT !.at = AfterWords(call.mode), !.counted = now,
                            !.words.truncated = Cardinality(now) > call.limit]
    /\ ReplyByWords
    /\ UNCHANGED <<setting, world, changes, asks>>

Return ==
    /\ call.at = "answered"
    /\ call' = Idle
    /\ UNCHANGED <<setting, world, answer, changes, asks>>

\* Mutant: only the words and the fusion can say that there is more.
TruncatedLate(words, near, fused) == words.truncated \/ Len(fused) > call.limit

Truncated(words, near, fused) ==
    words.truncated \/ near.truncated \/ Len(fused) > call.limit

\* The embedder answers with the query's vector.
Embedded ==
    /\ call.at = "embedding"
    /\ call' = [call EXCEPT !.at = "answered"]
    /\ LET near == recallSearch(call.filtered, call.limit)
           fused == fuseRrf(call.words.hits, near.hits) IN
       IF call.mode = "semantic"
       THEN Reply("semantic", NoRows, near, near.hits, near.truncated, FALSE)
       ELSE Reply("hybrid", call.words, near, Page(fused, call.limit),
                  Truncated(call.words, near, fused), FALSE)
    /\ UNCHANGED <<setting, world, changes, asks>>

\* It fails, and the call degrades to what it has.
Unreachable ==
    /\ call.at = "embedding"
    /\ call' = [call EXCEPT !.at = "answered"]
    /\ LET fused == fuseRrf(call.words.hits, <<>>) IN
       Reply(call.mode, call.words, NoRows, Page(fused, call.limit),
             call.mode = "hybrid" /\ Truncated(call.words, NoRows, fused), TRUE)
    /\ UNCHANGED <<setting, world, changes, asks>>

\* Other processes ingest, change and forget sources, and store vectors.
Change ==
    /\ changes < MaxChanges
    /\ changes' = changes + 1
    /\ \E s \in Source :
          \/ /\ stored' = stored \union {s}
             /\ matching' \in {matching \union {s}, matching \ {s}}
             /\ UNCHANGED vectors
          \/ /\ stored' = stored \ {s} /\ matching' = matching \ {s}
             /\ vectors' \in {vectors, vectors \ {s}}
          \/ vectors' = vectors \union {s} /\ UNCHANGED <<stored, matching>>
    /\ UNCHANGED <<setting, call, answer, asks>>

Next ==
    \/ \E mode \in {"fts", "semantic", "hybrid"}, filtered \in BOOLEAN, limit \in Limits :
          Ask(mode, filtered, limit)
    \/ Count \/ Embedded \/ Unreachable \/ Return \/ Change

Spec == Init /\ [][Next]_vars
-----------------------------------------------------------------------------
(***************************************************************************)
(* Properties.                                                             *)
(***************************************************************************)

Found == ToSet(answer.hits)

\* An answer that does not say `truncated` has every match there was: by words, as they
\* were when the call arrived, and by meaning, unless the answer carries the signal
\* that meaning was not searched.  Two exceptions.  A match that goes between the page and
\* the count is missed by the count: as many as went may be missing.  And a vector that
\* belongs to no source, or to one the filter drops, takes its place among the k nearest
\* all the same, and a match behind it may be missing without `truncated`.
SearchComplete ==
    answer.mode # "none" /\ ~answer.truncated =>
        /\ answer.mode # "semantic" =>
              Cardinality(answer.asked.matching \ Found)
                  <= Cardinality(answer.asked.matching \ answer.counted)
        /\ answer.mode # "fts" /\ ~answer.signal =>
              LET live == answer.heard.stored \cap Passing(answer.filtered) IN
              \A s \in (answer.heard.vectors \cap live) \ Found :
                  \E r \in answer.heard.vectors \ live :
                      RankIn(nearOrder, r) < RankIn(nearOrder, s)

\* A hit that both lists have goes before every hit that only one has, nothing is
\* listed twice, and a hit was in the store when the list it comes from was read; a
\* source forgotten while the embedder was awaited may still be among them, by words.
FusedInOrder ==
    answer.mode # "none" =>
        LET words == ToSet(answer.words)
            near  == ToSet(answer.near)
            both  == words \cap near IN
        /\ \A m, n \in DOMAIN answer.hits :
              /\ m # n => answer.hits[m] # answer.hits[n]
              /\ answer.hits[m] \in both /\ answer.hits[n] \notin both => m < n
        /\ words \subseteq answer.asked.stored /\ near \subseteq answer.heard.stored
=============================================================================
