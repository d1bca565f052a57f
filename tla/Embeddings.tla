----------------------------- MODULE Embeddings -----------------------------
(***************************************************************************)
(* The embedding sidecar: one vector per source in vec0, the model that    *)
(* made it in embeddings_meta, and the jobs that fill the two: the end of  *)
(* a sync pass, `embeddings drain` and `embeddings rebuild`.               *)
(*                                                                         *)
(* A job reads bodies, awaits the embedder, and stores each vector with    *)
(* four statements that share no transaction.  Forget and the projection   *)
(* rebuild remove vectors.  What a sync pass does to a source beside its   *)
(* body is in SourceStore.                                                 *)
(***************************************************************************)
EXTENDS Naturals, FiniteSets

CONSTANTS
    Source,     \* externalIds
    Content,    \* the texts a source can have
    Model,      \* models, each with its version
    Job,        \* the processes that may be embedding at the same time
    Absent,     \* no row, no item
    JobsOverlap,    \* FALSE: a job starts only while no other is under way
    UpkeepOverlaps, \* FALSE: forgets, projection rebuilds and model swaps, too
    Chunk,      \* how many bodies drain and rebuild hold at once
    MaxEdits,   \* bound: texts stored
    MaxOps      \* bound: forgets, projection rebuilds, model swaps, overlaps, crashes

\* A vector is known by the model that made it and the text it was made of.
Vector == [model : Model, of : Content]

\* A body on its way to the embedder, or its vector on the way back.
Item == [src : Source, of : Content]

ASSUME EmbeddingsAssumption ==
    /\ Absent \notin Content \union Model \union Vector \union Item
    /\ JobsOverlap \in BOOLEAN
    /\ UpkeepOverlaps \in BOOLEAN
    /\ Chunk \in Nat \ {0}
    /\ MaxEdits \in Nat
    /\ MaxOps \in Nat

VARIABLES
    text,       \* the body of each source's row, or Absent
    forgotten,  \* the tombstones
    vec,        \* vec0: the vector of each source, or Absent
    meta,       \* embeddings_meta: the model of each vector, or Absent
    active,     \* the configured model
    job,        \* local state of each job
    torn,       \* the sources a job was storing when it died, until stored again
    edits, ops  \* how much of MaxEdits and MaxOps is used

vars == <<text, forgotten, vec, meta, active, job, torn, edits, ops>>

sidecar == <<vec, meta>>

\* A job has ids whose bodies it has still to read, the items it sent or received,
\* and the one it is storing.
JobState ==
    [pc    : {"idle", "sync", "fetch", "await", "store", "insertVec", "deleteMeta",
              "insertMeta"},
     model : Model,
     ids   : SUBSET Source,
     batch : SUBSET Item,
     cur   : Item \union {Absent}]

TypeOK ==
    /\ text \in [Source -> Content \union {Absent}]
    /\ forgotten \subseteq Source
    /\ vec \in [Source -> Vector \union {Absent}]
    /\ meta \in [Source -> Model \union {Absent}]
    /\ active \in Model
    /\ job \in [Job -> JobState]
    /\ \A j \in Job :
          job[j].pc \in {"insertVec", "deleteMeta", "insertMeta"} <=> job[j].cur # Absent
    /\ torn \subseteq Source
    /\ edits \in 0 .. MaxEdits
    /\ ops \in 0 .. MaxOps

Idle(m) == [pc |-> "idle", model |-> m, ids |-> {}, batch |-> {}, cur |-> Absent]

Init ==
    /\ text = [s \in Source |-> Absent]
    /\ forgotten = {}
    /\ vec = [s \in Source |-> Absent]
    /\ meta = [s \in Source |-> Absent]
    /\ active \in Model
    /\ job = [j \in Job |-> Idle(active)]
    /\ torn = {}
    /\ edits = 0
    /\ ops = 0
-----------------------------------------------------------------------------
Quiet == \A j \in Job : job[j].pc = "idle"

Spend == ops < MaxOps /\ ops' = ops + 1

Present == {s \in Source : text[s] # Absent}

Start(j, pc, ids) ==
    /\ job[j].pc = "idle"
    /\ IF Quiet THEN UNCHANGED ops ELSE JobsOverlap /\ Spend
    /\ job' = [job EXCEPT ![j] = [Idle(active) EXCEPT !.pc = pc, !.ids = ids]]
    /\ UNCHANGED <<text, forgotten, sidecar, active, torn, edits>>

\* A sync pass configured with an embedder.
BeginSync(j) == Start(j, "sync", {})

\* The pass records a new or changed source and queues its body.
StoreSource(j, s, c) ==
    /\ job[j].pc = "sync"
    /\ edits < MaxEdits
    /\ s \notin forgotten
    /\ text[s] # c
    /\ \A i \in job[j].batch : i.src # s
    /\ text' = [text EXCEPT ![s] = c]
    /\ job' = [job EXCEPT ![j].batch = @ \union {[src |-> s, of |-> c]}]
    /\ edits' = edits + 1
    /\ UNCHANGED <<forgotten, sidecar, active, torn, ops>>

\* embedSources: the bodies queued during the pass are sent at its end.
EndSync(j) ==
    /\ job[j].pc = "sync"
    /\ job' = [job EXCEPT ![j] = IF @.batch = {} THEN Idle(@.model)
                                 ELSE [@ EXCEPT !.pc = "await"]]
    /\ UNCHANGED <<text, forgotten, sidecar, active, torn, edits, ops>>

\* Sources without a meta row.
embeddingDrain(j) == Start(j, "fetch", {s \in Present : meta[s] = Absent})

\* Sources without a meta row or with another model's.
embeddingRebuild(j) == Start(j, "fetch", {s \in Present : meta[s] # active})

\* Mutant: the full rebuild leaves vectors of the right model alone.
RebuildNotFull(j) == Start(j, "fetch", {s \in Present : meta[s] # active})

\* `--full`
embeddingRebuildFull(j) == Start(j, "fetch", Present)

\* The ids were selected once; bodies are read a chunk at a time, and a source that
\* is gone by then has none.
fetchBodies(j) ==
    /\ job[j].pc = "fetch"
    /\ \/ /\ job[j].ids = {}
          /\ job' = [job EXCEPT ![j] = Idle(@.model)]
       \/ \E ids \in SUBSET job[j].ids :
             /\ Cardinality(ids) = IF Cardinality(job[j].ids) < Chunk
                                   THEN Cardinality(job[j].ids) ELSE Chunk
             /\ ids # {}
             /\ job' = [job EXCEPT
                          ![j].pc = "await",
                          ![j].ids = @ \ ids,
                          ![j].batch = {[src |-> s, of |-> text[s]] : s \in ids \intersect Present}]
    /\ UNCHANGED <<text, forgotten, sidecar, active, torn, edits, ops>>

\* The embedder answers with a vector for some of the texts and a hole for the others.
Answer(j, got) ==
    /\ job[j].pc = "await"
    /\ got \subseteq job[j].batch
    /\ got # {} \/ job[j].batch = {}
    /\ job' = [job EXCEPT ![j].pc = "store", ![j].batch = got]
    /\ UNCHANGED <<text, forgotten, sidecar, active, torn, edits, ops>>

\* No vector at all: the call throws, and the job is over.
Outage(j) ==
    /\ job[j].pc = "await"
    /\ job[j].batch # {}
    /\ job' = [job EXCEPT ![j] = Idle(@.model)]
    /\ UNCHANGED <<text, forgotten, sidecar, active, torn, edits, ops>>
-----------------------------------------------------------------------------
(***************************************************************************)
(* upsertSourceVector, statement by statement.                             *)
(***************************************************************************)

DeleteVec(j) ==
    /\ job[j].pc = "store"
    /\ \E i \in job[j].batch :
          /\ vec' = [vec EXCEPT ![i.src] = Absent]
          /\ job' = [job EXCEPT ![j].pc = "insertVec", ![j].batch = @ \ {i}, ![j].cur = i]
    /\ UNCHANGED <<text, forgotten, meta, active, torn, edits, ops>>

\* An insert meets a row of the same primary key only if another job wrote it since
\* the delete: it throws, and the job is over.
Conflict(j) ==
    LET s == job[j].cur.src IN
    /\ job[j].cur # Absent
    /\ \/ job[j].pc = "insertVec" /\ vec[s] # Absent
       \/ job[j].pc = "insertMeta" /\ meta[s] # Absent
    /\ job' = [job EXCEPT ![j] = Idle(@.model)]
    /\ UNCHANGED <<text, forgotten, sidecar, active, torn, edits, ops>>

InsertVec(j) ==
    LET i == job[j].cur IN
    /\ job[j].pc = "insertVec"
    /\ vec[i.src] = Absent
    /\ vec' = [vec EXCEPT ![i.src] = [model |-> job[j].model, of |-> i.of]]
    /\ job' = [job EXCEPT ![j].pc = "deleteMeta"]
    /\ UNCHANGED <<text, forgotten, meta, active, torn, edits, ops>>

DeleteMeta(j) ==
    /\ job[j].pc = "deleteMeta"
    /\ meta' = [meta EXCEPT ![job[j].cur.src] = Absent]
    /\ job' = [job EXCEPT ![j].pc = "insertMeta"]
    /\ UNCHANGED <<text, forgotten, vec, active, torn, edits, ops>>

InsertMeta(j) ==
    LET s == job[j].cur.src IN
    /\ job[j].pc = "insertMeta"
    /\ meta[s] = Absent
    /\ meta' = [meta EXCEPT ![s] = job[j].model]
    /\ torn' = IF vec[s] = Absent THEN torn ELSE torn \ {s}
    /\ job' = [job EXCEPT ![j].pc = "store", ![j].cur = Absent]
    /\ UNCHANGED <<text, forgotten, vec, active, edits, ops>>

\* The chunk is stored; a sync pass never has ids left.
ChunkDone(j) ==
    /\ job[j].pc = "store"
    /\ job[j].batch = {}
    /\ job' = [job EXCEPT ![j] = IF @.ids = {} THEN Idle(@.model) ELSE [@ EXCEPT !.pc = "fetch"]]
    /\ UNCHANGED <<text, forgotten, sidecar, active, torn, edits, ops>>

\* The process dies, wherever it is.
Die(j) ==
    /\ job[j].pc # "idle"
    /\ Spend
    /\ job' = [job EXCEPT ![j] = Idle(@.model)]
    /\ torn' = IF job[j].cur = Absent THEN torn ELSE torn \union {job[j].cur.src}
    /\ UNCHANGED <<text, forgotten, sidecar, active, edits>>
-----------------------------------------------------------------------------
\* The row, the vector and its meta are purged in one transaction.
Forget(s) ==
    /\ UpkeepOverlaps \/ Quiet
    /\ Spend
    /\ text[s] # Absent
    /\ text' = [text EXCEPT ![s] = Absent]
    /\ forgotten' = forgotten \union {s}
    /\ vec' = [vec EXCEPT ![s] = Absent]
    /\ meta' = [meta EXCEPT ![s] = Absent]
    /\ torn' = torn \ {s}
    /\ UNCHANGED <<active, job, edits>>

Unforget(s) ==
    /\ UpkeepOverlaps \/ Quiet
    /\ s \in forgotten
    /\ forgotten' = forgotten \ {s}
    /\ UNCHANGED <<text, sidecar, active, job, torn, edits, ops>>

\* Mutant: only the vectors are cleared.
TruncateVec ==
    /\ vec' = [s \in Source |-> Absent]
    /\ UNCHANGED meta

\* truncateProjections clears both, since neither can be replayed.
Truncate ==
    /\ vec' = [s \in Source |-> Absent]
    /\ meta' = [s \in Source |-> Absent]

\* Replay brings the rows back as they were, and no vector.
RebuildProjections ==
    /\ UpkeepOverlaps \/ Quiet
    /\ Spend
    /\ Truncate
    /\ torn' = {}
    /\ UNCHANGED <<text, forgotten, active, job, edits>>

\* The operator configures another model; running jobs keep theirs.
SwapModel(m) ==
    /\ UpkeepOverlaps \/ Quiet
    /\ Spend
    /\ active # m
    /\ active' = m
    /\ UNCHANGED <<text, forgotten, sidecar, job, torn, edits>>
-----------------------------------------------------------------------------
StoreVector(j) ==
    DeleteVec(j) \/ Conflict(j) \/ InsertVec(j) \/ DeleteMeta(j) \/ InsertMeta(j)

Receive(j) == \E got \in SUBSET job[j].batch : Answer(j, got)

Begin(j) ==
    BeginSync(j) \/ embeddingDrain(j) \/ embeddingRebuild(j) \/ embeddingRebuildFull(j)

Next ==
    \/ \E j \in Job :
          \/ Begin(j)
          \/ \E s \in Source, c \in Content : StoreSource(j, s, c)
          \/ EndSync(j)
          \/ fetchBodies(j)
          \/ Receive(j)
          \/ Outage(j)
          \/ StoreVector(j)
          \/ ChunkDone(j)
          \/ Die(j)
    \/ \E s \in Source : Forget(s) \/ Unforget(s)
    \/ RebuildProjections
    \/ \E m \in Model : SwapModel(m)

Spec == Init /\ [][Next]_vars
-----------------------------------------------------------------------------
(***************************************************************************)
(* Properties.                                                             *)
(***************************************************************************)

Writing(s) == \E j \in Job : job[j].cur # Absent /\ job[j].cur.src = s

\* What forget purged has no vector, and no job under way brings one back
\* (source-forget.ts:14-18): a vector's source is stored.
NoOrphanVector ==
    \A s \in Source : text[s] = Absent => vec[s] = Absent /\ meta[s] = Absent

\* `embeddings status` counts by embeddings_meta alone.  Unless a process died
\* between the four statements, a source has a meta row exactly if it has a vector,
\* of that model (ADR-0005 section 5).
CoverageHonest ==
    \A s \in Source \ torn :
        ~Writing(s) =>
            IF meta[s] = Absent THEN vec[s] = Absent
            ELSE vec[s] # Absent /\ vec[s].model = meta[s]

\* What recall and `embeddings status` answer from is so.
ReportHonest == NoOrphanVector /\ CoverageHonest

\* Full rebuilds, run again and again, heal whatever overlapping jobs, crashes, holes,
\* model swaps and cleared projections left: in the end every source has a vector of its text in the
\* configured model's space.
FullRebuildHeals ==
    <>[](\A s \in Present :
            ~Writing(s) => /\ vec[s] = [model |-> active, of |-> text[s]]
                           /\ meta[s] = active)

\* A job goes on by itself; the embedder, asked again and again for a source, answers
\* for it in the end; the operator's full rebuild gets its turn.
Fairness ==
    /\ \A j \in Job :
          WF_vars(EndSync(j) \/ fetchBodies(j) \/ Receive(j) \/ Outage(j)
                   \/ StoreVector(j) \/ ChunkDone(j))
    /\ SF_vars(\E j \in Job : embeddingRebuildFull(j))
    /\ \A s \in Source :
          SF_vars(\E j \in Job : \E got \in SUBSET job[j].batch :
                    /\ \E i \in got : i.src = s
                    /\ Answer(j, got))

FairSpec == Spec /\ Fairness
=============================================================================
