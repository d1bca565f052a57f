--------------------- MODULE EmbeddingsAttention_proofs ---------------------
(***************************************************************************)
(* Proofs about Embeddings: what recall and `embeddings status` answer     *)
(* from, for any sources, texts and models and any number of jobs that     *)
(* overlap as they like, as long as forgets, projection rebuilds and model *)
(* swaps wait for them; and about Attention: what the demand list, the     *)
(* list tools, the brief and the next actions show, for any scenarios,     *)
(* windows, caps and limits.  The two share no name and no state;          *)
(* Embeddings comes first.                                                 *)
(***************************************************************************)
EXTENDS Embeddings, Attention, TLAPS, FiniteSetTheorems, WellFoundedInduction

WritingPC == {"insertVec", "deleteMeta", "insertMeta"}

\* Job j is storing the vector of s, and is at the statement pc.
At(j, s, pc) == job[j].cur # Absent /\ job[j].cur.src = s /\ job[j].pc = pc

\* Some job is.
SomeAt(s, pc) == \E j \in Job : At(j, s, pc)

\* Nobody forgets a source, or changes the model, under a job.
JobsOK ==
  \A j \in Job :
     /\ job[j].cur # Absent => text[job[j].cur.src] # Absent
     /\ job[j].pc # "idle" => /\ job[j].model = active
                              /\ \A i \in job[j].batch : text[i.src] # Absent

\* What is missing, or of another model, a job is about to make good: who deleted the
\* vector inserts it, and who inserted it replaces the meta row.
HalfDone(s) ==
  /\ vec[s] = Absent /\ meta[s] # Absent => SomeAt(s, "insertVec")
  /\ vec[s] # Absent /\ meta[s] = Absent => SomeAt(s, "deleteMeta") \/ SomeAt(s, "insertMeta")
  /\ vec[s] # Absent /\ meta[s] # Absent /\ vec[s].model # meta[s] => SomeAt(s, "deleteMeta")
  /\ vec[s] = Absent /\ (SomeAt(s, "deleteMeta") \/ SomeAt(s, "insertMeta"))
       => SomeAt(s, "insertVec")

\* The vector a job has inserted is of the model all jobs have.
Inserted(s) ==
  vec[s] # Absent /\ (SomeAt(s, "deleteMeta") \/ SomeAt(s, "insertMeta"))
    => vec[s].model = active

IInv ==
  /\ TypeOK
  /\ JobsOK
  /\ NoOrphanVector
  /\ \A s \in Source : Inserted(s)
  /\ \A s \in Source \ torn : HalfDone(s)
-----------------------------------------------------------------------------
(***************************************************************************)
(* The steps.                                                              *)
(***************************************************************************)

\* Job j moves to the state u.
Moves(j, u) ==
  /\ job' \in [Job -> JobState] /\ job'[j] = u
  /\ \A k \in Job : k # j => job'[k] = job[k]

LEMMA JobFields ==
  ASSUME NEW u \in JobState
  PROVE  /\ u.pc \in {"idle", "sync", "fetch", "await", "store", "insertVec", "deleteMeta",
                      "insertMeta"}
         /\ u.model \in Model /\ u.ids \subseteq Source /\ u.batch \subseteq Item
         /\ u.cur \in Item \union {Absent}
         /\ u = [pc |-> u.pc, model |-> u.model, ids |-> u.ids, batch |-> u.batch,
                 cur |-> u.cur]
BY DEF JobState

LEMMA JobMoves ==
  ASSUME job \in [Job -> JobState], NEW j \in Job, NEW u \in JobState,
         job' = [job EXCEPT ![j] = u]
  PROVE  Moves(j, u)
BY DEF Moves

\* A step that writes no vector and lets nobody begin or end to.
LEMMA SameWriters ==
  ASSUME NEW s, NEW j \in Job, NEW u, Moves(j, u), u.cur = Absent, job[j].cur = Absent,
         vec'[s] = vec[s], meta'[s] = meta[s], active' = active
  PROVE  (Inserted(s) => Inserted(s)') /\ (HalfDone(s) => HalfDone(s)')
<1>1. ASSUME NEW pc PROVE SomeAt(s, pc)' <=> SomeAt(s, pc)
  BY DEF SomeAt, At, Moves
<1> QED BY <1>1 DEF Inserted, HalfDone

\* A step of a job that writes the vector of another source.
LEMMA OtherSource ==
  ASSUME NEW s, NEW j \in Job, NEW u, Moves(j, u),
         u.cur # Absent => u.cur.src # s, job[j].cur # Absent => job[j].cur.src # s,
         vec'[s] = vec[s], meta'[s] = meta[s], active' = active
  PROVE  (Inserted(s) => Inserted(s)') /\ (HalfDone(s) => HalfDone(s)')
<1>1. ASSUME NEW pc PROVE SomeAt(s, pc)' <=> SomeAt(s, pc)
  BY DEF SomeAt, At, Moves
<1> QED BY <1>1 DEF Inserted, HalfDone
-----------------------------------------------------------------------------
\* The state of a job.
LEMMA JobState1 ==
  ASSUME IInv, NEW j \in Job
  PROVE  /\ job \in [Job -> JobState] /\ job[j] \in JobState
         /\ job[j].pc \in WritingPC <=> job[j].cur # Absent
         /\ \A i \in job[j].batch : i \in Item /\ i.src \in Source /\ i.of \in Content
         /\ job[j].cur # Absent => /\ job[j].cur \in Item /\ job[j].cur.src \in Source
                                   /\ job[j].cur.of \in Content
                                   /\ text[job[j].cur.src] # Absent
         /\ job[j].pc # "idle" => /\ job[j].model = active
                                  /\ \A i \in job[j].batch : text[i.src] # Absent
<1>1. job \in [Job -> JobState] /\ job[j] \in JobState
      /\ (job[j].pc \in WritingPC <=> job[j].cur # Absent)
  BY DEF IInv, TypeOK, WritingPC
<1>2. job[j].batch \subseteq Item /\ job[j].cur \in Item \union {Absent}
  BY <1>1, JobFields
<1> QED BY <1>1, <1>2 DEF IInv, JobsOK, Item

LEMMA IdleModel ==
  ASSUME NEW m \in Model
  PROVE  /\ Idle(m) \in JobState /\ Idle(m).cur = Absent /\ Idle(m).pc = "idle"
         /\ Idle(m).batch = {}
BY DEF Idle, JobState

\* A step of a job that is not storing a vector.
LEMMA ReadingSteps ==
  ASSUME IInv, NEW j \in Job, NEW u \in JobState, job' = [job EXCEPT ![j] = u],
         job[j].cur = Absent, u.cur = Absent, u.pc \notin WritingPC,
         \A i \in u.batch : text'[i.src] # Absent,
         u.pc # "idle" => u.model = active,
         UNCHANGED <<vec, meta, active, torn>>,
         text' \in [Source -> Content \union {Absent}],
         \A s \in Source : text[s] # Absent => text'[s] # Absent,
         forgotten' \subseteq Source, edits' \in 0 .. MaxEdits, ops' \in 0 .. MaxOps
  PROVE  IInv'
<1>1. Moves(j, u)
  BY JobMoves DEF IInv, TypeOK
<1>2. TypeOK'
  BY <1>1 DEF IInv, TypeOK, Moves, WritingPC
<1>3. JobsOK'
  <2> SUFFICES ASSUME NEW k \in Job
               PROVE  /\ job'[k].cur # Absent => text'[job'[k].cur.src] # Absent
                      /\ job'[k].pc # "idle" =>
                            /\ job'[k].model = active'
                            /\ \A i \in job'[k].batch : text'[i.src] # Absent
    BY DEF JobsOK
  <2>1. CASE k = j
    BY <1>1, <2>1 DEF Moves
  <2>2. CASE k # j
    BY <1>1, <2>2, JobState1 DEF Moves
  <2> QED BY <2>1, <2>2
<1>4. NoOrphanVector'
  BY DEF IInv, NoOrphanVector
<1>5. \A s \in Source : Inserted(s)'
  BY <1>1, SameWriters DEF IInv
<1>6. \A s \in Source \ torn' : HalfDone(s)'
  BY <1>1, SameWriters DEF IInv
<1> QED BY <1>2, <1>3, <1>4, <1>5, <1>6 DEF IInv

LEMMA SpendType ==
  ASSUME IInv, ops' = ops \/ Spend
  PROVE  ops' \in 0 .. MaxOps
BY EmbeddingsAssumption DEF IInv, TypeOK, Spend

LEMMA StartSteps ==
  ASSUME IInv, NEW j \in Job, NEW pc \in {"sync", "fetch"}, NEW ids \in SUBSET Source,
         Start(j, pc, ids)
  PROVE  IInv'
<1> DEFINE u == [pc |-> pc, model |-> active, ids |-> ids, batch |-> {}, cur |-> Absent]
<1>1. [Idle(active) EXCEPT !.pc = pc, !.ids = ids] = u
  <2> DEFINE v == [Idle(active) EXCEPT !.pc = pc]
  <2>1. v = [pc |-> pc, model |-> active, ids |-> {}, batch |-> {}, cur |-> Absent]
    BY DEF Idle
  <2> HIDE DEF v
  <2>2. [v EXCEPT !.ids = ids] = u
    BY <2>1
  <2> QED BY <2>2 DEF v
<1>2. job' = [job EXCEPT ![j] = u] /\ job[j].cur = Absent
  BY <1>1, JobState1 DEF Start, WritingPC
<1>3. u \in JobState /\ u.cur = Absent /\ u.pc = pc /\ u.batch = {} /\ u.model = active
  BY DEF JobState, IInv, TypeOK
<1>4. ops' \in 0 .. MaxOps
  BY SpendType DEF Start
<1>5. text' = text /\ forgotten' = forgotten /\ edits' = edits
      /\ UNCHANGED <<vec, meta, active, torn>>
  BY DEF Start, sidecar
<1>6. text \in [Source -> Content \union {Absent}] /\ forgotten \subseteq Source
      /\ edits \in 0 .. MaxEdits
  BY DEF IInv, TypeOK
<1> HIDE DEF u
<1> QED BY <1>2, <1>3, <1>4, <1>5, <1>6, ReadingSteps DEF WritingPC

LEMMA BeginSteps ==
  ASSUME IInv, NEW j \in Job, Begin(j)
  PROVE  IInv'
<1>1. Present \subseteq Source
  BY DEF Present
<1> QED
  BY <1>1, StartSteps
  DEF Begin, BeginSync, embeddingDrain, embeddingRebuild, embeddingRebuildFull

LEMMA StoreSourceSteps ==
  ASSUME IInv, NEW j \in Job, NEW s \in Source, NEW c \in Content, StoreSource(j, s, c)
  PROVE  IInv'
<1> DEFINE i == [src |-> s, of |-> c]
           u == [pc |-> "sync", model |-> job[j].model, ids |-> job[j].ids,
                 batch |-> job[j].batch \union {i}, cur |-> job[j].cur]
<1>1. job[j] \in JobState /\ job[j].pc = "sync" /\ job[j].cur = Absent /\ job[j].model = active
  BY JobState1 DEF StoreSource, WritingPC
<1>2. job' = [job EXCEPT ![j] = u]
  <2>1. [job[j] EXCEPT !.batch = @ \union {i}] = u
    BY <1>1, JobFields
  <2> QED BY <2>1 DEF StoreSource
<1>3. i \in Item /\ i.src = s
  BY DEF Item
<1> HIDE DEF i
<1>4. u \in JobState /\ u.cur = Absent /\ u.pc = "sync" /\ u.model = active
      /\ u.batch = job[j].batch \union {i}
  BY <1>1, <1>3, JobFields DEF JobState
<1> HIDE DEF u
<1>5. /\ text' = [text EXCEPT ![s] = c] /\ c # Absent /\ forgotten' = forgotten
      /\ edits' = edits + 1 /\ edits < MaxEdits /\ ops' = ops
      /\ UNCHANGED <<vec, meta, active, torn>>
  BY EmbeddingsAssumption DEF StoreSource, sidecar
<1>6. text \in [Source -> Content \union {Absent}] /\ forgotten \subseteq Source
      /\ edits \in 0 .. MaxEdits /\ ops \in 0 .. MaxOps /\ MaxEdits \in Nat
  BY EmbeddingsAssumption DEF IInv, TypeOK
<1>7. /\ text' \in [Source -> Content \union {Absent}]
      /\ \A x \in Source : text[x] # Absent => text'[x] # Absent
      /\ text'[s] # Absent /\ edits' \in 0 .. MaxEdits
  BY <1>5, <1>6
<1>8. \A x \in u.batch : text'[x.src] # Absent
  BY <1>1, <1>3, <1>4, <1>7, JobState1
<1> QED BY <1>1, <1>2, <1>4, <1>5, <1>6, <1>7, <1>8, ReadingSteps DEF WritingPC

\* A step of such a job that writes nothing.
LEMMA WaitingSteps ==
  ASSUME IInv, NEW j \in Job, NEW u \in JobState, job' = [job EXCEPT ![j] = u],
         job[j].pc \in {"sync", "fetch", "await", "store"}, u.cur = Absent, u.pc \notin WritingPC,
         \A i \in u.batch : text[i.src] # Absent, u.pc # "idle" => u.model = job[j].model,
         UNCHANGED <<text, forgotten, sidecar, active, torn, edits, ops>>
  PROVE  IInv'
<1>1. job[j].cur = Absent /\ job[j].model = active
  BY JobState1 DEF WritingPC
<1>2. text' \in [Source -> Content \union {Absent}] /\ forgotten' \subseteq Source
      /\ edits' \in 0 .. MaxEdits /\ ops' \in 0 .. MaxOps /\ text' = text
      /\ UNCHANGED <<vec, meta, active, torn>>
  BY DEF IInv, TypeOK, sidecar
<1> QED BY <1>1, <1>2, ReadingSteps

\* The state of job j where it waits, has ids to read and holds a batch.
Waiting(j, pc, ids, batch) ==
  [pc |-> pc, model |-> job[j].model, ids |-> ids, batch |-> batch, cur |-> Absent]

LEMMA AwaitingSteps ==
  ASSUME IInv, NEW j \in Job,
         EndSync(j) \/ Receive(j) \/ Outage(j) \/ ChunkDone(j) \/ fetchBodies(j)
  PROVE  IInv'
<1>1. /\ job[j] \in JobState /\ job[j].model \in Model
      /\ \A i \in job[j].batch : i \in Item /\ text[i.src] # Absent
  <2>1. job[j].pc # "idle"
    BY DEF EndSync, Receive, Answer, Outage, ChunkDone, fetchBodies
  <2> QED BY <2>1, JobState1, JobFields
<1>2. Idle(job[j].model) \in JobState /\ Idle(job[j].model).cur = Absent
      /\ Idle(job[j].model).pc = "idle" /\ Idle(job[j].model).batch = {}
  BY <1>1, IdleModel
<1>3. ASSUME job' = [job EXCEPT ![j] = Idle(job[j].model)],
             job[j].pc \in {"sync", "fetch", "await", "store"},
             UNCHANGED <<text, forgotten, sidecar, active, torn, edits, ops>>
      PROVE  IInv'
  BY <1>2, <1>3, WaitingSteps DEF WritingPC
<1>4. ASSUME NEW pc \in {"fetch", "await", "store"}, NEW ids \in SUBSET Source,
             NEW batch \in SUBSET Item, \A i \in batch : text[i.src] # Absent,
             job' = [job EXCEPT ![j] = Waiting(j, pc, ids, batch)],
             job[j].pc \in {"sync", "fetch", "await", "store"},
             UNCHANGED <<text, forgotten, sidecar, active, torn, edits, ops>>
      PROVE  IInv'
  <2> DEFINE u == Waiting(j, pc, ids, batch)
  <2>1. u \in JobState /\ u.cur = Absent /\ u.pc = pc /\ u.batch = batch
        /\ u.model = job[j].model
    BY <1>1 DEF JobState, Waiting
  <2>2. job' = [job EXCEPT ![j] = u]
    BY <1>4
  <2> HIDE DEF u
  <2> QED BY <1>4, <2>1, <2>2, WaitingSteps DEF WritingPC
<1>5. job[j].pc \in {"sync", "fetch", "await", "store"} => job[j].cur = Absent
  BY JobState1 DEF WritingPC
<1>6. /\ job[j].ids \subseteq Source /\ job[j].batch \subseteq Item
      /\ job[j] = [pc |-> job[j].pc, model |-> job[j].model, ids |-> job[j].ids,
                   batch |-> job[j].batch, cur |-> job[j].cur]
  BY <1>1, JobFields
<1>7. CASE EndSync(j)
  <2>1. [job[j] EXCEPT !.pc = "await"] = Waiting(j, "await", job[j].ids, job[j].batch)
    BY <1>5, <1>6, <1>7 DEF EndSync, Waiting
  <2>2. job[j].pc = "sync" /\ UNCHANGED <<text, forgotten, sidecar, active, torn, edits, ops>>
    BY <1>7 DEF EndSync
  <2>3. \/ job' = [job EXCEPT ![j] = Idle(job[j].model)]
        \/ job' = [job EXCEPT ![j] = Waiting(j, "await", job[j].ids, job[j].batch)]
    BY <1>7, <2>1 DEF EndSync
  <2>4. CASE job' = [job EXCEPT ![j] = Idle(job[j].model)]
    BY <1>3, <2>2, <2>4
  <2>5. CASE job' = [job EXCEPT ![j] = Waiting(j, "await", job[j].ids, job[j].batch)]
    BY <1>1, <1>4, <1>6, <2>2, <2>5
  <2> QED BY <2>3, <2>4, <2>5
<1>8. CASE Receive(j)
  <2> PICK got \in SUBSET job[j].batch : Answer(j, got)
    BY <1>8 DEF Receive
  <2>1. [[job[j] EXCEPT !.pc = "store"] EXCEPT !.batch = got] =
          Waiting(j, "store", job[j].ids, got)
    <3> DEFINE v == [job[j] EXCEPT !.pc = "store"]
    <3>1. v = [pc |-> "store", model |-> job[j].model, ids |-> job[j].ids,
               batch |-> job[j].batch, cur |-> Absent]
      BY <1>5, <1>6 DEF Answer
    <3> HIDE DEF v
    <3>2. [v EXCEPT !.batch = got] = [pc |-> "store", model |-> job[j].model,
             ids |-> job[j].ids, batch |-> got, cur |-> Absent]
      BY <3>1
    <3> QED BY <3>2 DEF v, Waiting
  <2>2. job' = [job EXCEPT ![j] = [[job[j] EXCEPT !.pc = "store"] EXCEPT !.batch = got]]
    BY <1>1, JobState1 DEF Answer
  <2>3. UNCHANGED <<text, forgotten, sidecar, active, torn, edits, ops>>
        /\ job[j].pc = "await"
    BY DEF Answer
  <2>4. job' = [job EXCEPT ![j] = Waiting(j, "store", job[j].ids, got)]
    BY <2>1, <2>2
  <2>5. got \in SUBSET Item /\ \A i \in got : text[i.src] # Absent
    BY <1>1
  <2> QED BY <1>4, <1>6, <2>3, <2>4, <2>5
<1>9. CASE Outage(j)
  BY <1>3, <1>9 DEF Outage
<1>10. CASE ChunkDone(j)
  <2>1. [job[j] EXCEPT !.pc = "fetch"] = Waiting(j, "fetch", job[j].ids, job[j].batch)
    BY <1>5, <1>6, <1>10 DEF ChunkDone, Waiting
  <2> QED BY <1>1, <1>3, <1>4, <1>6, <1>10, <2>1 DEF ChunkDone
<1>11. CASE fetchBodies(j)
  <2>1. CASE job' = [job EXCEPT ![j] = Idle(job[j].model)]
    BY <1>3, <1>11, <2>1 DEF fetchBodies
  <2>2. ASSUME NEW ids \in SUBSET job[j].ids, NEW batch,
               batch = {[src |-> s, of |-> text[s]] : s \in ids \intersect Present},
               job' = [job EXCEPT ![j].pc = "await", ![j].ids = @ \ ids, ![j].batch = batch]
        PROVE  IInv'
    <3>1. batch \in SUBSET Item /\ \A i \in batch : text[i.src] # Absent
      <4>1. ASSUME NEW s \in ids \intersect Present
            PROVE  [src |-> s, of |-> text[s]] \in Item
        BY <1>6 DEF Present, Item, IInv, TypeOK
      <4> QED BY <2>2, <4>1 DEF Present
    <3> DEFINE v == [job[j] EXCEPT !.pc = "await"]
               w == [v EXCEPT !.ids = job[j].ids \ ids]
               u == Waiting(j, "await", job[j].ids \ ids, batch)
    <3>2. v = [pc |-> "await", model |-> job[j].model, ids |-> job[j].ids,
               batch |-> job[j].batch, cur |-> Absent]
      <4>1. job[j].cur = Absent
        BY <1>5, <1>11 DEF fetchBodies
      <4> QED BY <1>6, <4>1
    <3> HIDE DEF v
    <3>3. w = [pc |-> "await", model |-> job[j].model, ids |-> job[j].ids \ ids,
               batch |-> job[j].batch, cur |-> Absent]
      BY <3>2
    <3> HIDE DEF w
    <3>4. [w EXCEPT !.batch = batch] = u
      BY <3>3 DEF Waiting
    <3>5. job' = [job EXCEPT ![j] = [w EXCEPT !.batch = batch]]
      BY <2>2, JobState1 DEF v, w
    <3>6. job' = [job EXCEPT ![j] = u]
      BY <3>4, <3>5
    <3>7. job[j].ids \ ids \in SUBSET Source
      BY <1>6
    <3> HIDE DEF u
    <3>8. UNCHANGED <<text, forgotten, sidecar, active, torn, edits, ops>>
          /\ job[j].pc = "fetch"
      BY <1>11 DEF fetchBodies
    <3> QED BY <1>4, <3>1, <3>6, <3>7, <3>8 DEF u
  <2> QED BY <1>11, <2>1, <2>2 DEF fetchBodies
<1> QED BY <1>7, <1>8, <1>9, <1>10, <1>11
-----------------------------------------------------------------------------
(***************************************************************************)
(* The statements of upsertSourceVector.                                   *)
(***************************************************************************)

\* A step of a job that is storing the vector of s, is about to or was.
LEMMA WritingSteps ==
  ASSUME IInv, NEW j \in Job, NEW u \in JobState, Moves(j, u), NEW s \in Source,
         u.pc \in WritingPC <=> u.cur # Absent,
         \A i \in u.batch : text[i.src] # Absent,
         u.pc # "idle" => u.model = active,
         job[j].cur # Absent => job[j].cur.src = s, u.cur # Absent => u.cur.src = s,
         text[s] # Absent,
         UNCHANGED <<text, forgotten, active, edits>>, ops' \in 0 .. MaxOps,
         vec' \in [Source -> Vector \union {Absent}], meta' \in [Source -> Model \union {Absent}],
         \A x \in Source : x # s => vec'[x] = vec[x] /\ meta'[x] = meta[x],
         torn' \subseteq Source, \A x \in Source : x # s /\ x \in torn => x \in torn',
         Inserted(s)', s \notin torn' => HalfDone(s)'
  PROVE  IInv'
<1>1. TypeOK'
  BY DEF IInv, TypeOK, Moves, WritingPC
<1>2. JobsOK'
  <2> SUFFICES ASSUME NEW k \in Job
               PROVE  /\ job'[k].cur # Absent => text'[job'[k].cur.src] # Absent
                      /\ job'[k].pc # "idle" =>
                            /\ job'[k].model = active'
                            /\ \A i \in job'[k].batch : text'[i.src] # Absent
    BY DEF JobsOK
  <2>1. CASE k = j
    BY <2>1 DEF Moves
  <2>2. CASE k # j
    BY <2>2, JobState1 DEF Moves
  <2> QED BY <2>1, <2>2
<1>3. NoOrphanVector'
  BY DEF IInv, NoOrphanVector
<1>4. ASSUME NEW x \in Source, x # s
      PROVE  (Inserted(x) => Inserted(x)') /\ (HalfDone(x) => HalfDone(x)')
  BY <1>4, OtherSource
<1>5. \A x \in Source : Inserted(x)'
  BY <1>4 DEF IInv
<1>6. \A x \in Source \ torn' : HalfDone(x)'
  BY <1>4 DEF IInv
<1> QED BY <1>1, <1>2, <1>3, <1>5, <1>6 DEF IInv

LEMMA DeleteVecSteps ==
  ASSUME IInv, NEW j \in Job, DeleteVec(j)
  PROVE  IInv'
<1>1. /\ job[j] \in JobState /\ job[j].pc = "store" /\ job[j].cur = Absent
      /\ job[j].model = active
  BY JobState1 DEF DeleteVec, WritingPC
<1>2. PICK i \in job[j].batch :
        /\ vec' = [vec EXCEPT ![i.src] = Absent]
        /\ job' = [job EXCEPT ![j].pc = "insertVec", ![j].batch = @ \ {i}, ![j].cur = i]
  BY DEF DeleteVec
<1>3. i \in Item /\ i.src \in Source /\ text[i.src] # Absent /\ i # Absent
  BY <1>1, JobState1, EmbeddingsAssumption
<1> DEFINE u == [pc |-> "insertVec", model |-> job[j].model, ids |-> job[j].ids,
                 batch |-> job[j].batch \ {i}, cur |-> i]
           s == i.src
<1>4. job' = [job EXCEPT ![j] = u]
  <2> DEFINE v == [job[j] EXCEPT !.pc = "insertVec"]
             w == [v EXCEPT !.batch = job[j].batch \ {i}]
  <2>1. v = [pc |-> "insertVec", model |-> job[j].model, ids |-> job[j].ids,
             batch |-> job[j].batch, cur |-> job[j].cur]
    BY <1>1, JobFields
  <2> HIDE DEF v
  <2>2. w = [pc |-> "insertVec", model |-> job[j].model, ids |-> job[j].ids,
             batch |-> job[j].batch \ {i}, cur |-> job[j].cur]
    BY <2>1
  <2> HIDE DEF w
  <2>3. [w EXCEPT !.cur = i] = u
    BY <2>2
  <2>4. job' = [job EXCEPT ![j] = [w EXCEPT !.cur = i]]
    BY <1>2, JobState1 DEF v, w
  <2> QED BY <2>3, <2>4
<1>5. u \in JobState /\ u.pc = "insertVec" /\ u.cur = i /\ u.batch \subseteq job[j].batch
      /\ u.model = active
  BY <1>1, <1>3, JobFields DEF JobState
<1> HIDE DEF u
<1>6. Moves(j, u)
  BY <1>4, <1>5, JobMoves, JobState1
<1>7. /\ vec' \in [Source -> Vector \union {Absent}] /\ vec'[s] = Absent
      /\ \A x \in Source : x # s => vec'[x] = vec[x]
      /\ meta' = meta /\ meta \in [Source -> Model \union {Absent}]
  BY <1>2, <1>3 DEF IInv, TypeOK, DeleteVec
<1>8. SomeAt(s, "insertVec")'
  BY <1>3, <1>5, <1>6 DEF SomeAt, At, Moves
<1>9. Inserted(s)' /\ HalfDone(s)'
  BY <1>7, <1>8 DEF Inserted, HalfDone
<1>10. UNCHANGED <<text, forgotten, active, edits>> /\ ops' \in 0 .. MaxOps
       /\ torn' = torn /\ torn \subseteq Source
  BY DEF DeleteVec, IInv, TypeOK
<1>11. \A x \in u.batch : text[x.src] # Absent
  BY <1>1, <1>5, JobState1
<1> HIDE DEF s
<1>12. u.cur # Absent /\ u.cur.src = s /\ s \in Source /\ text[s] # Absent
  BY <1>3, <1>5 DEF s
<1> QED BY <1>1, <1>5, <1>6, <1>7, <1>9, <1>10, <1>11, <1>12, WritingSteps DEF WritingPC

\* A job that is storing a vector.
LEMMA WritingJob ==
  ASSUME IInv, NEW j \in Job, job[j].pc \in WritingPC
  PROVE  \E i \in Item, s \in Source :
            /\ job[j].cur = i /\ i # Absent /\ i.src = s /\ i.of \in Content
            /\ text[s] # Absent /\ SomeAt(s, job[j].pc)
            /\ job[j].model = active /\ active \in Model
            /\ \A x \in job[j].batch : text[x.src] # Absent
<1>1. job[j].cur # Absent /\ job[j].cur \in Item /\ job[j].cur.src \in Source
      /\ job[j].cur.of \in Content
  BY JobState1
<1>2. text[job[j].cur.src] # Absent /\ job[j].model = active /\ active \in Model
      /\ \A x \in job[j].batch : text[x.src] # Absent
  BY <1>1, JobState1 DEF WritingPC, IInv, TypeOK
<1>3. SomeAt(job[j].cur.src, job[j].pc)
  BY <1>1 DEF SomeAt, At
<1> QED BY <1>1, <1>2, <1>3

\* It goes on to the next statement.
LEMMA NextStatement ==
  ASSUME IInv, NEW j \in Job, job[j].pc \in WritingPC, NEW pc \in WritingPC,
         job' = [job EXCEPT ![j].pc = pc]
  PROVE  \E u \in JobState : /\ Moves(j, u) /\ u.pc = pc /\ u.cur = job[j].cur
                             /\ u.batch = job[j].batch /\ u.model = job[j].model
<1> DEFINE u == [pc |-> pc, model |-> job[j].model, ids |-> job[j].ids,
                 batch |-> job[j].batch, cur |-> job[j].cur]
<1>1. job[j] \in JobState /\ job \in [Job -> JobState]
  BY JobState1
<1>2. [job[j] EXCEPT !.pc = pc] = u
  BY <1>1, JobFields
<1>3. u \in JobState /\ u.pc = pc /\ u.cur = job[j].cur
      /\ u.batch = job[j].batch /\ u.model = job[j].model
  BY <1>1, JobFields DEF JobState, WritingPC
<1>4. job' = [job EXCEPT ![j] = u]
  BY <1>2
<1> HIDE DEF u
<1> QED BY <1>1, <1>3, <1>4, JobMoves

LEMMA InsertVecSteps ==
  ASSUME IInv, NEW j \in Job, InsertVec(j)
  PROVE  IInv'
<1>1. job[j].pc = "insertVec" /\ job[j].pc \in WritingPC
  BY DEF InsertVec, WritingPC
<1>2. PICK i \in Item, s \in Source :
         /\ job[j].cur = i /\ i # Absent /\ i.src = s /\ i.of \in Content
         /\ text[s] # Absent /\ job[j].model = active /\ active \in Model
         /\ \A x \in job[j].batch : text[x.src] # Absent
  BY <1>1, WritingJob
<1>3. PICK u \in JobState : /\ Moves(j, u) /\ u.pc = "deleteMeta" /\ u.cur = i
                            /\ u.batch = job[j].batch /\ u.model = job[j].model
  BY <1>1, <1>2, NextStatement DEF InsertVec, WritingPC
<1>4. [model |-> job[j].model, of |-> i.of] \in Vector
      /\ [model |-> job[j].model, of |-> i.of] # Absent
      /\ [model |-> job[j].model, of |-> i.of].model = active
  BY <1>2, EmbeddingsAssumption DEF Vector
<1>5. /\ vec' \in [Source -> Vector \union {Absent}] /\ vec'[s] # Absent
      /\ vec'[s].model = active
      /\ \A x \in Source : x # s => vec'[x] = vec[x]
      /\ meta' = meta /\ meta \in [Source -> Model \union {Absent}] /\ active' = active
  BY <1>2, <1>4 DEF IInv, TypeOK, InsertVec
<1>6. SomeAt(s, "deleteMeta")'
  BY <1>2, <1>3 DEF SomeAt, At, Moves
<1>7. Inserted(s)' /\ HalfDone(s)'
  BY <1>5, <1>6 DEF Inserted, HalfDone
<1>8. UNCHANGED <<text, forgotten, active, edits>> /\ ops' \in 0 .. MaxOps
      /\ torn' = torn /\ torn \subseteq Source
  BY DEF InsertVec, IInv, TypeOK
<1>9. u.pc # "idle" => u.model = active
  BY <1>2, <1>3
<1>10. (job[j].cur # Absent => job[j].cur.src = s) /\ (u.cur # Absent => u.cur.src = s)
       /\ (u.pc \in WritingPC <=> u.cur # Absent)
  BY <1>2, <1>3 DEF WritingPC
<1>11. \A x \in u.batch : text[x.src] # Absent
  BY <1>2, <1>3
<1> QED BY <1>2, <1>3, <1>5, <1>7, <1>8, <1>9, <1>10, <1>11, WritingSteps

LEMMA DeleteMetaSteps ==
  ASSUME IInv, NEW j \in Job, DeleteMeta(j)
  PROVE  IInv'
<1>1. job[j].pc = "deleteMeta" /\ job[j].pc \in WritingPC
  BY DEF DeleteMeta, WritingPC
<1>2. PICK i \in Item, s \in Source :
         /\ job[j].cur = i /\ i # Absent /\ i.src = s
         /\ text[s] # Absent /\ SomeAt(s, "deleteMeta") /\ job[j].model = active
         /\ \A x \in job[j].batch : text[x.src] # Absent
  BY <1>1, WritingJob
<1>3. PICK u \in JobState : /\ Moves(j, u) /\ u.pc = "insertMeta" /\ u.cur = i
                            /\ u.batch = job[j].batch /\ u.model = job[j].model
  BY <1>1, <1>2, NextStatement DEF DeleteMeta, WritingPC
<1>4. /\ meta' \in [Source -> Model \union {Absent}] /\ meta'[s] = Absent
      /\ \A x \in Source : x # s => meta'[x] = meta[x]
      /\ vec' = vec /\ vec \in [Source -> Vector \union {Absent}] /\ active' = active
  BY <1>2 DEF IInv, TypeOK, DeleteMeta
<1>5. UNCHANGED <<text, forgotten, active, edits>> /\ ops' \in 0 .. MaxOps
      /\ torn' = torn /\ torn \subseteq Source
  BY DEF DeleteMeta, IInv, TypeOK
<1>6. SomeAt(s, "insertMeta")'
  BY <1>2, <1>3 DEF SomeAt, At, Moves
<1>7. SomeAt(s, "insertVec") => SomeAt(s, "insertVec")'
  BY <1>1, <1>3 DEF SomeAt, At, Moves
<1>8. Inserted(s) /\ (s \notin torn => HalfDone(s))
  BY DEF IInv
<1>9. Inserted(s)' /\ (s \notin torn' => HalfDone(s)')
  BY <1>2, <1>4, <1>5, <1>6, <1>7, <1>8 DEF Inserted, HalfDone
<1>10. u.pc # "idle" => u.model = active
  BY <1>2, <1>3
<1>11. (job[j].cur # Absent => job[j].cur.src = s) /\ (u.cur # Absent => u.cur.src = s)
       /\ (u.pc \in WritingPC <=> u.cur # Absent)
  BY <1>2, <1>3 DEF WritingPC
<1>12. \A x \in u.batch : text[x.src] # Absent
  BY <1>2, <1>3
<1> QED
  BY <1>2, <1>3, <1>4, <1>5, <1>9, <1>10, <1>11, <1>12, WritingSteps

\* The four statements are done, or the insert met a row and the job is over.
LEMMA InsertMetaSteps ==
  ASSUME IInv, NEW j \in Job, InsertMeta(j)
  PROVE  IInv'
<1>1. job[j].pc = "insertMeta" /\ job[j].pc \in WritingPC
  BY DEF InsertMeta, WritingPC
<1>2. PICK i \in Item, s \in Source :
         /\ job[j].cur = i /\ i # Absent /\ i.src = s
         /\ text[s] # Absent /\ SomeAt(s, "insertMeta")
         /\ job[j].model = active /\ active \in Model
         /\ \A x \in job[j].batch : text[x.src] # Absent
  BY <1>1, WritingJob
<1> DEFINE u == [pc |-> "store", model |-> job[j].model, ids |-> job[j].ids,
                 batch |-> job[j].batch, cur |-> Absent]
<1>3. job[j] \in JobState /\ job \in [Job -> JobState]
  BY JobState1
<1>4. job' = [job EXCEPT ![j] = u]
  <2> DEFINE v == [job[j] EXCEPT !.pc = "store"]
  <2>1. v = [pc |-> "store", model |-> job[j].model, ids |-> job[j].ids,
             batch |-> job[j].batch, cur |-> job[j].cur]
    BY <1>3, JobFields
  <2> HIDE DEF v
  <2>2. [v EXCEPT !.cur = Absent] = u
    BY <2>1
  <2>3. job' = [job EXCEPT ![j] = [v EXCEPT !.cur = Absent]]
    BY <1>3 DEF InsertMeta, v
  <2> QED BY <2>2, <2>3
<1>5. u \in JobState /\ u.pc = "store" /\ u.cur = Absent /\ u.batch = job[j].batch
      /\ u.model = active
  BY <1>2, <1>3, JobFields DEF JobState
<1> HIDE DEF u
<1>6. Moves(j, u)
  BY <1>3, <1>4, <1>5, JobMoves
<1>7. /\ meta' \in [Source -> Model \union {Absent}] /\ meta'[s] = active /\ active # Absent
      /\ \A x \in Source : x # s => meta'[x] = meta[x]
      /\ vec' = vec /\ vec \in [Source -> Vector \union {Absent}] /\ active' = active
  BY <1>2, EmbeddingsAssumption DEF IInv, TypeOK, InsertMeta
<1>8. UNCHANGED <<text, forgotten, active, edits>> /\ ops' \in 0 .. MaxOps
      /\ torn' = (IF vec[s] = Absent THEN torn ELSE torn \ {s}) /\ torn \subseteq Source
  BY <1>2 DEF InsertMeta, IInv, TypeOK
<1>9. SomeAt(s, "insertVec") => SomeAt(s, "insertVec")'
  BY <1>1, <1>6 DEF SomeAt, At, Moves
<1>10. Inserted(s) /\ (s \notin torn => HalfDone(s))
  BY DEF IInv
<1>11. vec[s] # Absent => vec[s].model = active
  BY <1>2, <1>10 DEF Inserted
<1>12. vec[s] = Absent /\ s \notin torn => SomeAt(s, "insertVec")'
  BY <1>2, <1>9, <1>10 DEF HalfDone
<1>13. Inserted(s)' /\ (s \notin torn' => HalfDone(s)')
  BY <1>7, <1>8, <1>11, <1>12 DEF Inserted, HalfDone
<1>14. (job[j].cur # Absent => job[j].cur.src = s) /\ (u.cur # Absent => u.cur.src = s)
       /\ (u.pc \in WritingPC <=> u.cur # Absent) /\ (u.pc # "idle" => u.model = active)
  BY <1>2, <1>5 DEF WritingPC
<1>15. \A x \in u.batch : text[x.src] # Absent
  BY <1>2, <1>5
<1>16. torn' \subseteq Source /\ \A x \in Source : x # s /\ x \in torn => x \in torn'
  BY <1>8
<1> QED
  BY <1>2, <1>5, <1>6, <1>7, <1>8, <1>13, <1>14, <1>15, <1>16, WritingSteps

\* A job that was storing a vector is over.
LEMMA EndWriting ==
  ASSUME IInv, NEW j \in Job, job[j].pc \in WritingPC,
         job' = [job EXCEPT ![j] = Idle(job[j].model)],
         NEW s \in Source, job[j].cur.src = s, text[s] # Absent,
         UNCHANGED <<text, forgotten, sidecar, active, edits>>, ops' \in 0 .. MaxOps,
         torn' = torn \/ torn' = torn \union {s},
         s \notin torn' => HalfDone(s)'
  PROVE  IInv'
<1> DEFINE u == Idle(job[j].model)
<1>1. job[j] \in JobState /\ job[j].model \in Model /\ job \in [Job -> JobState]
  BY JobState1, JobFields
<1>2. u \in JobState /\ u.cur = Absent /\ u.pc = "idle" /\ u.batch = {}
  BY <1>1, IdleModel
<1>3. job' = [job EXCEPT ![j] = u]
  OBVIOUS
<1> HIDE DEF u
<1>4. Moves(j, u)
  BY <1>1, <1>2, <1>3, JobMoves
<1>5. ASSUME NEW pc PROVE SomeAt(s, pc)' => SomeAt(s, pc)
  BY <1>2, <1>4 DEF SomeAt, At, Moves
<1>6. vec' = vec /\ meta' = meta /\ active' = active
      /\ vec \in [Source -> Vector \union {Absent}] /\ meta \in [Source -> Model \union {Absent}]
      /\ torn \subseteq Source
  BY DEF sidecar, IInv, TypeOK
<1>7. Inserted(s)'
  BY <1>5, <1>6 DEF Inserted, IInv
<1>8. (u.pc \in WritingPC <=> u.cur # Absent) /\ u.pc = "idle" /\ u.cur = Absent
      /\ \A i \in u.batch : text[i.src] # Absent
  BY <1>2 DEF WritingPC
<1>9. /\ vec' \in [Source -> Vector \union {Absent}] /\ meta' \in [Source -> Model \union {Absent}]
      /\ \A x \in Source : x # s => vec'[x] = vec[x] /\ meta'[x] = meta[x]
      /\ torn' \subseteq Source /\ \A x \in Source : x # s /\ x \in torn => x \in torn'
  BY <1>6
<1>10. UNCHANGED <<text, forgotten, active, edits>>
  BY <1>6
<1> QED BY <1>2, <1>4, <1>7, <1>8, <1>9, <1>10, WritingSteps

LEMMA ConflictSteps ==
  ASSUME IInv, NEW j \in Job, Conflict(j)
  PROVE  IInv'
<1>1. job[j].pc \in WritingPC
  BY DEF Conflict, WritingPC
<1>2. PICK i \in Item, s \in Source : job[j].cur = i /\ i.src = s /\ text[s] # Absent
  BY <1>1, WritingJob
<1>3. \/ job[j].pc = "insertVec" /\ vec[s] # Absent
      \/ job[j].pc = "insertMeta" /\ meta[s] # Absent
  BY <1>2 DEF Conflict
<1>4. /\ job' = [job EXCEPT ![j] = Idle(job[j].model)]
      /\ UNCHANGED <<text, forgotten, sidecar, active, edits>> /\ torn' = torn
      /\ vec' = vec /\ meta' = meta
  BY DEF Conflict, sidecar
<1>5. ops' \in 0 .. MaxOps
  BY DEF Conflict, IInv, TypeOK
<1>6. Moves(j, Idle(job[j].model)) /\ Idle(job[j].model).cur = Absent
  BY <1>4, JobState1, JobFields, IdleModel, JobMoves
<1>7. ASSUME NEW pc
      PROVE  /\ SomeAt(s, pc)' => SomeAt(s, pc)
             /\ pc # job[j].pc /\ SomeAt(s, pc) => SomeAt(s, pc)'
  BY <1>6 DEF SomeAt, At, Moves
<1>8. s \notin torn => HalfDone(s)
  BY DEF IInv
<1>9. s \notin torn' => HalfDone(s)'
  BY <1>3, <1>4, <1>7, <1>8 DEF HalfDone
<1> QED BY <1>1, <1>2, <1>4, <1>5, <1>9, EndWriting

LEMMA DieSteps ==
  ASSUME IInv, NEW j \in Job, Die(j)
  PROVE  IInv'
<1>1. /\ job' = [job EXCEPT ![j] = Idle(job[j].model)]
      /\ UNCHANGED <<text, forgotten, sidecar, active, edits>> /\ UNCHANGED <<vec, meta, active>>
      /\ torn' = IF job[j].cur = Absent THEN torn ELSE torn \union {job[j].cur.src}
  BY DEF Die, sidecar
<1>2. ops' \in 0 .. MaxOps
  BY SpendType DEF Die
<1>3. CASE job[j].cur = Absent
  <2>1. /\ Idle(job[j].model) \in JobState /\ Idle(job[j].model).cur = Absent
        /\ Idle(job[j].model).pc = "idle" /\ Idle(job[j].model).batch = {}
    BY JobState1, JobFields, IdleModel
  <2>2. text' \in [Source -> Content \union {Absent}] /\ forgotten' \subseteq Source
        /\ edits' \in 0 .. MaxEdits /\ text' = text /\ UNCHANGED <<vec, meta, active, torn>>
    BY <1>1, <1>3 DEF IInv, TypeOK
  <2> QED BY <1>1, <1>2, <1>3, <2>1, <2>2, ReadingSteps DEF WritingPC
<1>4. CASE job[j].cur # Absent
  <2>1. job[j].pc \in WritingPC
    BY <1>4, JobState1
  <2>2. PICK i \in Item, s \in Source : job[j].cur = i /\ i.src = s /\ text[s] # Absent
    BY <2>1, WritingJob
  <2>3. torn' = torn \union {s}
    BY <1>1, <1>4, <2>2
  <2> QED BY <1>1, <1>2, <2>1, <2>2, <2>3, EndWriting
<1> QED BY <1>3, <1>4
-----------------------------------------------------------------------------
(***************************************************************************)
(* Forgets, projection rebuilds and model swaps wait until no job is under *)
(* way.                                                                    *)
(***************************************************************************)

\* No job is.
LEMMA NobodyWrites ==
  ASSUME IInv, Quiet, NEW s, NEW pc
  PROVE  ~SomeAt(s, pc)
BY JobState1 DEF Quiet, SomeAt, At, WritingPC

LEMMA UpkeepSteps ==
  ASSUME IInv, Quiet, job' = job,
         text' \in [Source -> Content \union {Absent}], forgotten' \subseteq Source,
         vec' \in [Source -> Vector \union {Absent}], meta' \in [Source -> Model \union {Absent}],
         active' \in Model, torn' \subseteq Source, edits' = edits, ops' \in 0 .. MaxOps,
         \A s \in Source : \/ vec'[s] = Absent /\ meta'[s] = Absent
                           \/ /\ vec'[s] = vec[s] /\ meta'[s] = meta[s]
                              /\ text'[s] = text[s] /\ (s \in torn => s \in torn')
  PROVE  IInv'
<1>1. \A k \in Job : job[k].pc = "idle" /\ job[k].cur = Absent
  BY JobState1 DEF Quiet, WritingPC
<1>2. TypeOK' /\ JobsOK'
  BY <1>1 DEF IInv, TypeOK, JobsOK
<1>3. NoOrphanVector'
  BY DEF IInv, NoOrphanVector
<1>4. \A s, pc : ~SomeAt(s, pc) /\ ~SomeAt(s, pc)'
  BY <1>1 DEF SomeAt, At
<1>5. \A s \in Source : Inserted(s)'
  BY <1>4 DEF Inserted
<1>6. \A s \in Source \ torn' : HalfDone(s)'
  BY <1>4 DEF HalfDone, IInv
<1> QED BY <1>2, <1>3, <1>5, <1>6 DEF IInv

LEMMA QuietSteps ==
  ASSUME IInv, ~UpkeepOverlaps,
         \/ \E s \in Source : Forget(s) \/ Unforget(s)
         \/ RebuildProjections
         \/ \E m \in Model : SwapModel(m)
  PROVE  IInv'
<1>1. /\ text \in [Source -> Content \union {Absent}] /\ forgotten \subseteq Source
      /\ vec \in [Source -> Vector \union {Absent}] /\ meta \in [Source -> Model \union {Absent}]
      /\ active \in Model /\ torn \subseteq Source /\ ops \in 0 .. MaxOps
  BY DEF IInv, TypeOK
<1>2. CASE \E s \in Source : Forget(s)
  <2> PICK s \in Source : Forget(s)
    BY <1>2
  <2>1. /\ text' = [text EXCEPT ![s] = Absent] /\ forgotten' = forgotten \union {s}
        /\ vec' = [vec EXCEPT ![s] = Absent] /\ meta' = [meta EXCEPT ![s] = Absent]
        /\ torn' = torn \ {s} /\ active' = active /\ job' = job /\ edits' = edits
        /\ Quiet
    BY DEF Forget
  <2>2. ops' \in 0 .. MaxOps
    BY SpendType DEF Forget
  <2> QED BY <1>1, <2>1, <2>2, UpkeepSteps
<1>3. CASE \E s \in Source : Unforget(s)
  <2> PICK s \in Source : Unforget(s)
    BY <1>3
  <2>1. /\ text' = text /\ forgotten' = forgotten \ {s} /\ vec' = vec /\ meta' = meta
        /\ torn' = torn /\ active' = active /\ job' = job /\ edits' = edits /\ ops' = ops
        /\ Quiet
    BY DEF Unforget, sidecar
  <2> QED BY <1>1, <2>1, UpkeepSteps
<1>4. CASE RebuildProjections
  <2>1. /\ text' = text /\ forgotten' = forgotten /\ vec' = [s \in Source |-> Absent]
        /\ meta' = [s \in Source |-> Absent] /\ torn' = {} /\ active' = active /\ job' = job
        /\ edits' = edits /\ Quiet
    BY <1>4 DEF RebuildProjections, Truncate
  <2>2. ops' \in 0 .. MaxOps
    BY <1>4, SpendType DEF RebuildProjections
  <2> QED BY <1>1, <2>1, <2>2, UpkeepSteps
<1>5. CASE \E m \in Model : SwapModel(m)
  <2>1. /\ text' = text /\ forgotten' = forgotten /\ vec' = vec /\ meta' = meta
        /\ torn' = torn /\ active' \in Model /\ job' = job /\ edits' = edits
        /\ Quiet
    BY <1>5 DEF SwapModel, sidecar
  <2>2. ops' \in 0 .. MaxOps
    BY <1>5, SpendType DEF SwapModel
  <2> QED BY <1>1, <2>1, <2>2, UpkeepSteps
<1> QED BY <1>2, <1>3, <1>4, <1>5
-----------------------------------------------------------------------------
(***************************************************************************)
(* The theorems.                                                           *)
(***************************************************************************)

LEMMA InitInv ==
  ASSUME Init
  PROVE  IInv
<1>1. \A m \in Model : Idle(m) \in JobState /\ Idle(m).cur = Absent /\ Idle(m).pc = "idle"
  BY IdleModel
<1>2. /\ active \in Model /\ job \in [Job -> JobState]
      /\ \A j \in Job : job[j].cur = Absent /\ job[j].pc = "idle"
  BY <1>1 DEF Init
<1>3. TypeOK /\ JobsOK /\ NoOrphanVector
  BY <1>2, EmbeddingsAssumption DEF Init, TypeOK, JobsOK, NoOrphanVector
<1>4. \A s, pc : ~SomeAt(s, pc)
  BY <1>2 DEF SomeAt, At
<1>5. \A s \in Source : Inserted(s) /\ HalfDone(s)
  BY <1>4 DEF Init, Inserted, HalfDone
<1> QED BY <1>3, <1>5 DEF IInv

LEMMA NextSteps ==
  ASSUME IInv, ~UpkeepOverlaps, Next
  PROVE  IInv'
<1>1. ASSUME NEW j \in Job, Begin(j)
      PROVE  IInv'
  BY <1>1, BeginSteps
<1>2. ASSUME NEW j \in Job, NEW s \in Source, NEW c \in Content, StoreSource(j, s, c)
      PROVE  IInv'
  BY <1>2, StoreSourceSteps
<1>3. ASSUME NEW j \in Job,
             EndSync(j) \/ Receive(j) \/ Outage(j) \/ ChunkDone(j) \/ fetchBodies(j)
      PROVE  IInv'
  BY <1>3, AwaitingSteps
<1>4. ASSUME NEW j \in Job, StoreVector(j)
      PROVE  IInv'
  BY <1>4, DeleteVecSteps, ConflictSteps, InsertVecSteps, DeleteMetaSteps, InsertMetaSteps
  DEF StoreVector
<1>5. ASSUME NEW j \in Job, Die(j)
      PROVE  IInv'
  BY <1>5, DieSteps
<1>6. ASSUME \/ \E s \in Source : Forget(s) \/ Unforget(s)
             \/ RebuildProjections
             \/ \E m \in Model : SwapModel(m)
      PROVE  IInv'
  BY <1>6, QuietSteps
<1> QED BY <1>1, <1>2, <1>3, <1>4, <1>5, <1>6 DEF Next

LEMMA Stutters ==
  ASSUME IInv, UNCHANGED vars
  PROVE  IInv'
<1>1. /\ text' = text /\ forgotten' = forgotten /\ vec' = vec /\ meta' = meta
      /\ active' = active /\ job' = job /\ torn' = torn /\ edits' = edits /\ ops' = ops
  BY DEF vars
<1>2. TypeOK' /\ JobsOK' /\ NoOrphanVector'
  BY <1>1 DEF IInv, TypeOK, JobsOK, NoOrphanVector
<1>3. \A s, pc : SomeAt(s, pc)' <=> SomeAt(s, pc)
  BY <1>1 DEF SomeAt, At
<1>4. \A s : (Inserted(s) => Inserted(s)') /\ (HalfDone(s) => HalfDone(s)')
  BY <1>1, <1>3 DEF Inserted, HalfDone
<1> QED BY <1>1, <1>2, <1>4 DEF IInv

\* Each vector and each meta row is accounted for by the job that is about to make it
\* good, or was written with its partner (upsertSourceVector).
THEOREM Invariant == ~UpkeepOverlaps => (Spec => []IInv)
<1> SUFFICES ASSUME ~UpkeepOverlaps PROVE Spec => []IInv
  OBVIOUS
<1>1. Init => IInv
  BY InitInv
<1>2. IInv /\ [Next]_vars => IInv'
  BY NextSteps, Stutters
<1> QED BY <1>1, <1>2, PTL DEF Spec

\* The rows, the jobs and the bounds have their types, and a job is at one of the
\* statements of upsertSourceVector exactly while it has an item to store.
THEOREM TypeCorrect == ~UpkeepOverlaps => (Spec => []TypeOK)
<1> SUFFICES ASSUME ~UpkeepOverlaps PROVE Spec => []TypeOK
  OBVIOUS
<1>1. IInv => TypeOK
  BY DEF IInv
<1> QED BY <1>1, Invariant, PTL

\* What recall and `embeddings status` answer from is so: a vector's source is stored,
\* and a source that nobody is storing, and nobody died storing, has a meta row exactly
\* if it has a vector, of that model (upsertSourceVector, ADR-0005 section 5).
THEOREM ReportCorrect == ~UpkeepOverlaps => (Spec => []ReportHonest)
<1> SUFFICES ASSUME ~UpkeepOverlaps PROVE Spec => []ReportHonest
  OBVIOUS
<1>1. IInv => ReportHonest
  <2> SUFFICES ASSUME IInv PROVE ReportHonest
    OBVIOUS
  <2>1. ASSUME NEW s \in Source \ torn, ~Writing(s)
        PROVE  IF meta[s] = Absent THEN vec[s] = Absent
               ELSE vec[s] # Absent /\ vec[s].model = meta[s]
    <3>1. \A pc : ~SomeAt(s, pc)
      BY <2>1 DEF Writing, SomeAt, At
    <3>2. HalfDone(s)
      BY DEF IInv
    <3> QED BY <3>1, <3>2 DEF HalfDone
  <2>2. CoverageHonest
    BY <2>1 DEF CoverageHonest
  <2> QED BY <2>2 DEF IInv, ReportHonest
<1> QED BY <1>1, Invariant, PTL

(***************************************************************************)
(* Attention.                                                              *)
(***************************************************************************)

\* The numbers the windows and the saturation points are.
LEMMA AttentionConstants ==
  /\ MaxNow \in Nat \ {0} /\ StartingSoon \in Nat /\ MeetingSoon \in Nat /\ MeetingPrep \in Nat
  /\ Scale \in Nat /\ CandidateCap \in Nat \ {0}
  /\ SatOverdue \in Nat \ {0} /\ SatAging \in Nat \ {0} /\ SatFreshness \in Nat \ {0}
  /\ SatDueSoon \in Nat \ {0} /\ MeetingPrep \in Nat \ {0}
  /\ MeetingSoon <= MeetingPrep /\ StartingSoon <= MeetingSoon
BY AttentionNumbers, ScaleDivides, WindowOrder

\* A row put in place changes that row only.
LEMMA PutRow ==
  ASSUME NEW f, NEW x, NEW v
  PROVE  /\ DOMAIN Put(f, x, v) = DOMAIN f \union {x}
         /\ Put(f, x, v)[x] = v
         /\ \A y \in DOMAIN f \ {x} : Put(f, x, v)[y] = f[y]
BY DEF Put

\* A row set of well-typed rows stays one when a well-typed row is put in place.
LEMMA PutTyped ==
  ASSUME NEW f, NEW x, NEW v, NEW T, \A y \in DOMAIN f : f[y] \in T, v \in T
  PROVE  \A y \in DOMAIN Put(f, x, v) : Put(f, x, v)[y] \in T
<1> SUFFICES ASSUME NEW y \in DOMAIN Put(f, x, v) PROVE Put(f, x, v)[y] \in T
  OBVIOUS
<1>1. DOMAIN Put(f, x, v) = DOMAIN f \union {x}
  BY DEF Put
<1>2. Put(f, x, v)[x] = v
  BY DEF Put
<1>3. \A z \in DOMAIN f \ {x} : Put(f, x, v)[z] = f[z]
  BY DEF Put
<1> HIDE DEF Put
<1>4. CASE y = x
  BY <1>2, <1>4
<1>5. CASE y # x
  BY <1>1, <1>3, <1>5
<1> QED BY <1>4, <1>5

LEMMA AttentionTypesInit == AttentionInit => AttentionTypeOK
<1> SUFFICES ASSUME AttentionInit PROVE AttentionTypeOK
  OBVIOUS
<1>1. DOMAIN <<>> = {}
  OBVIOUS
<1> QED BY <1>1, AttentionConstants DEF AttentionInit, AttentionTypeOK

\* Nothing that was written leaves the past as the clock goes on.
LEMMA AttentionTypesTick == AttentionTypeOK /\ Tick => AttentionTypeOK'
<1> SUFFICES ASSUME AttentionTypeOK, Tick PROVE AttentionTypeOK'
  OBVIOUS
<1>1. now' \in 0 .. MaxNow /\ 0 .. now \subseteq 0 .. now'
  BY AttentionConstants DEF AttentionTypeOK, Tick
<1>2. ASSUME NEW r \in ItemRow PROVE r \in ItemRow'
  BY <1>1 DEF ItemRow
<1>3. ASSUME NEW r \in [state : Active \union {"completed"}, due : Dues, high : BOOLEAN,
                        updated : 0 .. now]
      PROVE  r \in [state : Active \union {"completed"}, due : Dues, high : BOOLEAN,
                    updated : 0 .. now']
  BY <1>1
<1>4. ASSUME NEW r \in [state : {"open", "resolved"}, due : Dues, updated : 0 .. now]
      PROVE  r \in [state : {"open", "resolved"}, due : Dues, updated : 0 .. now']
  BY <1>1
<1> QED BY <1>1, <1>2, <1>3, <1>4 DEF AttentionTypeOK, Tick, Dues, Never, Active

\* The rows a service turns one of its own into.
LEMMA ChangedRows ==
  ASSUME NEW r \in ItemRow, NEW start \in 0 .. MaxNow, now \in 0 .. now
  PROVE  /\ [r EXCEPT !.text = 2, !.at = now, !.start = start] \in ItemRow
         /\ [r EXCEPT !.declined = TRUE, !.at = now] \in ItemRow
         /\ [r EXCEPT !.unread = FALSE] \in ItemRow
         /\ [r EXCEPT !.body = FALSE] \in ItemRow
BY DEF ItemRow

\* What is put upstream is a row of now.
LEMMA AttentionTypesUpstream ==
  ASSUME AttentionTypeOK, NEW i \in DOMAIN world.items,
         Send(i) \/ Reword(i) \/ Decline(i) \/ ReadOnGithub(i)
  PROVE  AttentionTypeOK'
<1>1. now \in Nat /\ now \in 0 .. now /\ now \in 0 .. MaxNow /\ 0 \in 0 .. MaxNow
  BY AttentionConstants DEF AttentionTypeOK
<1>2. ASSUME NEW r \in ItemRow PROVE r \in ItemRow' <=> r \in ItemRow
  BY <1>1 DEF ItemRow, Send, Reword, Decline, ReadOnGithub, Change
<1>3. CASE Send(i)
  <2>1. PICK start \in 0 .. MaxNow :
          upstream' = Put(upstream, i, [text |-> 1, body |-> TRUE, at |-> now, start |-> start,
                                        declined |-> FALSE, unread |-> TRUE])
    <3>1. PICK start \in IF Family(i) = "calendar" THEN now .. MaxNow - 1 ELSE {0} :
            upstream' = Put(upstream, i, [text |-> 1, body |-> TRUE, at |-> now,
                                          start |-> start, declined |-> FALSE,
                                          unread |-> TRUE])
      BY <1>3 DEF Send
    <3>2. start \in 0 .. MaxNow
      BY <1>1, <3>1, AttentionConstants
    <3> QED BY <3>1, <3>2
  <2>2. [text |-> 1, body |-> TRUE, at |-> now, start |-> start, declined |-> FALSE,
         unread |-> TRUE] \in ItemRow
    BY <1>1, <2>1 DEF ItemRow
  <2>3. \A y \in DOMAIN upstream' : upstream'[y] \in ItemRow
    BY <2>1, <2>2, PutTyped DEF AttentionTypeOK
  <2>4. DOMAIN upstream' = DOMAIN upstream \union {i}
    BY <2>1, PutRow
  <2> QED BY <1>3, <2>3, <2>4 DEF Send, AttentionTypeOK, ItemRow, Dues, Never, Active
<1>4. CASE Reword(i) \/ Decline(i) \/ ReadOnGithub(i)
  <2>1. i \in DOMAIN upstream /\ upstream[i] \in ItemRow
    BY <1>4 DEF Reword, Decline, ReadOnGithub, AttentionTypeOK
  <2>2. PICK r : r \in ItemRow /\ Change(i, r)
    <3>1. CASE Reword(i)
      <4>1. PICK start \in {upstream[i].start, MaxNow - 1} :
              Change(i, [upstream[i] EXCEPT !.text = 2, !.at = now, !.start = start])
        BY <3>1 DEF Reword
      <4>2. start \in 0 .. MaxNow
        <5>1. upstream[i].start \in 0 .. MaxNow
          BY <2>1 DEF ItemRow
        <5> QED BY <4>1, <5>1, AttentionConstants
      <4>3. [upstream[i] EXCEPT !.text = 2, !.at = now, !.start = start] \in ItemRow
        BY <1>1, <2>1, <4>2, ChangedRows
      <4> QED BY <4>1, <4>3
    <3>2. CASE Decline(i)
      <4>1. [upstream[i] EXCEPT !.declined = TRUE, !.at = now] \in ItemRow
        BY <1>1, <2>1, ChangedRows
      <4> QED BY <3>2, <4>1 DEF Decline
    <3>3. CASE ReadOnGithub(i)
      <4>1. [upstream[i] EXCEPT !.unread = FALSE] \in ItemRow
        BY <1>1, <2>1, ChangedRows
      <4> QED BY <3>3, <4>1 DEF ReadOnGithub
    <3> QED BY <1>4, <3>1, <3>2, <3>3
  <2>3. /\ DOMAIN upstream' = DOMAIN upstream
        /\ \A y \in DOMAIN upstream : upstream'[y] = IF y = i THEN r ELSE upstream[y]
    BY <2>2 DEF Change
  <2> QED BY <2>2, <2>3 DEF Change, AttentionTypeOK, ItemRow, Dues, Never, Active
<1> QED BY <1>3, <1>4

\* What is ingested is what the service held.
LEMMA AttentionTypesSources ==
  ASSUME AttentionTypeOK, NEW i \in DOMAIN world.items, Ingest(i) \/ DropBody(i)
  PROVE  AttentionTypeOK'
<1>1. now \in 0 .. now
  BY DEF AttentionTypeOK
<1>2. ItemRow' = ItemRow
  BY DEF ItemRow, Ingest, DropBody
<1>3. CASE Ingest(i)
  <2>1. i \in DOMAIN upstream /\ upstream[i] \in ItemRow
    BY <1>3 DEF Ingest, AttentionTypeOK
  <2>2. \A y \in DOMAIN sources' : sources'[y] \in ItemRow
    <3>1. \A y \in DOMAIN sources : sources[y] \in ItemRow
      BY DEF AttentionTypeOK
    <3>2. sources' = Put(sources, i, upstream[i])
      BY <1>3 DEF Ingest
    <3> QED BY <2>1, <3>1, <3>2, PutTyped
  <2>3. DOMAIN sources' = DOMAIN sources \union {i}
    BY <1>3 DEF Ingest, Put
  <2> QED BY <1>2, <1>3, <2>1, <2>2, <2>3 DEF Ingest, AttentionTypeOK, Dues, Never, Active
<1>4. CASE DropBody(i)
  <2>1. [sources[i] EXCEPT !.body = FALSE] \in ItemRow
    BY <1>1, <1>4, ChangedRows DEF DropBody, AttentionTypeOK
  <2>2. /\ DOMAIN sources' = DOMAIN sources
        /\ \A y \in DOMAIN sources : sources'[y] \in ItemRow
    BY <1>4, <2>1 DEF DropBody, AttentionTypeOK
  <2> QED BY <1>2, <1>4, <2>2 DEF DropBody, AttentionTypeOK, Dues, Never, Active
<1> QED BY <1>3, <1>4

\* Marks are of ingested rows.
LEMMA AttentionTypesMark ==
  ASSUME AttentionTypeOK, NEW i, NEW mark, Mark(i, mark)
  PROVE  AttentionTypeOK'
<1>1. DOMAIN seen' = DOMAIN seen \union {i} /\ i \in DOMAIN sources
  BY PutRow DEF Mark
<1>2. ItemRow' = ItemRow
  BY DEF ItemRow, Mark
<1> QED BY <1>1, <1>2 DEF Mark, AttentionTypeOK, Dues, Never, Active

\* Tasks and commitments are stamped with the time of their last change.
LEMMA AttentionTypesWork ==
  ASSUME AttentionTypeOK, NEW x,
         \/ x \in world.tasks /\ (AddTask(x) \/ MoveTask(x))
         \/ x \in world.promises /\ (AddPromise(x) \/ ClosePromise(x))
  PROVE  AttentionTypeOK'
<1> DEFINE Tasks == [state : Active \union {"completed"}, due : Dues, high : BOOLEAN,
                     updated : 0 .. now]
           Promises == [state : {"open", "resolved"}, due : Dues, updated : 0 .. now]
<1>1. now \in 0 .. now
  BY DEF AttentionTypeOK
<1>2. ItemRow' = ItemRow /\ now' = now /\ Dues' = Dues /\ Active' = Active /\ world' = world
  BY DEF ItemRow, AddTask, MoveTask, AddPromise, ClosePromise, Dues, Never, Active
<1>3. /\ \A t \in DOMAIN tasks : tasks[t] \in Tasks
      /\ \A c \in DOMAIN promises : promises[c] \in Promises
  BY DEF AttentionTypeOK
<1>4. CASE x \in world.tasks /\ AddTask(x)
  <2>1. PICK due \in Dues, high \in BOOLEAN :
          tasks' = Put(tasks, x, [state |-> "open", due |-> due, high |-> high,
                                  updated |-> now])
    BY <1>4 DEF AddTask
  <2>2. [state |-> "open", due |-> due, high |-> high, updated |-> now] \in Tasks
    BY <1>1, <2>1 DEF Active
  <2>3. DOMAIN tasks' = DOMAIN tasks \union {x}
    BY <2>1, PutRow
  <2> HIDE DEF Tasks, Promises
  <2>4. \A t \in DOMAIN tasks' : tasks'[t] \in Tasks
    BY <1>3, <2>1, <2>2, PutTyped
  <2> QED BY <1>2, <1>3, <1>4, <2>3, <2>4 DEF Tasks, Promises, AddTask, AttentionTypeOK
<1>5. CASE x \in world.tasks /\ MoveTask(x)
  <2>1. PICK state \in {"in_progress", "completed"} :
          tasks' = [tasks EXCEPT ![x].state = state, ![x].updated = now]
    BY <1>5 DEF MoveTask
  <2>2. tasks[x] \in Tasks
    BY <1>3, <1>5 DEF MoveTask
  <2>3. \A r \in Tasks : [[r EXCEPT !.state = state] EXCEPT !.updated = now] \in Tasks
    BY <1>1, <2>1 DEF Active
  <2>4. /\ DOMAIN tasks' = DOMAIN tasks
        /\ \A t \in DOMAIN tasks \ {x} : tasks'[t] = tasks[t]
        /\ tasks'[x] = [[tasks[x] EXCEPT !.state = state] EXCEPT !.updated = now]
    BY <1>5, <2>1 DEF MoveTask
  <2> HIDE DEF Tasks, Promises
  <2>5. \A t \in DOMAIN tasks' : tasks'[t] \in Tasks
    BY <1>3, <2>2, <2>3, <2>4
  <2> QED BY <1>2, <1>3, <1>5, <2>4, <2>5 DEF Tasks, Promises, MoveTask, AttentionTypeOK
<1>6. CASE x \in world.promises /\ AddPromise(x)
  <2>1. PICK due \in Dues :
          promises' = Put(promises, x, [state |-> "open", due |-> due, updated |-> now])
    BY <1>6 DEF AddPromise
  <2>2. [state |-> "open", due |-> due, updated |-> now] \in Promises
    BY <1>1, <2>1
  <2>3. DOMAIN promises' = DOMAIN promises \union {x}
    BY <2>1, PutRow
  <2> HIDE DEF Tasks, Promises
  <2>4. \A c \in DOMAIN promises' : promises'[c] \in Promises
    BY <1>3, <2>1, <2>2, PutTyped
  <2> QED BY <1>2, <1>3, <1>6, <2>3, <2>4 DEF Tasks, Promises, AddPromise, AttentionTypeOK
<1>7. CASE x \in world.promises /\ ClosePromise(x)
  <2>1. x \in DOMAIN promises /\ promises[x] \in Promises
    BY <1>3, <1>7 DEF ClosePromise, OpenPromises
  <2>2. \A r \in Promises : [[r EXCEPT !.state = "resolved"] EXCEPT !.updated = now] \in Promises
    BY <1>1
  <2>3. /\ DOMAIN promises' = DOMAIN promises
        /\ \A c \in DOMAIN promises \ {x} : promises'[c] = promises[c]
        /\ promises'[x] = [[promises[x] EXCEPT !.state = "resolved"] EXCEPT !.updated = now]
    BY <1>7, <2>1 DEF ClosePromise
  <2> HIDE DEF Tasks, Promises
  <2>4. \A c \in DOMAIN promises' : promises'[c] \in Promises
    BY <1>3, <2>1, <2>2, <2>3
  <2> QED BY <1>2, <1>3, <1>7, <2>3, <2>4 DEF Tasks, Promises, ClosePromise, AttentionTypeOK
<1> QED BY <1>4, <1>5, <1>6, <1>7

\* Every row is of its table, and no timestamp is ahead of the clock.
THEOREM AttentionTypes == AttentionSpec => []AttentionTypeOK
<1>1. AttentionTypeOK /\ [AttentionNext]_attentionVars => AttentionTypeOK'
  <2> SUFFICES ASSUME AttentionTypeOK, [AttentionNext]_attentionVars PROVE AttentionTypeOK'
    OBVIOUS
  <2>1. CASE UNCHANGED attentionVars
    BY <2>1 DEF attentionVars, AttentionTypeOK, ItemRow, Dues, Never, Active
  <2>2. CASE AttentionNext
    BY <2>2, AttentionTypesTick, AttentionTypesUpstream, AttentionTypesSources,
       AttentionTypesMark, AttentionTypesWork DEF AttentionNext
  <2> QED BY <2>1, <2>2
<1> QED BY <1>1, AttentionTypesInit, PTL DEF AttentionSpec

\* Of a mail thread, only the email branch of listDemand lets anything in.
LEMMA MailDemand ==
  ASSUME NEW i \in Mails
  PROVE  /\ i \in Demand <=> i \in EmailDemand /\ i \notin DOMAIN seen
         /\ Family(i) = "email"
<1>1. Family(i) = "email"
  BY DEF Mails
<1>2. "email" # "slack" /\ "email" # "calendar" /\ "email" # "github"
  OBVIOUS
<1>3. i \notin SlackDemand /\ i \notin CalendarDemand /\ i \notin GithubDemand
  BY <1>1, <1>2 DEF SlackDemand, CalendarDemand, GithubDemand
<1>4. Outstanding(i) <=> i \notin DOMAIN seen
  BY <1>1, <1>2 DEF Outstanding
<1> QED BY <1>1, <1>3, <1>4 DEF Demand

\* The last word of a thread, for any thread: times are natural numbers.
LEMMA LastWord == AttentionTypeOK => LastWordDecides
<1> SUFFICES ASSUME AttentionTypeOK, NEW i \in Mails
             PROVE  LET thread == {j \in Mails : SameThread(i, j)}
                        last   == {j \in thread : \A k \in thread \ {j} :
                                                    sources[k].at < sources[j].at}
                        owed   == {j \in last : /\ ~Static(j).mine /\ ~Static(j).bulk
                                                /\ Static(j).to # "none"
                                                /\ j \notin DOMAIN seen}
                    IN  last # {} => thread \intersect Demand = owed
  BY DEF LastWordDecides
<1> DEFINE thread == {j \in Mails : SameThread(i, j)}
           last   == {j \in thread : \A k \in thread \ {j} : sources[k].at < sources[j].at}
           owed   == {j \in last : /\ ~Static(j).mine /\ ~Static(j).bulk
                                   /\ Static(j).to # "none" /\ j \notin DOMAIN seen}
<1> SUFFICES ASSUME last # {} PROVE thread \intersect Demand = owed
  OBVIOUS
<1>1. \A j \in Mails : sources[j].at \in Nat
  BY DEF Mails, AttentionTypeOK, ItemRow
<1>2. \A j \in thread : \A k \in Mails : SameThread(k, j) <=> k \in thread
  BY DEF SameThread
<1>3. thread \subseteq Mails /\ last \subseteq thread
  OBVIOUS
<1>4. \A l \in last : \A k \in thread \ {l} : sources[k].at < sources[l].at
  OBVIOUS
<1>5. \A j : j \in owed <=> /\ j \in last /\ ~Static(j).mine /\ ~Static(j).bulk
                            /\ Static(j).to # "none" /\ j \notin DOMAIN seen
  OBVIOUS
<1> HIDE DEF thread, last, owed
<1>6. ASSUME NEW j \in owed PROVE j \in thread \intersect Demand
  <2>1. j \in thread /\ j \in Mails
    BY <1>3, <1>5
  <2>2. \A k \in Mails : SameThread(k, j) => ~(sources[k].at > sources[j].at)
    BY <1>1, <1>2, <1>4, <1>5, <2>1
  <2>3. j \in EmailDemand
    BY <1>5, <2>1, <2>2 DEF EmailDemand
  <2> QED BY <1>5, <2>1, <2>3, MailDemand
<1>7. ASSUME NEW j \in thread \intersect Demand PROVE j \in owed
  <2>1. j \in Mails /\ j \in EmailDemand /\ j \notin DOMAIN seen
    BY <1>3, MailDemand
  <2>2. /\ ~Static(j).mine /\ Static(j).to # "none" /\ ~Static(j).bulk
        /\ \A k \in Mails : SameThread(k, j) => ~(sources[k].at > sources[j].at)
    BY <2>1 DEF EmailDemand
  <2>3. PICK l \in last : TRUE
    OBVIOUS
  <2>4. l = j
    BY <1>1, <1>2, <1>3, <1>4, <2>1, <2>2, <2>3
  <2> QED BY <1>5, <2>1, <2>2, <2>4
<1> QED BY <1>6, <1>7

\* A mail thread calls for an answer exactly when the last word in it, in whatever order
\* the mails came in, is addressed to the operator and not marked (listDemand).
THEOREM LastWordAlways == AttentionSpec => []LastWordDecides
BY AttentionTypes, LastWord, PTL

\* What listDemand answers is read off the clock, the sources and the marks.
LEMMA SameDemand ==
  ASSUME UNCHANGED <<world, now, sources, seen>>
  PROVE  VanishStep
<1>1. Demand' = Demand
  BY DEF Demand, SlackDemand, EmailDemand, CalendarDemand, GithubDemand, Outstanding, Mails,
         SameThread, Family, Static
<1> QED BY <1>1 DEF VanishStep

\* The clock takes the meetings that have begun off the list.
LEMMA VanishTick == AttentionTypeOK /\ Tick => VanishStep
<1> SUFFICES ASSUME AttentionTypeOK, Tick, NEW i \in Demand, i \notin Demand'
             PROVE  Family(i) = "calendar" /\ sources[i].start < now'
  BY DEF VanishStep
<1>1. UNCHANGED <<world, sources, seen>> /\ now' = now + 1 /\ now \in Nat
  BY DEF Tick, AttentionTypeOK
<1>2. /\ SlackDemand' = SlackDemand /\ EmailDemand' = EmailDemand
      /\ GithubDemand' = GithubDemand /\ Outstanding(i)' = Outstanding(i)
  BY <1>1 DEF SlackDemand, EmailDemand, GithubDemand, Outstanding, Mails, SameThread, Family,
              Static
<1>3. i \in CalendarDemand /\ i \notin CalendarDemand'
  BY <1>2 DEF Demand
<1>4. i \in DOMAIN sources /\ sources[i].start \in Nat
  BY <1>3 DEF CalendarDemand, AttentionTypeOK, ItemRow
<1>5. Family(i)' = Family(i) /\ Static(i)' = Static(i)
  BY <1>1 DEF Family, Static
<1>6. Family(i) = "calendar"
  BY <1>3 DEF CalendarDemand
<1>7. ASSUME now' <= sources[i].start PROVE FALSE
  <2>1. sources[i].start <= now' + MeetingPrep
    BY <1>1, <1>3, <1>4, AttentionConstants DEF CalendarDemand
  <2>2. sources[i].start <= now + MeetingSoon => sources[i].start <= now' + MeetingSoon
    BY <1>1, <1>4, AttentionConstants
  <2> QED BY <1>1, <1>3, <1>4, <1>5, <1>7, <2>1, <2>2 DEF CalendarDemand
<1> QED BY <1>1, <1>4, <1>6, <1>7

\* A mark takes its own row.
LEMMA VanishMark ==
  ASSUME NEW j, NEW mark, Mark(j, mark)
  PROVE  VanishStep
<1> SUFFICES ASSUME NEW i \in Demand, i \notin Demand'
             PROVE  i \in DOMAIN seen' /\ (i \in DOMAIN seen => seen'[i] # seen[i])
  BY DEF VanishStep
<1>1. UNCHANGED <<world, sources, now>> /\ DOMAIN seen' = DOMAIN seen \union {j}
  BY PutRow DEF Mark
<1>2. /\ SlackDemand' = SlackDemand /\ EmailDemand' = EmailDemand
      /\ GithubDemand' = GithubDemand /\ CalendarDemand' = CalendarDemand
  BY <1>1 DEF SlackDemand, EmailDemand, GithubDemand, CalendarDemand, Mails, SameThread,
              Family, Static
<1>3. Outstanding(i) /\ ~Outstanding(i)'
  BY <1>2 DEF Demand
<1>4. i \notin DOMAIN seen /\ i \in DOMAIN seen'
  BY <1>1, <1>3 DEF Outstanding, Family, Static
<1> QED BY <1>4

\* What only an ingested item or an emptied body changes: a row that did not enter is on
\* the list as before, unless a mail that entered answers or supersedes it.
LEMMA VanishEntry ==
  ASSUME AttentionTypeOK, AttentionTypeOK', UNCHANGED <<world, now, seen>>,
         NEW j, DOMAIN sources' = DOMAIN sources \union {j},
         \A k \in DOMAIN sources \ {j} : sources'[k] = sources[k],
         \/ j \notin DOMAIN sources
         \/ sources'[j].text # sources[j].text
         \/ Family(j) = "slack" /\ sources'[j] # sources[j]
  PROVE  VanishStep
<1> DEFINE entered == {i \in DOMAIN sources' :
                         i \notin DOMAIN sources \/ sources'[i] # sources[i]}
<1>1. j \in entered
  OBVIOUS
<1>2. \A k \in DOMAIN sources : sources[k].at \in Nat
  BY DEF AttentionTypeOK, ItemRow
<1>3. \A k : Family(k)' = Family(k) /\ Static(k)' = Static(k)
  BY DEF Family, Static
<1> HIDE DEF entered
<1> SUFFICES ASSUME NEW i \in Demand, i \notin Demand', i \notin entered
             PROVE  \E m \in entered : /\ Family(i) = "email" /\ Family(m) = "email"
                                      /\ SameThread(i, m) /\ sources'[m].at > sources[i].at
  BY DEF VanishStep, entered
<1>4. i \in DOMAIN sources \ {j} /\ sources'[i] = sources[i] /\ i \in DOMAIN sources'
  BY <1>1 DEF Demand, SlackDemand, EmailDemand, CalendarDemand, GithubDemand, Mails
<1>5. Outstanding(i)'
  BY <1>3, <1>4 DEF Demand, Outstanding
<1>6. /\ i \in SlackDemand => i \in SlackDemand'
      /\ i \in CalendarDemand => i \in CalendarDemand'
      /\ i \in GithubDemand => i \in GithubDemand'
  BY <1>3, <1>4 DEF SlackDemand, CalendarDemand, GithubDemand
<1>7. i \in EmailDemand /\ i \notin EmailDemand'
  BY <1>5, <1>6 DEF Demand
<1>8. i \in Mails /\ i \in Mails' /\ Family(i) = "email"
  BY <1>3, <1>4, <1>7 DEF EmailDemand, Mails
<1>9. PICK m \in Mails' : SameThread(m, i)' /\ sources'[m].at > sources'[i].at
                         /\ (Static(m).mine \/ ~Static(m).mine)
                         /\ ~(m \in Mails /\ SameThread(m, i) /\ sources[m].at > sources[i].at)
  BY <1>3, <1>4, <1>7, <1>8 DEF EmailDemand
<1>10. SameThread(i, m) /\ Family(m) = "email" /\ m \in DOMAIN sources'
  BY <1>3, <1>9 DEF SameThread, Mails
<1>11. m = j
  BY <1>3, <1>4, <1>9, <1>10 DEF Mails, SameThread
<1> QED BY <1>1, <1>4, <1>8, <1>9, <1>10, <1>11

LEMMA VanishSources ==
  ASSUME AttentionTypeOK, AttentionTypeOK', NEW i, Ingest(i) \/ DropBody(i)
  PROVE  VanishStep
<1>1. CASE Ingest(i)
  <2>1. /\ DOMAIN sources' = DOMAIN sources \union {i}
        /\ \A k \in DOMAIN sources \ {i} : sources'[k] = sources[k]
        /\ sources'[i] = upstream[i]
    <3>1. sources' = Put(sources, i, upstream[i])
      BY <1>1 DEF Ingest
    <3> QED BY <3>1 DEF Put
  <2>2. i \notin DOMAIN sources \/ sources'[i].text # sources[i].text
    BY <1>1, <2>1 DEF Ingest
  <2>3. UNCHANGED <<world, now, seen>>
    BY <1>1 DEF Ingest
  <2> QED BY <2>1, <2>2, <2>3, VanishEntry
<1>2. CASE DropBody(i)
  <2>1. i \in DOMAIN sources /\ sources[i] \in ItemRow /\ sources[i].body /\ Family(i) = "slack"
    BY <1>2 DEF DropBody, AttentionTypeOK
  <2>2. /\ DOMAIN sources' = DOMAIN sources \union {i}
        /\ \A k \in DOMAIN sources \ {i} : sources'[k] = sources[k]
        /\ sources'[i] = [sources[i] EXCEPT !.body = FALSE]
    BY <1>2, <2>1 DEF DropBody
  <2>3. sources'[i].body = FALSE
    BY <2>1, <2>2 DEF ItemRow
  <2>4. sources'[i] # sources[i]
    BY <2>1, <2>3
  <2>5. UNCHANGED <<world, now, seen>>
    BY <1>2 DEF DropBody
  <2> QED BY <2>1, <2>2, <2>4, <2>5, VanishEntry
<1> QED BY <1>1, <1>2

\* The smaller of two numbers.
LEMMA MinOfTwo ==
  ASSUME NEW x \in Nat, NEW y \in Nat
  PROVE  /\ Min({x, y}) \in {x, y} /\ Min({x, y}) <= x /\ Min({x, y}) <= y
<1>1. \E m \in {x, y} : \A n \in {x, y} : m <= n
  OBVIOUS
<1>2. Min({x, y}) \in {x, y} /\ \A n \in {x, y} : Min({x, y}) <= n
  BY <1>1 DEF Min
<1> QED BY <1>2

\* Ramp of more is more, and it is a natural number.
LEMMA RampUp ==
  ASSUME NEW sat \in Nat \ {0}, NEW a \in Nat, NEW b \in Nat, a <= b
  PROVE  Ramp(a, sat) \in Nat /\ Ramp(b, sat) \in Nat /\ Ramp(a, sat) <= Ramp(b, sat)
<1> DEFINE p == Min({a, sat})
           q == Min({b, sat})
           r == Scale \div sat
<1>2. p \in {a, sat} /\ p <= a /\ p <= sat
  BY MinOfTwo
<1>3. q \in {b, sat} /\ q <= b /\ q <= sat
  BY MinOfTwo
<1>4. r \in Nat
  BY AttentionConstants
<1>5. Ramp(a, sat) = p * r /\ Ramp(b, sat) = q * r
  BY DEF Ramp
<1> HIDE DEF p, q, r
<1>6. p \in Nat /\ q \in Nat /\ p <= q
  BY <1>2, <1>3
<1>7. p * r \in Nat /\ q * r \in Nat /\ p * r <= q * r
  <2>1. ASSUME NEW u \in Nat, NEW v \in Nat, NEW w \in Nat, u <= v
        PROVE  u * w \in Nat /\ v * w \in Nat /\ u * w <= v * w
    <3>1. PICK d \in Nat : v = u + d
      <4>1. v - u \in Nat /\ v = u + (v - u)
        BY <2>1
      <4> QED BY <4>1
    <3>2. d * w \in Nat /\ u * w \in Nat /\ v * w = u * w + d * w
      BY <3>1
    <3> QED BY <3>2
  <2> QED BY <1>4, <1>6, <2>1
<1> QED BY <1>5, <1>7

\* As the clock goes on a due date comes no further, and is passed no less.
LEMMA SinceTick ==
  ASSUME NEW t \in Nat, now \in Nat, now' = now + 1
  PROVE  /\ Since(t, now) \in Nat /\ Since(t, now') \in Nat
         /\ Since(now, t) \in Nat /\ Since(now', t) \in Nat
         /\ Since(t, now) <= Since(t, now') /\ Since(now', t) <= Since(now, t)
BY DEF Since

\* Being late at all scores more than the most imminent due date, later scores more, and
\* nearer scores more.
LEMMA DueTermUp ==
  ASSUME AttentionTypeOK, Tick, NEW row, row.due \in Dues
  PROVE  DueTerm(row)' >= DueTerm(row) /\ DueTerm(row) \in Int /\ DueTerm(row)' \in Int

<1> DEFINE due == row.due
           late == Overdue(row)
           later == Overdue(row)'
           o == OverdueTerm(due)
           p == OverdueTerm(due)'
           d == DueSoonTerm(due)
           e == DueSoonTerm(due)'
<1>1. now \in Nat /\ now' = now + 1 /\ due \in Nat /\ now' < Never
  BY AttentionConstants DEF AttentionTypeOK, Tick, Dues, Never
<1>2. late => later
  BY <1>1 DEF Overdue
<1>3. later => due # Never
  BY <1>1 DEF Overdue
<1>4. o \in Int /\ p \in Int /\ d \in Int /\ e \in Int /\ o <= p /\ d <= e /\ d <= p /\ 0 <= p
  <2> DEFINE a == Ramp(Since(due, now), SatOverdue)
             b == Ramp(Since(due, now), SatOverdue)'
             f == Ramp(Since(now, due), SatDueSoon)
             g == Ramp(Since(now, due), SatDueSoon)'
  <2>1. a \in Nat /\ b \in Nat /\ a <= b
    <3>1. b = Ramp(Since(due, now'), SatOverdue)
      BY DEF Ramp, Since
    <3> QED BY <1>1, <3>1, SinceTick, RampUp, AttentionConstants
  <2>2. f \in Nat /\ g \in Nat /\ g <= f
    <3>1. g = Ramp(Since(now', due), SatDueSoon)
      BY DEF Ramp, Since
    <3> QED BY <1>1, <3>1, SinceTick, RampUp, AttentionConstants
  <2>3. /\ o = 15 * (Scale + a) /\ p = 15 * (Scale + b)
        /\ d = 14 * (Scale - f) /\ e = 14 * (Scale - g)
    BY DEF OverdueTerm, DueSoonTerm
  <2> HIDE DEF a, b, f, g, o, p, d, e
  <2> QED BY <2>1, <2>2, <2>3, AttentionConstants
<1>5. DueTerm(row) = IF late THEN o ELSE IF due # Never THEN d ELSE 0
  BY DEF DueTerm
<1>6. DueTerm(row)' = IF later THEN p ELSE IF due # Never THEN e ELSE 0
  BY DEF DueTerm, Never
<1> HIDE DEF due, late, later, o, p, d, e
<1> QED BY <1>2, <1>3, <1>4, <1>5, <1>6

\* A meeting ahead and a mail to the operator score no less as time passes, what was said
\* or raised no more.
LEMMA DemandScoreTick ==
  ASSUME AttentionTypeOK, Tick, NEW i \in DOMAIN sources
  PROVE  IF Family(i) = "calendar" \/ (Family(i) = "email" /\ Static(i).to = "to")
         THEN DemandScore(i)' >= DemandScore(i)
         ELSE DemandScore(i)' <= DemandScore(i)
<1> DEFINE at == sources[i].at
           start == sources[i].start
           a == Ramp(Since(at, now), SatAging)
           b == Ramp(Since(at, now'), SatAging)
           c == Ramp(Since(at, now), SatFreshness)
           d == Ramp(Since(at, now'), SatFreshness)
           e == Ramp(Since(now, start), MeetingPrep)
           f == Ramp(Since(now', start), MeetingPrep)
           meeting == Family(i) = "calendar"
           toMe == Family(i) = "email" /\ Static(i).to = "to"
<1>1. /\ UNCHANGED <<world, sources>> /\ now \in Nat /\ now' = now + 1
      /\ at \in Nat /\ start \in Nat
  BY DEF Tick, AttentionTypeOK, ItemRow
<1>2. a \in Nat /\ b \in Nat /\ a <= b
  BY <1>1, SinceTick, RampUp, AttentionConstants
<1>3. c \in Nat /\ d \in Nat /\ c <= d
  BY <1>1, SinceTick, RampUp, AttentionConstants
<1>4. e \in Nat /\ f \in Nat /\ f <= e
  BY <1>1, SinceTick, RampUp, AttentionConstants
<1>5. DemandScore(i) = IF meeting THEN 18 * (Scale - e) ELSE IF toMe THEN 25 * a
                       ELSE 15 * (Scale - c)
  BY DEF DemandScore
<1>6. DemandScore(i)' = IF meeting THEN 18 * (Scale - f) ELSE IF toMe THEN 25 * b
                        ELSE 15 * (Scale - d)
  BY <1>1 DEF DemandScore, Family, Static, Ramp, Since
<1> SUFFICES IF meeting \/ toMe THEN DemandScore(i)' >= DemandScore(i)
                                ELSE DemandScore(i)' <= DemandScore(i)
  OBVIOUS
<1> HIDE DEF at, start, a, b, c, d, e, f, meeting, toMe
<1> QED BY <1>2, <1>3, <1>4, <1>5, <1>6, AttentionConstants

\* Only the clock makes now' greater than now, and the scores go the right way.
LEMMA UrgencyKept ==
  ASSUME AttentionTypeOK, [AttentionNext]_attentionVars
  PROVE  UrgencyStep
<1> SUFFICES ASSUME now' > now PROVE UrgencyStep
  BY DEF UrgencyStep
<1>1. Tick
  <2>1. now \in Nat
    BY DEF AttentionTypeOK
  <2>2. now' # now
    BY <2>1
  <2> QED BY <2>2 DEF AttentionNext, attentionVars, Send, Reword, Decline, ReadOnGithub, Change,
             Ingest, DropBody, Mark, AddTask, MoveTask, AddPromise, ClosePromise
<1>2. UNCHANGED <<world, sources, seen, tasks, promises>>
  BY <1>1 DEF Tick
<1>3. ASSUME NEW t \in DOMAIN tasks PROVE TaskScore(t)' >= TaskScore(t)
  <2>1. PICK row : row = tasks[t]
    OBVIOUS
  <2>2. row.due \in Dues
    BY <2>1 DEF AttentionTypeOK
  <2>3. DueTerm(row)' >= DueTerm(row) /\ DueTerm(row) \in Int /\ DueTerm(row)' \in Int
    BY <1>1, <2>2, DueTermUp
  <2>4. TaskScore(t) = DueTerm(row) + IF row.high THEN 10 * Scale ELSE 0
    BY <2>1 DEF TaskScore
  <2>5. TaskScore(t)' = DueTerm(row)' + IF row.high THEN 10 * Scale ELSE 0
    BY <1>2, <2>1 DEF TaskScore, DueTerm, Overdue, OverdueTerm, DueSoonTerm
  <2> QED BY <2>3, <2>4, <2>5, AttentionConstants
<1>4. ASSUME NEW c \in OpenPromises PROVE DueTerm(promises[c])' >= DueTerm(promises[c])
  <2>1. PICK row : row = promises[c]
    OBVIOUS
  <2>2. row.due \in Dues
    BY <2>1 DEF AttentionTypeOK, OpenPromises
  <2>3. DueTerm(row)' >= DueTerm(row)
    BY <1>1, <2>2, DueTermUp
  <2>4. DueTerm(promises[c])' = DueTerm(row)'
    BY <1>2, <2>1 DEF DueTerm, Overdue, OverdueTerm, DueSoonTerm
  <2> QED BY <2>1, <2>3, <2>4
<1>5. \A i \in Demand : i \in DOMAIN sources
  BY DEF Demand, SlackDemand, EmailDemand, CalendarDemand, GithubDemand, Mails
<1> QED BY <1>1, <1>3, <1>4, <1>5, DemandScoreTick DEF UrgencyStep

\* Nothing leaves the list but for a reason.
LEMMA VanishKept ==
  ASSUME AttentionTypeOK, AttentionTypeOK', [AttentionNext]_attentionVars
  PROVE  VanishStep
<1>1. CASE UNCHANGED attentionVars
  BY <1>1, SameDemand DEF attentionVars
<1>2. CASE Tick
  BY <1>2, VanishTick
<1>3. CASE \E i \in DOMAIN world.items : Send(i) \/ Reword(i) \/ Decline(i) \/ ReadOnGithub(i)
  BY <1>3, SameDemand DEF Send, Reword, Decline, ReadOnGithub, Change
<1>4. CASE \E i \in DOMAIN world.items : Ingest(i) \/ DropBody(i)
  BY <1>4, VanishSources
<1>5. CASE \E i \in DOMAIN world.items, mark \in {"acked", "dismissed"} : Mark(i, mark)
  BY <1>5, VanishMark
<1>6. CASE \/ \E t \in world.tasks : AddTask(t) \/ MoveTask(t)
           \/ \E c \in world.promises : AddPromise(c) \/ ClosePromise(c)
  BY <1>6, SameDemand DEF AddTask, MoveTask, AddPromise, ClosePromise
<1> QED BY <1>1, <1>2, <1>3, <1>4, <1>5, <1>6 DEF AttentionNext

\* Nothing leaves the demand list silently, and as time alone passes what is due, near or
\* unanswered never scores less and what was only said never more (listDemand,
\* buildPriorities).
THEOREM DemandAlwaysSteady == AttentionSpec => DemandSteady
<1>1. AttentionTypeOK /\ AttentionTypeOK' /\ [AttentionNext]_attentionVars
        => [VanishStep /\ UrgencyStep]_attentionVars
  BY VanishKept, UrgencyKept
<1> QED BY <1>1, AttentionTypes, PTL DEF AttentionSpec, DemandSteady

\* A page is all the rows, or as many as were asked for.
LEMMA PageSize ==
  ASSUME NEW rows, IsFiniteSet(rows), NEW n \in Nat, NEW page \in SUBSET rows,
         Cardinality(page) = Min({n, Cardinality(rows)})
  PROVE  /\ IsFiniteSet(page) /\ Cardinality(page) \in Nat /\ Cardinality(rows) \in Nat
         /\ Cardinality(page) <= n /\ Cardinality(page) <= Cardinality(rows)
         /\ Cardinality(page) = n \/ (page = rows /\ Cardinality(rows) < n)
<1>1. IsFiniteSet(page) /\ Cardinality(page) \in Nat /\ Cardinality(rows) \in Nat
  BY FS_Subset, FS_CardinalityType
<1>2. Cardinality(page) = Cardinality(rows) => page = rows
  BY FS_Subset
<1>3. /\ Cardinality(page) = n \/ Cardinality(page) = Cardinality(rows)
      /\ Cardinality(page) <= n /\ Cardinality(page) <= Cardinality(rows)
  BY <1>1, MinOfTwo
<1> QED BY <1>1, <1>2, <1>3

\* What a list tool answers: complete, or a full page that leaves something out.
LEMMA ListFacts ==
  ASSUME NEW Before(_, _), NEW rows, IsFiniteSet(rows), NEW limit \in Nat,
         NEW answer \in ListWithTruncation(rows, Before, limit)
  PROVE  /\ ~answer.truncated => answer.rows = rows
         /\ answer.truncated => Cardinality(answer.rows) = limit /\ answer.rows # rows
<1>1. PICK probe \in Pages(rows, Before, limit + 1) :
        IF Cardinality(probe) > limit
        THEN \E page \in Pages(probe, Before, limit) :
               answer = [rows |-> page, truncated |-> TRUE]
        ELSE answer = [rows |-> probe, truncated |-> FALSE]
  BY DEF ListWithTruncation
<1>2. /\ probe \in SUBSET rows /\ Cardinality(probe) = Min({limit + 1, Cardinality(rows)})
  BY <1>1 DEF Pages
<1>5. /\ IsFiniteSet(probe) /\ Cardinality(probe) \in Nat
      /\ Cardinality(probe) = limit + 1 \/ probe = rows
      /\ Cardinality(probe) <= Cardinality(rows) /\ Cardinality(rows) \in Nat
  <2>1. limit + 1 \in Nat
    OBVIOUS
  <2> QED BY <1>2, <2>1, PageSize
<1>3. CASE Cardinality(probe) > limit
  <2>1. PICK page \in Pages(probe, Before, limit) : answer = [rows |-> page, truncated |-> TRUE]
    BY <1>1, <1>3
  <2>2. /\ page \in SUBSET probe /\ Cardinality(page) = Min({limit, Cardinality(probe)})
    BY <2>1 DEF Pages
  <2>3. Cardinality(page) = limit
    BY <1>3, <1>5, <2>2, PageSize
  <2>4. page # rows
    BY <1>3, <1>5, <2>3
  <2> QED BY <1>2, <2>1, <2>2, <2>3, <2>4
<1>4. CASE ~(Cardinality(probe) > limit)
  <2>1. answer = [rows |-> probe, truncated |-> FALSE]
    BY <1>1, <1>4
  <2>2. probe = rows
    BY <1>4, <1>5
  <2> QED BY <2>1, <2>2
<1> QED BY <1>3, <1>4

\* All the tables are finite.
LEMMA FiniteTables ==
  AttentionTypeOK => /\ IsFiniteSet(DOMAIN sources) /\ IsFiniteSet(DOMAIN tasks)
                     /\ IsFiniteSet(DOMAIN promises)
<1> SUFFICES ASSUME AttentionTypeOK
             PROVE  /\ IsFiniteSet(DOMAIN sources) /\ IsFiniteSet(DOMAIN tasks)
                    /\ IsFiniteSet(DOMAIN promises)
  OBVIOUS
<1>1. /\ IsFiniteSet(DOMAIN world.items) /\ IsFiniteSet(world.tasks)
      /\ IsFiniteSet(world.promises)
  BY FiniteWorlds DEF AttentionTypeOK
<1>2. /\ DOMAIN sources \subseteq DOMAIN world.items /\ DOMAIN tasks \subseteq world.tasks
      /\ DOMAIN promises \subseteq world.promises
  BY DEF AttentionTypeOK
<1> QED BY <1>1, <1>2, FS_Subset

\* Every list tool.
LEMMA ListToolsHonest ==
  ASSUME AttentionTypeOK, NEW limit \in Nat, NEW range
  PROVE  /\ \A answer \in DemandList(limit) :
              /\ ~answer.truncated => answer.rows = Demand
              /\ answer.truncated => Cardinality(answer.rows) = limit /\ answer.rows # Demand
         /\ \A answer \in CommitmentList(limit) :
              /\ ~answer.truncated => answer.rows = OpenPromises
              /\ answer.truncated => /\ Cardinality(answer.rows) = limit
                                     /\ answer.rows # OpenPromises
         /\ \A answer \in OverdueTaskList(limit) :
              /\ ~answer.truncated => answer.rows = OverdueTasks
              /\ answer.truncated => /\ Cardinality(answer.rows) = limit
                                     /\ answer.rows # OverdueTasks
         /\ \A answer \in ListWithTruncation(BriefDemand(range), DemandBefore, limit) :
              /\ ~answer.truncated => answer.rows = BriefDemand(range)
              /\ answer.truncated => /\ Cardinality(answer.rows) = limit
                                     /\ answer.rows # BriefDemand(range)
         /\ \A answer \in SourceList(range, limit) :
              /\ ~answer.truncated => answer.rows = SourceRows(range)
              /\ answer.truncated => /\ Cardinality(answer.rows) = limit
                                     /\ answer.rows # SourceRows(range)
<1>1. /\ IsFiniteSet(DOMAIN sources) /\ IsFiniteSet(DOMAIN tasks) /\ IsFiniteSet(DOMAIN promises)
  BY FiniteTables
<1>2. Demand \subseteq DOMAIN sources
  BY DEF Demand, SlackDemand, EmailDemand, CalendarDemand, GithubDemand, Mails
<1>3. /\ OpenPromises \subseteq DOMAIN promises /\ OverdueTasks \subseteq DOMAIN tasks
      /\ SourceRows(range) \subseteq DOMAIN sources /\ BriefDemand(range) \subseteq DOMAIN sources
  BY <1>2 DEF OpenPromises, OverdueTasks, SourceRows, BriefDemand
<1>4. /\ IsFiniteSet(Demand) /\ IsFiniteSet(OpenPromises) /\ IsFiniteSet(OverdueTasks)
      /\ IsFiniteSet(SourceRows(range)) /\ IsFiniteSet(BriefDemand(range))
  BY <1>1, <1>2, <1>3, FS_Subset
<1>5. ASSUME NEW answer \in DemandList(limit)
      PROVE  /\ ~answer.truncated => answer.rows = Demand
             /\ answer.truncated => Cardinality(answer.rows) = limit /\ answer.rows # Demand
  BY <1>4, ListFacts DEF DemandList
<1>6. ASSUME NEW answer \in CommitmentList(limit)
      PROVE  /\ ~answer.truncated => answer.rows = OpenPromises
             /\ answer.truncated => /\ Cardinality(answer.rows) = limit
                                    /\ answer.rows # OpenPromises
  BY <1>4, ListFacts DEF CommitmentList
<1>7. ASSUME NEW answer \in OverdueTaskList(limit)
      PROVE  /\ ~answer.truncated => answer.rows = OverdueTasks
             /\ answer.truncated => /\ Cardinality(answer.rows) = limit
                                    /\ answer.rows # OverdueTasks
  BY <1>4, ListFacts DEF OverdueTaskList
<1>8. ASSUME NEW answer \in ListWithTruncation(BriefDemand(range), DemandBefore, limit)
      PROVE  /\ ~answer.truncated => answer.rows = BriefDemand(range)
             /\ answer.truncated => /\ Cardinality(answer.rows) = limit
                                    /\ answer.rows # BriefDemand(range)
  BY <1>4, ListFacts
<1>9. ASSUME NEW answer \in SourceList(range, limit)
      PROVE  /\ ~answer.truncated => answer.rows = SourceRows(range)
             /\ answer.truncated => /\ Cardinality(answer.rows) = limit
                                    /\ answer.rows # SourceRows(range)
  BY <1>4, ListFacts DEF SourceList
<1> QED BY <1>5, <1>6, <1>7, <1>8, <1>9

\* A ramp is full at its saturation: it never exceeds Scale.
LEMMA RampTop ==
  ASSUME NEW sat \in Nat \ {0}, Scale % sat = 0, NEW a \in Nat
  PROVE  Ramp(a, sat) \in 0 .. Scale
<1> DEFINE p == Min({a, sat})
           r == Scale \div sat
<1>1. p \in Nat /\ p <= sat
  BY MinOfTwo
<1>2. r \in Nat /\ sat * r = Scale
  BY AttentionConstants
<1>3. Ramp(a, sat) = p * r
  BY DEF Ramp
<1> HIDE DEF p, r
<1>4. PICK d \in Nat : sat = p + d
  <2>1. sat - p \in Nat /\ sat = p + (sat - p)
    BY <1>1
  <2> QED BY <2>1
<1>5. d * r \in Nat /\ p * r \in Nat /\ sat * r = p * r + d * r
  BY <1>1, <1>2, <1>4
<1> QED BY <1>2, <1>3, <1>5, AttentionConstants

\* listCommitments leaves out no promise that is more urgent than one it lists.
LEMMA CommitmentOrder ==
  ASSUME NEW limit, NEW answer \in CommitmentList(limit)
  PROVE  /\ answer.rows \subseteq OpenPromises
         /\ \A kept \in answer.rows, cut \in OpenPromises \ answer.rows : ~MoreUrgent(cut, kept)
<1>1. PICK probe \in Pages(OpenPromises, MoreUrgent, limit + 1) :
        \/ \E page \in Pages(probe, MoreUrgent, limit) :
              answer = [rows |-> page, truncated |-> TRUE]
        \/ answer = [rows |-> probe, truncated |-> FALSE]
  BY DEF CommitmentList, ListWithTruncation
<1>2. /\ probe \subseteq OpenPromises
      /\ \A kept \in probe, cut \in OpenPromises \ probe : ~MoreUrgent(cut, kept)
  BY <1>1 DEF Pages
<1>3. CASE \E page \in Pages(probe, MoreUrgent, limit) :
             answer = [rows |-> page, truncated |-> TRUE]
  <2>1. PICK page \in Pages(probe, MoreUrgent, limit) :
          answer = [rows |-> page, truncated |-> TRUE]
    BY <1>3
  <2>2. page \subseteq probe /\ \A kept \in page, cut \in probe \ page : ~MoreUrgent(cut, kept)
    BY DEF Pages
  <2> QED BY <1>2, <2>1, <2>2
<1>4. CASE answer = [rows |-> probe, truncated |-> FALSE]
  BY <1>2, <1>4
<1> QED BY <1>1, <1>3, <1>4

\* What MoreUrgent puts later scores no more, whatever the two due dates.
LEMMA UrgencyScores ==
  ASSUME AttentionTypeOK, NEW cut \in OpenPromises, NEW kept \in OpenPromises,
         ~MoreUrgent(cut, kept)
  PROVE  DueTerm(promises[cut]) <= DueTerm(promises[kept])
<1> DEFINE c == promises[cut].due
           k == promises[kept].due
           oc == Ramp(Since(c, now), SatOverdue)
           ok == Ramp(Since(k, now), SatOverdue)
           dc == Ramp(Since(now, c), SatDueSoon)
           dk == Ramp(Since(now, k), SatDueSoon)
<1>1. now \in Nat /\ c \in Nat /\ k \in Nat
  BY AttentionConstants DEF AttentionTypeOK, OpenPromises, Dues, Never
<1>2. Scale % SatOverdue = 0 /\ Scale % SatDueSoon = 0
  BY ScaleDivides
<1>3. /\ Since(c, now) \in Nat /\ Since(k, now) \in Nat
      /\ Since(now, c) \in Nat /\ Since(now, k) \in Nat
      /\ k <= c => Since(c, now) <= Since(k, now) /\ Since(now, k) <= Since(now, c)
  BY <1>1 DEF Since
<1>4. oc \in 0 .. Scale /\ ok \in 0 .. Scale /\ dc \in 0 .. Scale /\ dk \in 0 .. Scale
  BY <1>2, <1>3, RampTop, AttentionConstants
<1>5. k <= c => oc <= ok /\ dk <= dc
  BY <1>3, RampUp, AttentionConstants
<1>6. /\ Tier(cut) = IF Overdue(promises[cut]) THEN 0 ELSE IF c # Never THEN 1 ELSE 2
      /\ Tier(kept) = IF Overdue(promises[kept]) THEN 0 ELSE IF k # Never THEN 1 ELSE 2
  BY DEF Tier
<1>7. /\ DueTerm(promises[cut]) = IF Overdue(promises[cut]) THEN 15 * (Scale + oc)
                                 ELSE IF c # Never THEN 14 * (Scale - dc) ELSE 0
      /\ DueTerm(promises[kept]) = IF Overdue(promises[kept]) THEN 15 * (Scale + ok)
                                  ELSE IF k # Never THEN 14 * (Scale - dk) ELSE 0
  BY DEF DueTerm, OverdueTerm, DueSoonTerm
<1>8. /\ ~(Tier(cut) < Tier(kept))
      /\ Tier(cut) = Tier(kept) => ~(c < k)
  BY DEF MoreUrgent
<1> SUFFICES DueTerm(promises[cut]) <= DueTerm(promises[kept])
  OBVIOUS
<1> HIDE DEF c, k, oc, ok, dc, dk
<1> QED BY <1>1, <1>4, <1>5, <1>6, <1>7, <1>8, AttentionConstants

\* The promises a cut list leaves out score least.
LEMMA LeastUrgentCut == AttentionTypeOK => CutLeastUrgent
<1> SUFFICES ASSUME AttentionTypeOK, NEW limit \in Limits \union {CandidateCap},
                    NEW answer \in CommitmentList(limit),
                    NEW kept \in answer.rows, NEW cut \in OpenPromises \ answer.rows
             PROVE  DueTerm(promises[cut]) <= DueTerm(promises[kept])
  BY DEF CutLeastUrgent
<1>1. ~MoreUrgent(cut, kept) /\ kept \in OpenPromises
  BY CommitmentOrder
<1> QED BY <1>1, UrgencyScores

\* A non-empty set of times has a first one.
LEMMA FirstTime ==
  ASSUME NEW T \in SUBSET Nat, T # {}
  PROVE  \E x \in T : \A y \in T : x <= y
<1> DEFINE R == OpToRel(<, Nat)
<1>1. IsWellFoundedOn(R, Nat)
  BY NatLessThanWellFounded
<1>2. PICK x \in T : \A y \in T : ~ (<<y, x>> \in R)
  <2> HIDE DEF R
  <2> QED BY <1>1, WFMin
<1>3. \A y \in T : <<y, x>> \in R <=> y < x
  BY DEF OpToRel
<1>4. \A y \in T : ~(y < x)
  BY <1>2, <1>3
<1> HIDE DEF R
<1> QED BY <1>4

\* The rows of the ranking that stand for tasks, promises and calls.
LEMMA RowFacts ==
  ASSUME NEW x
  PROVE  /\ TaskRow(x).id = x /\ TaskRow(x).entity = "task" /\ TaskRow(x).tier = 1
         /\ PromiseRow(x).id = x /\ PromiseRow(x).entity = "commitment" /\ PromiseRow(x).tier = 1
         /\ DemandRow(x).id = x /\ DemandRow(x).entity = "demand"
         /\ Imminent(x) => DemandRow(x).tier = 0 /\ DemandRow(x).start = sources[x].start
         /\ ~Imminent(x) => DemandRow(x).tier = 1
<1>1. TaskRow(x).id = x /\ TaskRow(x).entity = "task" /\ TaskRow(x).tier = 1
  BY DEF TaskRow, Row
<1>2. PromiseRow(x).id = x /\ PromiseRow(x).entity = "commitment" /\ PromiseRow(x).tier = 1
  BY DEF PromiseRow, Row
<1>3. DemandRow(x).id = x /\ DemandRow(x).entity = "demand"
  BY DEF DemandRow, Row
<1>4. CASE Imminent(x)
  BY <1>1, <1>2, <1>3, <1>4 DEF DemandRow, Row
<1>5. CASE ~Imminent(x)
  BY <1>1, <1>2, <1>3, <1>5 DEF DemandRow, Row
<1> QED BY <1>4, <1>5

\* The meetings ImminentLeads is about are the imminent rows of the demand list.
LEMMA ImminentRows ==
  ASSUME AttentionTypeOK, NEW i
  PROVE  (/\ i \in DOMAIN sources \ DOMAIN seen
          /\ Family(i) = "calendar" /\ Static(i).attend /\ ~Static(i).allDay
          /\ ~sources[i].declined
          /\ sources[i].start \in now .. now + StartingSoon)
         <=> i \in Demand /\ Imminent(i)
<1>1. CASE i \in DOMAIN sources /\ Family(i) = "calendar"
  <2>1. now \in Nat /\ sources[i].start \in Nat
    BY <1>1 DEF AttentionTypeOK, ItemRow
  <2>2. "calendar" # "slack" /\ "calendar" # "email" /\ "calendar" # "github"
    OBVIOUS
  <2>3. i \in Demand <=> i \in CalendarDemand /\ i \notin DOMAIN seen
    BY <1>1, <2>2 DEF Demand, SlackDemand, EmailDemand, GithubDemand, Mails, Outstanding
  <2>4. now <= sources[i].start =>
          (Imminent(i) <=> sources[i].start \in now .. now + StartingSoon)
    BY <1>1, <2>1, AttentionConstants DEF Imminent, Since
  <2>5. sources[i].start \in now .. now + StartingSoon =>
          /\ now <= sources[i].start /\ sources[i].start <= now + MeetingPrep
          /\ sources[i].start <= now + MeetingSoon
    BY <2>1, AttentionConstants
  <2> QED BY <1>1, <2>1, <2>3, <2>4, <2>5 DEF CalendarDemand
<1>2. CASE ~(i \in DOMAIN sources /\ Family(i) = "calendar")
  BY <1>2 DEF Demand, Imminent, SlackDemand, EmailDemand, CalendarDemand, GithubDemand, Mails
<1> QED BY <1>1, <1>2

\* The calls the ranking is made from have the first of the imminent meetings, or one
\* that begins with it, however low the candidate cap.
LEMMA FirstMeetingKept ==
  ASSUME AttentionTypeOK, NEW calls \in Pages(Demand, DemandBefore, CandidateCap),
         NEW m \in Demand, Imminent(m),
         \A i \in Demand : Imminent(i) => sources[m].start <= sources[i].start
  PROVE  \E k \in calls : Imminent(k) /\ sources[k].start = sources[m].start
<1>1. /\ calls \in SUBSET Demand /\ Cardinality(calls) = Min({CandidateCap, Cardinality(Demand)})
      /\ \A kept \in calls, cut \in Demand \ calls : ~DemandBefore(cut, kept)
  BY DEF Pages
<1>2. IsFiniteSet(Demand)
  <2>1. Demand \subseteq DOMAIN sources
    BY DEF Demand, SlackDemand, EmailDemand, CalendarDemand, GithubDemand, Mails
  <2> QED BY <2>1, FiniteTables, FS_Subset
<1>3. PICK k \in calls : TRUE
  <2>1. calls # {}
    <3>1. Cardinality(calls) = CandidateCap \/ calls = Demand
      BY <1>1, <1>2, PageSize, AttentionConstants
    <3>2. Cardinality(calls) # 0 \/ calls = Demand
      BY <3>1, AttentionConstants
    <3> QED BY <3>2, FS_EmptySet
  <2> QED BY <2>1
<1>4. CASE m \in calls
  BY <1>4
<1>5. CASE m \notin calls
  <2>1. ~DemandBefore(m, k) /\ k \in Demand
    BY <1>1, <1>5
  <2>2. Family(m) = "calendar"
    BY DEF Imminent
  <2>3. Family(k) = "calendar" /\ ~(sources[m].start < sources[k].start)
    BY <2>1, <2>2 DEF DemandBefore
  <2>4. /\ m \in DOMAIN sources /\ k \in DOMAIN sources
        /\ now <= sources[k].start
        /\ sources[m].start \in now .. now + StartingSoon
    <3>1. k \in CalendarDemand
      BY <2>1, <2>3 DEF Demand, SlackDemand, EmailDemand, GithubDemand, Mails
    <3> QED BY <3>1, ImminentRows DEF CalendarDemand
  <2>5. now \in Nat /\ sources[m].start \in Nat /\ sources[k].start \in Nat
    BY <2>4 DEF AttentionTypeOK, ItemRow
  <2>6. Since(now, sources[k].start) <= StartingSoon
    BY <2>3, <2>4, <2>5, AttentionConstants DEF Since
  <2>7. Imminent(k)
    BY <2>3, <2>6 DEF Imminent
  <2>8. sources[m].start <= sources[k].start
    BY <2>1, <2>7
  <2> QED BY <2>3, <2>5, <2>7, <2>8
<1> QED BY <1>4, <1>5

\* A ranking is led by a row of the top tier if it is made from one, and by none later.
LEMMA TopTierLeads ==
  ASSUME NEW candidates, IsFiniteSet(candidates), NEW limit \in Nat \ {0},
         NEW top \in Pages(candidates, Outranks, limit), NEW r \in candidates, r.tier = 0,
         r.start \in Nat,
         \A c \in candidates : c.tier \in {0, 1} /\ (c.tier = 0 => c.start \in Nat)
  PROVE  \E q \in top : q \in candidates /\ q.tier = 0 /\ q.start <= r.start
<1>1. /\ top \in SUBSET candidates /\ Cardinality(top) = Min({limit, Cardinality(candidates)})
      /\ \A kept \in top, cut \in candidates \ top : ~Outranks(cut, kept)
  BY DEF Pages
<1>2. PICK q \in top : TRUE
  <2>1. Cardinality(top) = limit \/ top = candidates
    BY <1>1, PageSize
  <2>2. Cardinality(top) # 0 \/ top = candidates
    BY <2>1
  <2> QED BY <2>2, FS_EmptySet
<1>3. CASE r \in top
  BY <1>3
<1>4. CASE r \notin top
  <2>1. ~Outranks(r, q) /\ q \in candidates
    BY <1>1, <1>4
  <2>2. q.tier \in {0, 1} /\ ~(r.tier < q.tier)
    BY <2>1 DEF Outranks
  <2>3. q.tier = 0
    BY <2>2
  <2>4. ~(r.start < q.start)
    BY <2>1, <2>3 DEF Outranks
  <2> QED BY <2>1, <2>3, <2>4
<1> QED BY <1>3, <1>4

\* The candidates of a ranking: rows of pages of the four lists.
LEMMA CandidateParts ==
  ASSUME NEW candidates \in CandidateSets
  PROVE  \E open \in Pages(TaskRows({"open"}, Never + 1), LastTouched, CandidateCap),
            started \in Pages(TaskRows({"in_progress"}, Never + 1), LastTouched, CandidateCap),
            owed \in Pages(OpenPromises, MoreUrgent, CandidateCap),
            calls \in Pages(Demand, DemandBefore, CandidateCap) :
              candidates = {TaskRow(t) : t \in open \union started}
                             \union {PromiseRow(c) : c \in owed}
                             \union {DemandRow(i) : i \in calls}
BY DEF CandidateSets

\* The four lists a ranking is made from are finite, and so are its candidates.
LEMMA CandidatesFinite ==
  ASSUME AttentionTypeOK, NEW candidates \in CandidateSets
  PROVE  IsFiniteSet(candidates)
<1>1. PICK open \in Pages(TaskRows({"open"}, Never + 1), LastTouched, CandidateCap),
           started \in Pages(TaskRows({"in_progress"}, Never + 1), LastTouched, CandidateCap),
           owed \in Pages(OpenPromises, MoreUrgent, CandidateCap),
           calls \in Pages(Demand, DemandBefore, CandidateCap) :
        candidates = {TaskRow(t) : t \in open \union started}
                       \union {PromiseRow(c) : c \in owed} \union {DemandRow(i) : i \in calls}
  BY CandidateParts
<1>2. /\ open \union started \subseteq DOMAIN tasks /\ owed \subseteq DOMAIN promises
      /\ calls \subseteq DOMAIN sources
  BY DEF Pages, TaskRows, OpenPromises, Demand, SlackDemand, EmailDemand, CalendarDemand,
         GithubDemand, Mails
<1>3. IsFiniteSet(open \union started) /\ IsFiniteSet(owed) /\ IsFiniteSet(calls)
  BY <1>2, FiniteTables, FS_Subset
<1>4. IsFiniteSet({TaskRow(t) : t \in open \union started})
  <2>1. [t \in open \union started |-> TaskRow(t)]
          \in Surjection(open \union started, {TaskRow(t) : t \in open \union started})
    BY DEF Surjection
  <2> QED BY <1>3, <2>1, FS_Surjection
<1>5. IsFiniteSet({PromiseRow(c) : c \in owed})
  <2>1. [c \in owed |-> PromiseRow(c)] \in Surjection(owed, {PromiseRow(c) : c \in owed})
    BY DEF Surjection
  <2> QED BY <1>3, <2>1, FS_Surjection
<1>6. IsFiniteSet({DemandRow(i) : i \in calls})
  <2>1. [i \in calls |-> DemandRow(i)] \in Surjection(calls, {DemandRow(i) : i \in calls})
    BY DEF Surjection
  <2> QED BY <1>3, <2>1, FS_Surjection
<1> QED BY <1>1, <1>4, <1>5, <1>6, FS_Union

\* The meetings to be in soonest lead, through both cuts.
LEMMA ImminentFirst == AttentionTypeOK => ImminentLeads
<1> DEFINE soon == {i \in DOMAIN sources \ DOMAIN seen :
                      /\ Family(i) = "calendar" /\ Static(i).attend /\ ~Static(i).allDay
                      /\ ~sources[i].declined
                      /\ sources[i].start \in now .. now + StartingSoon}
<1> SUFFICES ASSUME AttentionTypeOK, soon # {}, NEW limit \in Limits,
                    NEW answer \in Priorities(limit)
             PROVE  \E r \in answer.rows :
                      r.id \in soon /\ \A i \in soon : r.start <= sources[i].start
  BY DEF ImminentLeads
<1>1. \A i : i \in soon <=> i \in Demand /\ Imminent(i)
  BY ImminentRows
<1>2. \A i \in soon : sources[i].start \in Nat
  BY DEF AttentionTypeOK, ItemRow
<1> HIDE DEF soon
<1>3. PICK m \in soon : \A i \in soon : sources[m].start <= sources[i].start
  <2> DEFINE starts == {sources[i].start : i \in soon}
  <2>1. starts \in SUBSET Nat /\ starts # {}
    BY <1>2
  <2>2. PICK x \in starts : \A y \in starts : x <= y
    <3> HIDE DEF starts
    <3> QED BY <2>1, FirstTime
  <2> QED BY <2>2
<1>4. PICK candidates \in CandidateSets :
        \E top \in Pages(candidates, Outranks, limit) :
          answer = [rows |-> top, truncated |-> Cardinality(candidates) > limit]
  BY DEF Priorities
<1>5. PICK top \in Pages(candidates, Outranks, limit) : answer.rows = top
  BY <1>4
<1>6. PICK open \in Pages(TaskRows({"open"}, Never + 1), LastTouched, CandidateCap),
           started \in Pages(TaskRows({"in_progress"}, Never + 1), LastTouched, CandidateCap),
           owed \in Pages(OpenPromises, MoreUrgent, CandidateCap),
           calls \in Pages(Demand, DemandBefore, CandidateCap) :
        candidates = {TaskRow(t) : t \in open \union started}
                       \union {PromiseRow(c) : c \in owed} \union {DemandRow(i) : i \in calls}
  BY CandidateParts
<1>7. PICK k \in calls : Imminent(k) /\ sources[k].start = sources[m].start
  BY <1>1, <1>3, FirstMeetingKept
<1>8. calls \subseteq Demand
  BY DEF Pages
<1>9. /\ DemandRow(k) \in candidates /\ DemandRow(k).tier = 0
      /\ DemandRow(k).start = sources[m].start /\ sources[m].start \in Nat
  <2>1. DemandRow(k) \in candidates
    BY <1>6
  <2>2. DemandRow(k).tier = 0 /\ DemandRow(k).start = sources[k].start
    BY <1>7, RowFacts
  <2> QED BY <1>2, <1>7, <2>1, <2>2
<1>10. ASSUME NEW c \in candidates
       PROVE  /\ c.tier \in {0, 1}
              /\ c.tier = 0 => c.id \in soon /\ c.start = sources[c.id].start /\ c.start \in Nat
  <2>1. CASE \E t : c = TaskRow(t)
    <3>1. PICK t : c = TaskRow(t)
      BY <2>1
    <3>2. c.tier = 1
      BY <3>1, RowFacts
    <3> QED BY <3>2
  <2>2. CASE \E p : c = PromiseRow(p)
    <3>1. PICK p : c = PromiseRow(p)
      BY <2>2
    <3>2. c.tier = 1
      BY <3>1, RowFacts
    <3> QED BY <3>2
  <2>3. CASE \E i \in calls : c = DemandRow(i)
    <3>1. PICK i \in calls : c = DemandRow(i)
      BY <2>3
    <3>2. CASE Imminent(i)
      <4>1. c.tier = 0 /\ c.id = i /\ c.start = sources[i].start
        BY <3>1, <3>2, RowFacts
      <4>2. i \in soon
        BY <1>1, <1>8, <3>2
      <4> QED BY <1>2, <4>1, <4>2
    <3>3. CASE ~Imminent(i)
      <4>1. c.tier = 1
        BY <3>1, <3>3, RowFacts
      <4> QED BY <4>1
    <3> QED BY <3>2, <3>3
  <2> QED BY <1>6, <2>1, <2>2, <2>3
<1>11. IsFiniteSet(candidates)
  BY CandidatesFinite
<1>12. PICK q \in top : q \in candidates /\ q.tier = 0 /\ q.start <= DemandRow(k).start
  BY <1>9, <1>10, <1>11, TopTierLeads, SomeLimits
<1>13. q.id \in soon /\ q.start \in Nat
  BY <1>10, <1>12
<1>14. \A i \in soon : q.start <= sources[i].start
  BY <1>2, <1>3, <1>9, <1>12, <1>13
<1> QED BY <1>5, <1>12, <1>13, <1>14

\* A list was not cut at the candidate cap if the rows it gave the ranking, found among
\* fewer than the cap, are fewer.
LEMMA WholePage ==
  ASSUME NEW rows, IsFiniteSet(rows), NEW page \in SUBSET rows,
         Cardinality(page) = Min({CandidateCap, Cardinality(rows)}),
         NEW all, IsFiniteSet(all), Cardinality(all) < CandidateCap,
         NEW f, f \in Surjection(all, page)
  PROVE  page = rows
<1>1. Cardinality(page) <= Cardinality(all) /\ Cardinality(all) \in Nat
  BY FS_Surjection, FS_CardinalityType
<1>2. Cardinality(page) \in Nat /\ (Cardinality(page) = CandidateCap \/ page = rows)
  BY PageSize, AttentionConstants
<1> QED BY <1>1, <1>2, AttentionConstants

\* The next actions are complete when they do not say otherwise, below the candidate cap.
LEMMA RankingHonest ==
  ASSUME AttentionTypeOK, NEW limit \in Nat \ {0}, limit < CandidateCap,
         NEW answer \in Priorities(limit)
  PROVE  LET wanted == {TaskRow(t) : t \in TaskRows(Active, Never + 1)}
                         \union {PromiseRow(c) : c \in OpenPromises}
                         \union {DemandRow(i) : i \in Demand}
         IN  /\ ~answer.truncated => answer.rows = wanted
             /\ answer.truncated => Cardinality(answer.rows) = limit /\ answer.rows # wanted
<1> DEFINE wanted == {TaskRow(t) : t \in TaskRows(Active, Never + 1)}
                       \union {PromiseRow(c) : c \in OpenPromises}
                       \union {DemandRow(i) : i \in Demand}
           opens == TaskRows({"open"}, Never + 1)
           starteds == TaskRows({"in_progress"}, Never + 1)
<1>1. PICK candidates \in CandidateSets :
        \E top \in Pages(candidates, Outranks, limit) :
          answer = [rows |-> top, truncated |-> Cardinality(candidates) > limit]
  BY DEF Priorities
<1>2. PICK top \in Pages(candidates, Outranks, limit) :
        answer = [rows |-> top, truncated |-> Cardinality(candidates) > limit]
  BY <1>1
<1>3. PICK open \in Pages(opens, LastTouched, CandidateCap),
           started \in Pages(starteds, LastTouched, CandidateCap),
           owed \in Pages(OpenPromises, MoreUrgent, CandidateCap),
           calls \in Pages(Demand, DemandBefore, CandidateCap) :
        candidates = {TaskRow(t) : t \in open \union started}
                       \union {PromiseRow(c) : c \in owed} \union {DemandRow(i) : i \in calls}
  BY CandidateParts
<1>4. /\ open \in SUBSET opens /\ Cardinality(open) = Min({CandidateCap, Cardinality(opens)})
      /\ started \in SUBSET starteds
      /\ Cardinality(started) = Min({CandidateCap, Cardinality(starteds)})
      /\ owed \in SUBSET OpenPromises
      /\ Cardinality(owed) = Min({CandidateCap, Cardinality(OpenPromises)})
      /\ calls \in SUBSET Demand /\ Cardinality(calls) = Min({CandidateCap, Cardinality(Demand)})
      /\ top \in SUBSET candidates /\ Cardinality(top) = Min({limit, Cardinality(candidates)})
  BY DEF Pages
<1>5. TaskRows(Active, Never + 1) = opens \union starteds
  BY DEF TaskRows, Active
<1>6. IsFiniteSet(candidates) /\ Cardinality(candidates) \in Nat
  BY CandidatesFinite, FS_CardinalityType
<1>7. /\ IsFiniteSet(opens) /\ IsFiniteSet(starteds) /\ IsFiniteSet(OpenPromises)
      /\ IsFiniteSet(Demand)
  <2>1. /\ opens \subseteq DOMAIN tasks /\ starteds \subseteq DOMAIN tasks
        /\ OpenPromises \subseteq DOMAIN promises /\ Demand \subseteq DOMAIN sources
    BY DEF TaskRows, OpenPromises, Demand, SlackDemand, EmailDemand, CalendarDemand,
           GithubDemand, Mails
  <2> QED BY <2>1, FiniteTables, FS_Subset
<1>8. ASSUME ~(Cardinality(candidates) > limit) PROVE candidates = wanted
  <2>1. Cardinality(candidates) < CandidateCap
    BY <1>6, <1>8, AttentionConstants
  <2>2. ASSUME NEW page, NEW some \in SUBSET candidates, page = {r.id : r \in some}
        PROVE  \E f : f \in Surjection(some, page)
    <3>1. [r \in some |-> r.id] \in Surjection(some, page)
      BY <2>2 DEF Surjection
    <3> QED BY <3>1
  <2>3. ASSUME NEW some \in SUBSET candidates
        PROVE  IsFiniteSet(some) /\ Cardinality(some) < CandidateCap
    BY <1>6, <2>1, FS_Subset, FS_CardinalityType, AttentionConstants
  <2>4. open = opens
    <3> DEFINE some == {TaskRow(t) : t \in open}
    <3>1. some \in SUBSET candidates
      BY <1>3
    <3>2. open = {r.id : r \in some}
      <4>1. \A t \in open : TaskRow(t).id = t
        BY RowFacts
      <4> QED BY <4>1
    <3> HIDE DEF some
    <3>3. PICK f : f \in Surjection(some, open)
      BY <2>2, <3>1, <3>2
    <3> QED BY <1>4, <1>7, <2>3, <3>1, <3>3, WholePage
  <2>5. started = starteds
    <3> DEFINE some == {TaskRow(t) : t \in started}
    <3>1. some \in SUBSET candidates
      BY <1>3
    <3>2. started = {r.id : r \in some}
      <4>1. \A t \in started : TaskRow(t).id = t
        BY RowFacts
      <4> QED BY <4>1
    <3> HIDE DEF some
    <3>3. PICK f : f \in Surjection(some, started)
      BY <2>2, <3>1, <3>2
    <3> QED BY <1>4, <1>7, <2>3, <3>1, <3>3, WholePage
  <2>6. owed = OpenPromises
    <3> DEFINE some == {PromiseRow(c) : c \in owed}
    <3>1. some \in SUBSET candidates
      BY <1>3
    <3>2. owed = {r.id : r \in some}
      <4>1. \A c \in owed : PromiseRow(c).id = c
        BY RowFacts
      <4> QED BY <4>1
    <3> HIDE DEF some
    <3>3. PICK f : f \in Surjection(some, owed)
      BY <2>2, <3>1, <3>2
    <3> QED BY <1>4, <1>7, <2>3, <3>1, <3>3, WholePage
  <2>7. calls = Demand
    <3> DEFINE some == {DemandRow(i) : i \in calls}
    <3>1. some \in SUBSET candidates
      BY <1>3
    <3>2. calls = {r.id : r \in some}
      <4>1. \A i \in calls : DemandRow(i).id = i
        BY RowFacts
      <4> QED BY <4>1
    <3> HIDE DEF some
    <3>3. PICK f : f \in Surjection(some, calls)
      BY <2>2, <3>1, <3>2
    <3> QED BY <1>4, <1>7, <2>3, <3>1, <3>3, WholePage
  <2> QED BY <1>3, <1>5, <2>4, <2>5, <2>6, <2>7
<1>9. candidates \subseteq wanted
  BY <1>3, <1>4, <1>5
<1>10. ASSUME Cardinality(candidates) > limit PROVE Cardinality(top) = limit /\ top # wanted
  <2>1. Cardinality(top) = limit
    BY <1>4, <1>6, <1>10, PageSize
  <2>2. top # candidates
    BY <1>6, <1>10, <2>1
  <2> QED BY <1>4, <1>9, <2>1, <2>2
<1>11. ~(Cardinality(candidates) > limit) => top = candidates
  <2>1. /\ Cardinality(top) = limit \/ top = candidates
        /\ Cardinality(top) <= Cardinality(candidates) /\ Cardinality(top) \in Nat
    BY <1>4, <1>6, PageSize
  <2>2. Cardinality(top) = Cardinality(candidates) => top = candidates
    BY <1>4, <1>6, FS_Subset
  <2> QED BY <1>6, <2>1, <2>2
<1> HIDE DEF wanted
<1>12. /\ ~answer.truncated => answer.rows = wanted
       /\ answer.truncated => Cardinality(answer.rows) = limit /\ answer.rows # wanted
  BY <1>2, <1>8, <1>10, <1>11
<1> QED BY <1>12 DEF wanted

\* An answer says that it was cut exactly when it was.
LEMMA TruncationSaid == AttentionTypeOK => TruncationHonest
<1> DEFINE Honest(answer, rows, limit) ==
             /\ ~answer.truncated => answer.rows = rows
             /\ answer.truncated => Cardinality(answer.rows) = limit /\ answer.rows # rows
           period == [after |-> 1, before |-> MaxNow + 1]
           wanted == {TaskRow(t) : t \in TaskRows(Active, Never + 1)}
                       \union {PromiseRow(c) : c \in OpenPromises}
                       \union {DemandRow(i) : i \in Demand}
<1> SUFFICES ASSUME AttentionTypeOK, NEW limit \in Limits
             PROVE  /\ \A answer \in DemandList(limit) : Honest(answer, Demand, limit)
                    /\ \A answer \in CommitmentList(limit) : Honest(answer, OpenPromises, limit)
                    /\ \A answer \in OverdueTaskList(limit) :
                         Honest(answer, {t \in DOMAIN tasks : Overdue(tasks[t])}, limit)
                    /\ \A brief \in Brief(period, limit) :
                         /\ Honest(brief.demand, BriefDemand(period), limit)
                         /\ Honest(brief.sources, SourceRows(period), limit)
                    /\ limit < CandidateCap =>
                         \A answer \in Priorities(limit) : Honest(answer, wanted, limit)
  BY DEF TruncationHonest
<1>1. limit \in Nat \ {0}
  BY SomeLimits
<1>2. \A answer \in DemandList(limit) : Honest(answer, Demand, limit)
  BY <1>1, ListToolsHonest
<1>3. \A answer \in CommitmentList(limit) : Honest(answer, OpenPromises, limit)
  BY <1>1, ListToolsHonest
<1>4. \A answer \in OverdueTaskList(limit) :
        Honest(answer, {t \in DOMAIN tasks : Overdue(tasks[t])}, limit)
  <2>1. {t \in DOMAIN tasks : Overdue(tasks[t])} = OverdueTasks
    BY DEF OverdueTasks
  <2> QED BY <1>1, <2>1, ListToolsHonest
<1>5. ASSUME NEW brief \in Brief(period, limit)
      PROVE  /\ Honest(brief.demand, BriefDemand(period), limit)
             /\ Honest(brief.sources, SourceRows(period), limit)
  <2>1. /\ brief.demand \in ListWithTruncation(BriefDemand(period), DemandBefore, limit)
        /\ brief.sources \in SourceList(period, limit)
    BY DEF Brief
  <2> QED BY <1>1, <2>1, ListToolsHonest
<1>6. ASSUME limit < CandidateCap, NEW answer \in Priorities(limit)
      PROVE  Honest(answer, wanted, limit)
  BY <1>1, <1>6, RankingHonest
<1> QED BY <1>2, <1>3, <1>4, <1>5, <1>6

\* What is asked for and not shown is the least urgent, and the answer says so
\* (listCommitments, buildPriorities, comparePriority, withTruncation).
THEOREM ShownAlwaysHonest == AttentionSpec => []ShownHonest
<1>1. AttentionTypeOK => ShownHonest
  BY ImminentFirst, LeastUrgentCut, TruncationSaid DEF ShownHonest
<1> QED BY <1>1, AttentionTypes, PTL
=============================================================================
