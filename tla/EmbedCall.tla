---------------------------- MODULE EmbedCall ----------------------------
(***************************************************************************)
(* One call of an embedder, from the texts a caller hands in to the slots  *)
(* it gets back (retrieval/embedding/embedder.ts), over the retry policy   *)
(* every remote call of the program shares (util/retry.ts).                *)
(*                                                                         *)
(* The texts are capped, cut into chunks and sent one request at a time.   *)
(* A request that fails is tried again while attempts remain; a chunk that *)
(* fails for good is sent again text by text; a chunk of which nothing can *)
(* be embedded ends the call.  The service answers, refuses, drops or      *)
(* never answers; it never accepts a text it cannot embed.                 *)
(***************************************************************************)
EXTENDS Integers, Sequences

CONSTANTS MaxTexts,     \* bound: texts handed in
          BatchSizes,   \* values of [embedding].maxBatch a call may run with
          Backends,     \* a subset of {"ollama", "api"}
          MaxAttempts,  \* maxRetries
          BaseWait,     \* baseBackoffMs
          MaxBackoff,   \* maxBackoffMs, which also caps a Retry-After
          RetryAfters,  \* waits a refusal may ask for
          RequestTimeout \* requestTimeoutMs, 0 for no timer

\* What the constants are.
EmbedCallConstants ==
  /\ MaxTexts \in Nat /\ RequestTimeout \in Nat /\ BatchSizes \subseteq Int
  /\ Backends \subseteq {"ollama", "api"}
  /\ MaxAttempts \in Int /\ BaseWait \in Nat /\ MaxBackoff \in Nat
  /\ RetryAfters \subseteq Nat \ {0}

VARIABLES
  job,       \* the texts, maxBatch, the backend, and whether there is a cap
             \* and whether the model's dimension fits the table; all fixed
  pc,        \* "ready", "flight", "reading", "waiting", "done" or "threw"
  mode,      \* "batch", or "alone" while a failed chunk is sent text by text
  attempt,   \* of the request, from 1
  wait,      \* the backoff being slept
  out,       \* slots filled so far: the text a vector is of, or Hole
  isolated,  \* slots of the chunk being sent text by text
  produced,  \* some vector was produced
  faults     \* history: transient faults, counted up to MaxAttempts, and
             \* whether the service failed for good on texts it can embed

request == <<mode, attempt, wait, isolated>>
vars == <<job, pc, request, out, produced, faults>>

texts == job.texts

Hole    == 0
NoIndex == -2

----------------------------------------------------------------------------
(* The text cap and the chunks.                                             *)

\* capTexts: a text over maxInputChars is cut to fit, so only with the cap
\* off is a long text one the service will not take.
Unacceptable(t) == \/ texts[t] = "poison"
                   \/ texts[t] = "long" /\ ~job.capOn

ChunkSize == IF job.batch > 0 THEN job.batch ELSE Len(texts)

\* The chunk that starts after the slots already filled.
Chunk == LET left == Len(texts) - Len(out)
         IN  [i \in 1..(IF ChunkSize < left THEN ChunkSize ELSE left) |->
                Len(out) + i]

\* The texts of the request being made.
Asked == IF mode = "batch" THEN Chunk ELSE <<Chunk[Len(isolated) + 1]>>

----------------------------------------------------------------------------
(* Reading an answer.  Data is a sequence of entries, each with the vector  *)
(* (named by the text it is of) and the index the API gave it, if any.      *)

EntryAt(data, i) == IF data[i].at = NoIndex THEN i - 1 ELSE data[i].at

Malformed(data, n) ==
  \/ Len(data) # n
  \/ \E i \in DOMAIN data : EntryAt(data, i) \notin 0..(n - 1)
  \/ \E i, j \in DOMAIN data : i # j /\ EntryAt(data, i) = EntryAt(data, j)

\* Mutant: the vectors taken in the order the entries came in.
RestoredAsReceived(data) == [k \in DOMAIN data |-> data[k].of]

\* The vectors in input order, whatever order the entries came in.
Restored(data) ==
  [k \in DOMAIN data |->
     data[CHOOSE i \in DOMAIN data : EntryAt(data, i) = k - 1].of]

\* What an honest service may answer: in order without indexes, or, from an
\* API, in any order with them.
HonestAnswers(asked) ==
  {[i \in DOMAIN asked |-> [at |-> NoIndex, of |-> asked[i]]]} \cup
  (IF job.backend = "ollama" THEN {}
   ELSE {[i \in DOMAIN asked |-> [at |-> p[i] - 1, of |-> asked[p[i]]]] :
           p \in {q \in [DOMAIN asked -> DOMAIN asked] :
                    \A i, j \in DOMAIN asked : q[i] = q[j] => i = j}})

\* What a faulty one may: an entry short, an index twice, an index too far.
FaultyAnswers(asked) ==
  {[i \in 1..(Len(asked) - 1) |-> [at |-> NoIndex, of |-> asked[i]]]} \cup
  (IF job.backend = "ollama" THEN {}
   ELSE {[i \in DOMAIN asked |-> [at |-> Len(asked), of |-> asked[i]]]} \cup
        (IF Len(asked) = 1 THEN {}
         ELSE {[i \in DOMAIN asked |-> [at |-> 0, of |-> asked[i]]]}))

----------------------------------------------------------------------------
(* The end of a request: withRetry gave an outcome.                         *)

NextRequest == /\ pc' = "ready" /\ attempt' = 1 /\ wait' = 0

Throw == /\ pc' = "threw" /\ wait' = 0
         /\ UNCHANGED <<mode, attempt, isolated, out, produced>>

\* The slots are complete: the dimension guard looks at the first vector.
Return(slots) ==
  LET vectors == {i \in DOMAIN slots : slots[i] # Hole}
  IN  /\ out' = slots
      /\ wait' = 0 /\ isolated' = <<>>
      /\ pc' = IF vectors # {} /\ ~job.sizedFor THEN "threw" ELSE "done"
      /\ UNCHANGED <<mode, attempt>>

\* The loop over the chunks goes on, or ends after the last.
Continue(slots) ==
  IF Len(slots) = Len(texts) THEN Return(slots)
  ELSE /\ NextRequest /\ mode' = "batch" /\ isolated' = <<>> /\ out' = slots

\* Nothing of the chunk could be embedded: an error if nothing was embedded
\* before it, otherwise holes for it and for every text after it.
DeadChunk ==
  IF ~produced THEN Throw
  ELSE /\ Return([i \in DOMAIN texts |->
                    IF i <= Len(out) THEN out[i] ELSE Hole])
       /\ UNCHANGED produced

\* isolateChunk: the slot of one text sent alone.
LoneSlot(slot) ==
  LET slots == Append(isolated, slot)
  IN  IF Len(slots) < Len(Chunk)
      THEN /\ NextRequest /\ isolated' = slots
           /\ UNCHANGED <<mode, out, produced>>
      ELSE IF \E i \in DOMAIN slots : slots[i] # Hole
           THEN Continue(out \o slots) /\ produced' = TRUE
           ELSE DeadChunk

\* The chunk's request failed: its texts are sent alone, unless it is one.
ChunkFailed ==
  IF Len(Chunk) = 1 THEN DeadChunk
  ELSE /\ NextRequest /\ mode' = "alone" /\ isolated' = <<>>
       /\ UNCHANGED <<out, produced>>

\* embedChunk rejected.  Only a malformed answer to a whole chunk is final.
Failed(isolatable) ==
  IF mode = "alone" THEN LoneSlot(Hole)
  ELSE IF isolatable THEN ChunkFailed ELSE Throw

\* embedChunk returned its vectors.
Embedded(vectors) ==
  IF mode = "alone" THEN LoneSlot(vectors[1])
  ELSE Continue(out \o vectors) /\ produced' = TRUE

----------------------------------------------------------------------------
(* withRetry: what one attempt came to.                                     *)

IsLast == attempt >= MaxAttempts

BackoffCeiling ==
  LET exp == BaseWait * 2^(IF attempt > 1 THEN attempt - 1 ELSE 0)
  IN  IF exp < MaxBackoff THEN exp ELSE MaxBackoff

JitteredBackoffs == {0} \cup 0..(BackoffCeiling - 1)

Capped(w) == IF w < MaxBackoff THEN w ELSE MaxBackoff

BackOff(w) == /\ pc' = "waiting" /\ wait' = w
              /\ UNCHANGED <<mode, attempt, isolated, out, produced>>

\* A refusal (429 or 5xx): the response is handed on from the last attempt.
RetryResult ==
  IF IsLast THEN Failed(TRUE)
  ELSE \/ \E w \in RetryAfters : BackOff(Capped(w))
       \/ \E w \in JitteredBackoffs : BackOff(w)

\* A network error, or the abort of a timeout.
RetryError ==
  IF IsLast THEN Failed(TRUE) ELSE \E w \in JitteredBackoffs : BackOff(w)

Timed == RequestTimeout > 0

Blip == faults' = [faults EXCEPT !.blips = IF @ < MaxAttempts THEN @ + 1 ELSE @]

----------------------------------------------------------------------------
Jobs ==
  [texts : UNION {[1..n -> {"plain", "long", "poison"}] : n \in 0..MaxTexts},
   batch : BatchSizes, backend : Backends, capOn : BOOLEAN, sizedFor : BOOLEAN]

Init ==
  /\ job \in Jobs
  /\ pc = IF texts = <<>> THEN "done" ELSE "ready"
  /\ mode = "batch" /\ attempt = 1 /\ wait = 0
  /\ out = <<>> /\ isolated = <<>> /\ produced = FALSE
  /\ faults = [blips |-> 0, wreck |-> FALSE]

\* fetchOnce: the request leaves, under its timer.
Send == /\ pc = "ready" /\ pc' = "flight"
        /\ UNCHANGED <<job, request, out, produced, faults>>

\* A response comes whose status is 200: its timer is cleared, the body is
\* still to be read.
Headers == /\ pc = "flight" /\ pc' = "reading"
           /\ \A i \in DOMAIN Asked : ~Unacceptable(Asked[i])
           /\ UNCHANGED <<job, request, out, produced, faults>>

\* Its body: the vectors of the texts.
Answer == /\ pc = "reading"
          /\ \E data \in HonestAnswers(Asked) :
               IF Malformed(data, Len(Asked)) THEN Failed(FALSE)
               ELSE Embedded(Restored(data))
          /\ UNCHANGED <<job, faults>>

\* The service rejects a request that holds a text it cannot embed.
Reject == /\ pc = "flight"
          /\ \E i \in DOMAIN Asked : Unacceptable(Asked[i])
          /\ Failed(TRUE)
          /\ UNCHANGED <<job, faults>>

\* The service fails for good on texts it could embed: a 4xx, a body that is
\* not JSON, or one that does not fit the request.
Break == /\ pc \in {"flight", "reading"} /\ ~faults.wreck
         /\ faults' = [faults EXCEPT !.wreck = TRUE]
         /\ \A i \in DOMAIN Asked : ~Unacceptable(Asked[i])
         /\ \/ Failed(TRUE)
            \/ /\ pc = "reading"
               /\ \E data \in FaultyAnswers(Asked) :
                    IF Malformed(data, Len(Asked)) THEN Failed(FALSE)
                    ELSE Embedded(Restored(data))
         /\ UNCHANGED job

\* The service is busy, restarting or unreachable.
Refuse == /\ pc = "flight" /\ Blip
          /\ RetryResult \/ RetryError
          /\ UNCHANGED job

\* The service never answers.  The timer of the attempt aborts it.
TimeOut == /\ pc = "flight" /\ Timed /\ Blip
           /\ RetryError
           /\ UNCHANGED job

Wake == /\ pc = "waiting" /\ pc' = "ready"
        /\ attempt' = attempt + 1 /\ wait' = 0
        /\ UNCHANGED <<job, mode, isolated, out, produced, faults>>

Next == Send \/ Headers \/ Answer \/ Reject \/ Break \/ Refuse \/ TimeOut \/ Wake

Spec == Init /\ [][Next]_vars

----------------------------------------------------------------------------
\* A slot holds the vector of the text at its own place or nothing, through
\* chunks, retries, texts sent alone and answers out of order, and a call
\* that returns has a slot for every text: the caller pairs them by place.
SlotsAligned ==
  /\ \A i \in DOMAIN out : out[i] \in {Hole, i}
  /\ \A i \in DOMAIN isolated : isolated[i] \in {Hole, Chunk[i]}
  /\ pc = "done" => Len(out) = Len(texts)

\* A text the service can embed comes back embedded, whatever its neighbours
\* are, as long as the service does not break and has fewer transient faults
\* than a request has attempts.  The exception is the code's own: a chunk of
\* which no text can be embedded is taken for an outage, and every text after
\* it is given up.
ChunkOf(t)  == (t - 1) \div ChunkSize
DeadOnes    == {k \in {ChunkOf(t) : t \in DOMAIN texts} :
                  \A t \in DOMAIN texts : ChunkOf(t) = k => Unacceptable(t)}
SiblingsKept ==
  (pc \in {"done", "threw"} /\ ~faults.wreck /\ faults.blips < MaxAttempts) =>
    \A t \in DOMAIN texts :
      \/ Unacceptable(t)
      \/ \E k \in DeadOnes : k < ChunkOf(t)
      \/ IF pc = "done" THEN out[t] = t ELSE ~job.sizedFor

----------------------------------------------------------------------------
(* The inductive invariant of both.                                         *)

Running == pc \in {"ready", "flight", "reading", "waiting"}

\* The service did not break, and had fewer transient faults than attempts.
Clean == ~faults.wreck /\ faults.blips < MaxAttempts

EmbedTyped ==
  /\ job \in Jobs /\ pc \in {"ready", "flight", "reading", "waiting", "done", "threw"}
  /\ mode \in {"batch", "alone"} /\ attempt \in Nat
  /\ out \in Seq(Nat) /\ isolated \in Seq(Nat)
  /\ faults \in [blips : Nat, wreck : BOOLEAN]

\* While the call runs, whole chunks are filled, a request has used no more attempts than
\* there were faults, and a slot without its vector is of a text the service cannot embed.
RequestOK ==
  Running =>
    /\ Len(out) < Len(texts)
    /\ \E k \in 0..Len(out) : Len(out) = k * ChunkSize
    /\ IF mode = "batch" THEN isolated = <<>> ELSE Len(isolated) < Len(Chunk)
    /\ produced \/ out = <<>>
    /\ Clean =>
          /\ attempt <= faults.blips + (IF pc = "waiting" THEN 0 ELSE 1)
          /\ \A i \in DOMAIN out : out[i] = i \/ Unacceptable(i)
          /\ \A i \in DOMAIN isolated : isolated[i] = Chunk[i] \/ Unacceptable(Chunk[i])

EmbedInv == EmbedTyped /\ SlotsAligned /\ SiblingsKept /\ RequestOK
=============================================================================
