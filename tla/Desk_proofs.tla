---------------------------- MODULE Desk_proofs ----------------------------
(***************************************************************************)
(* Parts of the composition, for any values of its constants.  The parts   *)
(* share the variables v1, v2, ...; what they stand for is said where the  *)
(* proof about a part begins.                                              *)
(***************************************************************************)
EXTENDS Desk, FiniteSets, Sequences, WellFoundedInduction, FiniteSetTheorems,
        TLAPS

(***************************************************************************)
(* The digest (Push!).  v1: the jobs, v2: whether it is a dry run, v3: the *)
(* machine, v4: the message in flight, v5: the files, v6: the              *)
(* notifications shown, v7: how often each message arrived, v8: the jobs   *)
(* one of whose posts had no readable answer, v9: the results.             *)
(***************************************************************************)

LEMMA DigestStarts == Push!Init => Push!DigestInv
<1> SUFFICES ASSUME Push!Init PROVE Push!DigestInv
  OBVIOUS
<1>1. PICK l \in JobLists : \E name \in {Push!Unnamed} \union {l[i].name : i \in DOMAIN l} :
         v1 \in Push!Selected(l, name)
  BY DEF Push!Init
<1>2. PICK n \in 0..Len(l) : \E f \in [1..n -> DOMAIN l] : v1 = [k \in DOMAIN f |-> l[f[k]]]
  BY <1>1 DEF Push!Selected
<1>f. PICK f \in [1..n -> DOMAIN l] : v1 = [k \in DOMAIN f |-> l[f[k]]]
  BY <1>2
<1> DEFINE Job == [name : STRING, channel : Push!Channels, filename : STRING]
<1>l. l \in Seq(Job) /\ MaxTokens \in Nat
  BY DeskAssumption DEF Push!DigestConstants
<1>j. \A j \in Job : j.channel \in Push!Channels
  OBVIOUS
<1> HIDE DEF Job
<1>3. n \in Nat /\ DOMAIN v1 = 1..n
  BY <1>f, <1>l
<1>4. \A k \in DOMAIN v1 : v1[k].filename \in Push!Filenames /\ v1[k].channel \in Push!Channels
  <2> TAKE k \in DOMAIN v1
  <2>1. f[k] \in DOMAIN l /\ v1[k] = l[f[k]]
    BY <1>f, <1>3
  <2>2. l[f[k]] \in Job
    BY <2>1, <1>l
  <2> QED BY <2>1, <2>2, <1>j DEF Push!Filenames
<1>5. Push!RunOK
  <2>1. v3.tokens \in Nat
    BY <1>l DEF Push!Init
  <2>2. v5 \in [Push!Filenames -> Nat] /\ v7 \in [DOMAIN v1 -> Nat]
    BY DEF Push!Init, Push!None
  <2>3. v9 \in Seq(Push!Result)
    BY DEF Push!Init
  <2> QED BY <1>3, <1>4, <2>1, <2>2, <2>3 DEF Push!RunOK
<1>6. Push!InFlight
  BY DEF Push!Init, Push!InFlight
<1>7. Push!ResultsHonest
  BY <1>5 DEF Push!RunOK, Push!Init, Push!ResultsHonest, Push!Answered, Push!None
<1>8. Push!OneMessage
  BY <1>5 DEF Push!Init, Push!OneMessage, Push!RunOK
<1> QED  BY <1>5, <1>6, <1>7, <1>8 DEF Push!DigestInv

\* The step that ends the current job with this outcome.
Ends(status) == \E code \in Push!Codes : Push!Finish(status, code)

Advanced(status) ==
  /\ v9' \in Seq(Push!Result)
  /\ Len(v9) \in Nat /\ Len(v9') = Len(v9) + 1
  /\ \A n \in 1 .. Len(v9) : v9'[n] = v9[n]
  /\ v9'[Len(v9) + 1].status = status

\* A job that ends adds one result and lets go of the message.
LEMMA Ended ==
  ASSUME Push!DigestInv, NEW status \in {"delivered", "failed", "skipped"}, Ends(status)
  PROVE  Advanced(status)
<1>1. PICK code \in Push!Codes : v9' = Append(v9, [status |-> status, code |-> code])
  BY DEF Ends, Push!Finish
<1>2. v9 \in Seq(Push!Result)
  BY DEF Push!DigestInv, Push!RunOK
<1> DEFINE r == [status |-> status, code |-> code]
<1>3. r \in Push!Result /\ r.status = status
  BY DEF Push!Result
<1>4. v9' = Append(v9, r)
  BY <1>1
<1> HIDE DEF r
<1>5. /\ v9' \in Seq(Push!Result)
      /\ Len(v9) \in Nat /\ Len(v9') = Len(v9) + 1
      /\ \A n \in 1 .. Len(v9) : v9'[n] = v9[n]
      /\ v9'[Len(v9) + 1] = r
  BY <1>2, <1>3, <1>4
<1> QED  BY <1>3, <1>5 DEF Advanced

LEMMA SkipKeeps == Push!DigestInv /\ Push!Skip => Push!DigestInv'
<1> SUFFICES ASSUME Push!DigestInv, Push!Skip PROVE Push!DigestInv'
  OBVIOUS
<1>1. Ends("skipped")
  <2>1. Push!Finish("skipped", "") /\ "" \in Push!Codes
    BY DEF Push!Skip, Push!Codes
  <2> QED BY <2>1 DEF Ends
<1>2. Advanced("skipped")
  BY <1>1, Ended
<1>3. /\ v2 /\ Push!Current \in DOMAIN v1
      /\ UNCHANGED <<v1, v2, v3, v4, v5, v6, v7, v8>>
  BY DEF Push!Skip
<1>4. v4 = Push!Idle
  BY <1>3 DEF Push!DigestInv, Push!InFlight
<1>5. Push!RunOK'
  BY <1>2, <1>3 DEF Advanced, Push!DigestInv, Push!RunOK
<1>6. Push!InFlight'
  BY <1>2, <1>3, <1>4 DEF Advanced, Push!DigestInv, Push!InFlight, Push!RunOK, Push!Current
<1>7. Push!ResultsHonest'
  <2>1. \A n \in DOMAIN v1 : Push!Answered(n, "delivered")' => Push!Answered(n, "delivered")
    BY <1>2, <1>3 DEF Advanced, Push!Answered, Push!DigestInv, Push!RunOK, Push!Current
  <2>2. \A n \in DOMAIN v1 : v7[n] = 0
    BY <1>3 DEF Push!DigestInv, Push!ResultsHonest
  <2>3. 1 .. Len(v9) \subseteq 1 .. Len(v9')
    BY <1>2 DEF Advanced
  <2> QED BY <1>2, <1>3, <2>1, <2>2, <2>3 DEF Advanced, Push!DigestInv, Push!ResultsHonest, Push!RunOK
<1>8. Push!OneMessage'
  BY <1>3 DEF Push!DigestInv, Push!OneMessage
<1> QED  BY <1>5, <1>6, <1>7, <1>8 DEF Push!DigestInv

\* What a step that ends the current job leaves to be shown.
Outcome(status) ==
  /\ Push!Current \in DOMAIN v1 /\ ~v2
  /\ UNCHANGED <<v1, v2, v3>> /\ v4' = Push!Idle
  /\ v5' \in [Push!Filenames -> Nat] /\ v7' \in [DOMAIN v1 -> Nat]
  /\ v6 \subseteq v6' /\ v8 \subseteq v8'
  /\ \A f \in Push!Filenames : v5'[f] = v5[f] \/ f = v1[Push!Current].filename
  /\ \A n \in DOMAIN v1 : n # Push!Current => v7'[n] = v7[n]
  /\ status = "delivered" =>
       /\ v1[Push!Current].channel = "slack-dm" => v7'[Push!Current] > 0
       /\ v1[Push!Current].channel = "os-notification" => Push!Current \in v6' \union v8'
       /\ v1[Push!Current].channel = "file" => v5'[v1[Push!Current].filename] = Push!Current
  /\ status = "failed" /\ v7'[Push!Current] > 0 => Push!Current \in v8'
  /\ v7'[Push!Current] <= 1 + (IF Push!Current \in v8' /\ v3.tokens > 1 THEN 1 ELSE 0)

\* A job that ends with an outcome it can account for keeps the invariant.
LEMMA EndKeeps ==
  ASSUME Push!DigestInv, NEW status \in {"delivered", "failed"}, Ends(status), Outcome(status)
  PROVE  Push!DigestInv'
<1>1. Advanced(status)
  BY Ended
<1>2. Push!RunOK'
  BY <1>1 DEF Advanced, Outcome, Push!DigestInv, Push!RunOK
<1>3. Push!InFlight'
  <2>1. v4' = Push!Idle
    BY DEF Outcome
  <2>2. ASSUME NEW n \in DOMAIN v1, n >= Push!Current + 1
        PROVE  v7'[n] = 0
    <3>1. n > Push!Current /\ v7'[n] = v7[n]
      BY <2>2, <1>1 DEF Outcome, Advanced, Push!Current, Push!DigestInv, Push!RunOK
    <3> QED BY <3>1 DEF Push!DigestInv, Push!InFlight
  <2>3. Push!Current' = Push!Current + 1 /\ Push!Current \in Nat /\ DOMAIN v1' = DOMAIN v1
    BY <1>1 DEF Advanced, Push!Current, Outcome
  <2>4. \A n \in DOMAIN v1 : n \in Nat
    BY DEF Push!DigestInv, Push!RunOK
  <2> QED BY <2>1, <2>2, <2>3, <2>4 DEF Push!InFlight
<1>4. Push!ResultsHonest'
  <2>1. ~(v2 \/ v1 = <<>>)'
    BY DEF Outcome
  <2>2. SUFFICES ASSUME NEW n \in DOMAIN v1
                 PROVE  /\ Push!Answered(n, "delivered")' =>
                             /\ v1[n].channel = "slack-dm" => v7'[n] > 0
                             /\ v1[n].channel = "os-notification" => n \in v6' \union v8'
                             /\ v1[n].channel = "file" =>
                                  \/ v5'[v1[n].filename] = n
                                  \/ \E m \in (n + 1)..Len(v9') :
                                       v1[m].filename = v1[n].filename
                        /\ Push!Answered(n, "failed")' /\ v7'[n] > 0 => n \in v8'
    BY <2>1 DEF Outcome, Push!ResultsHonest
  <2>3. n \in Nat \ {0}
    BY DEF Push!DigestInv, Push!RunOK
  <2>4. CASE n = Push!Current
    BY <1>1, <2>4 DEF Advanced, Outcome, Push!Answered, Push!Current
  <2>5. CASE n # Push!Current
    <3>1. \A s \in {"delivered", "failed"} : Push!Answered(n, s)' => n <= Len(v9) /\ Push!Answered(n, s)
      BY <1>1, <2>3, <2>5 DEF Advanced, Push!Answered, Push!Current
    <3>2. v7'[n] = v7[n] /\ v6 \subseteq v6' /\ v8 \subseteq v8'
      BY <2>5 DEF Outcome
    <3>3. ASSUME Push!Answered(n, "delivered"), v1[n].channel = "file", n <= Len(v9)
          PROVE  \/ v5'[v1[n].filename] = n
                 \/ \E m \in (n + 1)..Len(v9') : v1[m].filename = v1[n].filename
      <4>1. CASE v1[n].filename = v1[Push!Current].filename
        <5>1. Push!Current \in (n + 1)..Len(v9')
          BY <1>1, <2>3, <3>3 DEF Advanced, Push!Current
        <5> QED BY <4>1, <5>1
      <4>2. CASE v1[n].filename # v1[Push!Current].filename
        <5>1. v5'[v1[n].filename] = v5[v1[n].filename]
          BY <4>2 DEF Outcome, Push!DigestInv, Push!RunOK
        <5>2. (n + 1)..Len(v9) \subseteq (n + 1)..Len(v9')
          BY <1>1, <2>3 DEF Advanced
        <5> QED BY <3>3, <5>1, <5>2 DEF Push!DigestInv, Push!ResultsHonest
      <4> QED BY <4>1, <4>2
    <3> QED BY <3>1, <3>2, <3>3 DEF Push!DigestInv, Push!ResultsHonest
  <2> QED BY <2>4, <2>5
<1>5. Push!OneMessage'
  <2> SUFFICES ASSUME NEW n \in DOMAIN v1
               PROVE  v7'[n] <= 1 + (IF n \in v8' /\ v3.tokens > 1 THEN 1 ELSE 0)
    BY DEF Outcome, Push!OneMessage
  <2>1. CASE n = Push!Current
    BY <2>1 DEF Outcome
  <2>2. CASE n # Push!Current
    <3>1. v7[n] \in Nat /\ v7'[n] = v7[n] /\ (n \in v8 => n \in v8')
      BY <2>2 DEF Outcome, Push!DigestInv, Push!RunOK
    <3> QED BY <3>1 DEF Push!DigestInv, Push!OneMessage
  <2> QED BY <2>1, <2>2
<1> QED  BY <1>2, <1>3, <1>4, <1>5 DEF Push!DigestInv

\* What a step leaves to be shown after which the message is still in flight.
Sending ==
  /\ Push!Current \in DOMAIN v1 /\ v1[Push!Current].channel = "slack-dm" /\ ~v2
  /\ UNCHANGED <<v1, v2, v3, v5, v6, v9>>
  /\ v4' \in [at : {"open", "post"}, token : 1..2, attempt : Nat]
  /\ v7' \in [DOMAIN v1 -> Nat] /\ v8 \subseteq v8'
  /\ \A n \in DOMAIN v1 : n # Push!Current => v7'[n] = v7[n]
  /\ v7'[Push!Current] < v4'.token /\ (v7'[Push!Current] > 0 => Push!Current \in v8')
  /\ v4'.token > 1 => v3.tokens > 1

\* A call to Slack leaves, or its answer comes.
LEMMA SendingKeeps == Push!DigestInv /\ Sending => Push!DigestInv'
<1> SUFFICES ASSUME Push!DigestInv, Sending PROVE Push!DigestInv'
  OBVIOUS
<1>1. Push!RunOK'
  BY DEF Sending, Push!DigestInv, Push!RunOK
<1>2. Push!InFlight'
  BY DEF Sending, Push!DigestInv, Push!InFlight, Push!RunOK, Push!Current, Push!Idle
<1>3. Push!ResultsHonest'
  <2>1. \A n \in DOMAIN v1 : n <= Len(v9) => v7'[n] = v7[n]
    BY DEF Sending, Push!Current, Push!DigestInv, Push!RunOK
  <2> QED BY <2>1 DEF Sending, Push!DigestInv, Push!ResultsHonest, Push!Answered
<1>4. Push!OneMessage'
  <2> SUFFICES ASSUME NEW n \in DOMAIN v1
               PROVE  v7'[n] <= 1 + (IF n \in v8' /\ v3.tokens > 1 THEN 1 ELSE 0)
    BY DEF Sending, Push!OneMessage
  <2>1. CASE n = Push!Current
    <3>1. v7'[n] \in Nat /\ v4'.token \in 1..2 /\ v7'[n] < v4'.token
      BY <2>1 DEF Sending
    <3> QED BY <3>1
  <2>2. CASE n # Push!Current
    <3>1. v7[n] \in Nat /\ v7'[n] = v7[n] /\ (n \in v8 => n \in v8')
      BY <2>2 DEF Sending, Push!DigestInv, Push!RunOK
    <3> QED BY <3>1 DEF Push!DigestInv, Push!OneMessage
  <2> QED BY <2>1, <2>2
<1> QED  BY <1>1, <1>2, <1>3, <1>4 DEF Push!DigestInv

LEMMA FileKeeps == Push!DigestInv /\ Push!deliverToFile => Push!DigestInv'
<1> SUFFICES ASSUME Push!DigestInv, Push!deliverToFile PROVE Push!DigestInv'
  OBVIOUS
<1> DEFINE f == v1[Push!Current].filename
<1>1. Push!At("file") /\ UNCHANGED <<v1, v2, v3, v4, v6, v7, v8>>
  BY DEF Push!deliverToFile
<1>2. PICK status \in {"delivered", "failed"}, x \in {Push!None, Push!Current} :
        /\ Ends(status)
        /\ v5' = v5 \/ v5' = [v5 EXCEPT ![f] = x]
        /\ status = "delivered" => v5' = [v5 EXCEPT ![f] = Push!Current]
  <2>1. CASE Push!Delivered /\ v5' = [v5 EXCEPT ![f] = Push!Current]
    BY <2>1 DEF Push!Delivered, Ends, Push!Codes
  <2>2. CASE Push!Failed("INVALID_FILENAME") /\ UNCHANGED v5
    BY <2>2 DEF Push!Failed, Ends, Push!Codes
  <2>3. CASE Push!Failed("EXPORT_DIR_IN_LOCAL_ROOT") /\ UNCHANGED v5
    BY <2>3 DEF Push!Failed, Ends, Push!Codes
  <2>4. CASE Push!Failed("UNKNOWN") /\ v5' \in {v5, [v5 EXCEPT ![f] = Push!None]}
    BY <2>4 DEF Push!Failed, Ends, Push!Codes
  <2> QED BY <2>1, <2>2, <2>3, <2>4 DEF Push!deliverToFile
<1>3. /\ Push!Current \in DOMAIN v1 /\ v4 = Push!Idle /\ ~v2 /\ v1[Push!Current].channel = "file"
      /\ Push!Current \in Nat /\ f \in Push!Filenames
  BY <1>1 DEF Push!At, Push!DigestInv, Push!RunOK
<1>4. v7[Push!Current] = 0
  BY <1>3 DEF Push!DigestInv, Push!InFlight
<1>5. v5' \in [Push!Filenames -> Nat] /\ \A g \in Push!Filenames : v5'[g] = v5[g] \/ g = f
  BY <1>2, <1>3 DEF Push!DigestInv, Push!RunOK, Push!None
<1>6. status = "delivered" => v5'[f] = Push!Current
  BY <1>2, <1>3 DEF Push!DigestInv, Push!RunOK
<1>7. Outcome(status)
  BY <1>1, <1>3, <1>4, <1>5, <1>6 DEF Outcome, Push!DigestInv, Push!RunOK
<1> QED BY <1>2, <1>7, EndKeeps

LEMMA NotifierKeeps == Push!DigestInv /\ Push!deliverToOsNotification => Push!DigestInv'
<1> SUFFICES ASSUME Push!DigestInv, Push!deliverToOsNotification PROVE Push!DigestInv'
  OBVIOUS
<1>1. Push!At("os-notification") /\ UNCHANGED <<v1, v2, v3, v4, v5, v7>>
  BY DEF Push!deliverToOsNotification
<1>2. PICK status \in {"delivered", "failed"} :
        /\ Ends(status) /\ v6 \subseteq v6' /\ v8 \subseteq v8'
        /\ status = "delivered" => Push!Current \in v6' \union v8'
  <2>1. CASE Push!Delivered /\ v6' = v6 \union {Push!Current} /\ UNCHANGED v8
    BY <2>1 DEF Push!Delivered, Ends, Push!Codes
  <2>2. CASE Push!Failed("OS_NOTIFICATION_UNSUPPORTED") /\ UNCHANGED <<v6, v8>>
    BY <2>2 DEF Push!Failed, Ends, Push!Codes
  <2>3. CASE Push!Failed("OS_NOTIFICATION_FAILED") /\ UNCHANGED <<v6, v8>>
    BY <2>3 DEF Push!Failed, Ends, Push!Codes
  <2>4. CASE Push!Signalled
    <3>1. v6 \subseteq v6' /\ v8 \subseteq v8' /\ Push!Current \in v8'
      BY <2>4 DEF Push!Signalled
    <3> QED BY <2>4, <3>1 DEF Push!Signalled, Push!Delivered, Ends, Push!Codes
  <2> QED
    BY <2>1, <2>2, <2>3, <2>4 DEF Push!deliverToOsNotification, Push!Exited
<1>3. /\ Push!Current \in DOMAIN v1 /\ v4 = Push!Idle /\ ~v2
      /\ v1[Push!Current].channel = "os-notification"
  BY <1>1 DEF Push!At
<1>4. v7[Push!Current] = 0
  BY <1>3 DEF Push!DigestInv, Push!InFlight
<1>5. Outcome(status)
  BY <1>1, <1>2, <1>3, <1>4 DEF Outcome, Push!DigestInv, Push!RunOK
<1> QED BY <1>2, <1>5, EndKeeps

LEMMA StartDmKeeps == Push!DigestInv /\ Push!StartDm => Push!DigestInv'
<1> SUFFICES ASSUME Push!DigestInv, Push!StartDm PROVE Push!DigestInv'
  OBVIOUS
<1>1. /\ Push!Current \in DOMAIN v1 /\ v4 = Push!Idle /\ ~v2 /\ v1[Push!Current].channel = "slack-dm"
      /\ UNCHANGED <<v1, v2, v3, v5, v6, v7, v8>>
  BY DEF Push!StartDm, Push!At
<1>2. v7[Push!Current] = 0
  BY <1>1 DEF Push!DigestInv, Push!InFlight
<1>3. CASE UNCHANGED v4 /\ Ends("failed")
  <2>1. Outcome("failed")
    BY <1>1, <1>2, <1>3 DEF Outcome, Push!DigestInv, Push!RunOK
  <2> QED BY <1>3, <2>1, EndKeeps
<1>4. CASE v4' = [at |-> "open", token |-> 1, attempt |-> 1] /\ UNCHANGED v9
  <2>1. Sending
    BY <1>1, <1>2, <1>4 DEF Sending, Push!DigestInv, Push!RunOK
  <2> QED BY <2>1, SendingKeeps
<1>5. \A code \in Push!Codes : Push!Failed(code) => Ends("failed")
  BY DEF Push!Failed, Ends
<1> QED BY <1>3, <1>4, <1>5 DEF Push!StartDm, Push!Codes

\* What a call in flight knows of the current job.
LEMMA Flying ==
  ASSUME Push!DigestInv, v4.at \in {"open", "post"}
  PROVE  /\ v4 \in [at : {"open", "post"}, token : 1..2, attempt : Nat]
         /\ Push!Current \in DOMAIN v1 /\ v1[Push!Current].channel = "slack-dm" /\ ~v2
         /\ v7[Push!Current] \in Nat /\ v7[Push!Current] < v4.token
         /\ (v7[Push!Current] > 0 => Push!Current \in v8)
         /\ v4.token > 1 => v3.tokens > 1
BY DEF Push!DigestInv, Push!InFlight, Push!RunOK, Push!Idle

\* A call that comes to nothing: sent again, with another token, or given up.
LEMMA CallKeeps ==
  ASSUME Push!DigestInv, v4.at \in {"open", "post"},
         UNCHANGED <<v1, v2, v3, v5, v6>>,
         \/ UNCHANGED <<v7, v8>> /\ (Push!Limited \/ Push!Refused \/ Push!Thrown)
         \/ Push!PostLost
  PROVE  Push!DigestInv'
<1> USE Flying
<1>1. /\ v7' \in [DOMAIN v1 -> Nat]
      /\ v7'[Push!Current] \in {v7[Push!Current], v7[Push!Current] + 1}
      /\ v7'[Push!Current] # v7[Push!Current] => Push!PostLost
      /\ Push!PostLost => Push!Current \in v8'
      /\ \A n \in DOMAIN v1 : n # Push!Current => v7'[n] = v7[n]
      /\ v8 \subseteq v8'
  <2>1. v7 \in [DOMAIN v1 -> Nat]
    BY DEF Push!DigestInv, Push!RunOK
  <2> QED BY <2>1 DEF Push!PostLost, Push!Arrives, Push!Unsure
<1>2. CASE Push!Thrown \/ (v4' = Push!Idle /\ Push!Failed("SLACK_API_ERROR"))
  <2>1. v4' = Push!Idle /\ Ends("failed")
    BY <1>2 DEF Push!Thrown, Push!Failed, Ends, Push!Codes
  <2>2. v5 \in [Push!Filenames -> Nat]
    BY DEF Push!DigestInv, Push!RunOK
  <2>3. v7'[Push!Current] > 0 => Push!Current \in v8'
    BY <1>1
  <2>4. v7'[Push!Current] <= 1 + (IF Push!Current \in v8' /\ v3.tokens > 1 THEN 1 ELSE 0)
    <3>1. v4.token \in {1, 2}
      OBVIOUS
    <3> QED BY <1>1, <3>1
  <2>5. Outcome("failed")
    BY <1>1, <2>1, <2>2, <2>3, <2>4 DEF Outcome
  <2> QED BY <2>1, <2>5, EndKeeps
<1>3. CASE v4.token = 1 /\ v3.tokens > 1 /\ UNCHANGED v9
           /\ v4' = [at |-> "open", token |-> 2, attempt |-> 1]
  <2>1. v7'[Push!Current] < 2
    BY <1>1, <1>3
  <2>2. Sending
    BY <1>1, <1>3, <2>1 DEF Sending
  <2> QED BY <2>2, SendingKeeps
<1>4. CASE v4' = [v4 EXCEPT !.attempt = @ + 1] /\ UNCHANGED <<v7, v8, v9>>
  <2>1. v4' \in [at : {"open", "post"}, token : 1..2, attempt : Nat] /\ v4'.token = v4.token
    BY <1>4
  <2>2. Sending
    BY <1>1, <1>4, <2>1 DEF Sending
  <2> QED BY <2>2, SendingKeeps
<1>5. Push!Refused \/ Push!Thrown \/ (UNCHANGED <<v7, v8>> /\ Push!Limited)
  BY DEF Push!PostLost
<1>6. Push!Refused =>
        \/ /\ v4.token = 1 /\ v3.tokens > 1 /\ UNCHANGED v9
           /\ v4' = [at |-> "open", token |-> 2, attempt |-> 1]
        \/ v4' = Push!Idle /\ Push!Failed("SLACK_API_ERROR")
  BY DEF Push!Refused
<1>7. UNCHANGED <<v7, v8>> /\ Push!Limited =>
        \/ Push!Refused
        \/ v4' = [v4 EXCEPT !.attempt = @ + 1] /\ UNCHANGED <<v7, v8, v9>>
  BY DEF Push!Limited
<1>8. CASE Push!Thrown
  BY <1>2, <1>8
<1>9. CASE Push!Refused
  BY <1>2, <1>3, <1>6, <1>9
<1>10. CASE UNCHANGED <<v7, v8>> /\ Push!Limited
  BY <1>4, <1>7, <1>9, <1>10
<1> QED BY <1>5, <1>8, <1>9, <1>10

LEMMA OpenKeeps == Push!DigestInv /\ Push!Open => Push!DigestInv'
<1> SUFFICES ASSUME Push!DigestInv, Push!Open PROVE Push!DigestInv'
  OBVIOUS
<1>1. v4.at \in {"open", "post"} /\ UNCHANGED <<v1, v2, v3, v5, v6, v7, v8>>
  BY DEF Push!Open
<1>2. CASE v4' = [v4 EXCEPT !.at = "post", !.attempt = 1] /\ UNCHANGED v9
  <2>1. v4' \in [at : {"open", "post"}, token : 1..2, attempt : Nat] /\ v4'.token = v4.token
    BY <1>1, <1>2, Flying
  <2>2. Sending
    BY <1>1, <1>2, <2>1, Flying DEF Sending, Push!DigestInv, Push!RunOK
  <2> QED BY <2>2, SendingKeeps
<1>3. CASE Push!Limited \/ Push!Refused \/ Push!Thrown
  BY <1>1, <1>3, CallKeeps
<1> QED BY <1>2, <1>3 DEF Push!Open

LEMMA PostKeeps == Push!DigestInv /\ Push!Post => Push!DigestInv'
<1> SUFFICES ASSUME Push!DigestInv, Push!Post PROVE Push!DigestInv'
  OBVIOUS
<1>1. v4.at \in {"open", "post"} /\ UNCHANGED <<v1, v2, v3, v5, v6>>
  BY DEF Push!Post
<1>2. CASE Push!Arrives /\ v4' = Push!Idle /\ Push!Delivered /\ UNCHANGED v8
  <2>1. Ends("delivered")
    BY <1>2 DEF Push!Delivered, Ends, Push!Codes
  <2>2. v7 \in [DOMAIN v1 -> Nat] /\ v5 \in [Push!Filenames -> Nat]
    BY DEF Push!DigestInv, Push!RunOK
  <2>3. /\ v7' \in [DOMAIN v1 -> Nat] /\ v7'[Push!Current] = v7[Push!Current] + 1
        /\ \A n \in DOMAIN v1 : n # Push!Current => v7'[n] = v7[n]
    BY <1>1, <1>2, <2>2, Flying DEF Push!Arrives
  <2>4. v7'[Push!Current] <= 1 + (IF Push!Current \in v8' /\ v3.tokens > 1 THEN 1 ELSE 0)
    <3>1. v4.token \in {1, 2}
      BY <1>1, Flying
    <3> QED BY <1>1, <1>2, <2>3, <3>1, Flying
  <2>5. Outcome("delivered")
    BY <1>1, <1>2, <2>2, <2>3, <2>4, Flying DEF Outcome
  <2> QED BY <2>1, <2>5, EndKeeps
<1>3. CASE (Push!Limited \/ Push!Refused) /\ UNCHANGED <<v7, v8>>
  BY <1>1, <1>3, CallKeeps
<1>4. CASE Push!PostLost
  BY <1>1, <1>4, CallKeeps
<1> QED BY <1>2, <1>3, <1>4 DEF Push!Post

\* Every step of a digest keeps its invariant.
LEMMA DigestStep == Push!DigestInv /\ Push!Next => Push!DigestInv'
BY SkipKeeps, FileKeeps, NotifierKeeps, StartDmKeeps, OpenKeeps, PostKeeps DEF Push!Next

LEMMA DigestStutters == Push!DigestInv /\ UNCHANGED Push!vars => Push!DigestInv'
<1> SUFFICES ASSUME Push!DigestInv, UNCHANGED Push!vars PROVE Push!DigestInv'
  OBVIOUS
<1>1. Push!RunOK'
  BY DEF Push!vars, Push!DigestInv, Push!RunOK
<1>2. Push!InFlight'
  BY DEF Push!vars, Push!DigestInv, Push!InFlight, Push!Current
<1>3. Push!ResultsHonest'
  BY DEF Push!vars, Push!DigestInv, Push!ResultsHonest, Push!Answered
<1>4. Push!OneMessage'
  BY DEF Push!vars, Push!DigestInv, Push!OneMessage
<1> QED BY <1>1, <1>2, <1>3, <1>4 DEF Push!DigestInv

(***************************************************************************)
(* The write tools (Tool!).  v1: whether the client can ask the human, v2: *)
(* the session, v3: the tool of each call, v4: what came of its            *)
(* confirmation, v5: where it is, v6: what is recorded, v7: what was sent, *)
(* v8: who wrote each file.                                                *)
(***************************************************************************)

CallRecord == [at : Tool!Stages, todo : SUBSET Task, on : Task \union Suffix \union {0}]

LEMMA ToolsStarts == Tool!Init => Tool!ToolsInv
<1> SUFFICES ASSUME Tool!Init PROVE Tool!ToolsInv
  OBVIOUS
<1>1. \A c \in Tool!Call : v5[c].at = "idle" /\ v3[c] = "none" /\ v4[c] = "unasked"
  BY DEF Tool!Init
<1>2. /\ v3 \in [Tool!Call -> Tool!AllTools \union {"none"}]
      /\ v4 \in [Tool!Call -> {"unasked", "lost", "hung up"} \union Tool!Answers]
      /\ v5 \in [Tool!Call -> CallRecord]
      /\ v8 \in [Suffix -> SUBSET (0 .. Tool!Late)]
  BY DEF Tool!Init, CallRecord, Tool!Stages
<1>3. \A c \in Tool!Call : Tool!CallOK(c) /\ Tool!DraftOK(c)
  BY <1>1 DEF Tool!Init, Tool!CallOK, Tool!DraftOK, Tool!Effects
<1>4. Tool!Exclusive
  BY <1>1 DEF Tool!Init, Tool!Exclusive
<1> QED BY <1>1, <1>2, <1>3, <1>4 DEF Tool!ToolsInv, CallRecord

\* The invariant of the write tools has both of their properties in it.
LEMMA ToolsHonest == Tool!ToolsInv => Tool!ConsentKept /\ Tool!DraftsKept
<1> SUFFICES ASSUME Tool!ToolsInv PROVE Tool!ConsentKept /\ Tool!DraftsKept
  OBVIOUS
<1>1. Tool!ConsentKept
  BY DEF Tool!ToolsInv, Tool!CallOK, Tool!Consented, Tool!ConsentKept
<1>2. Tool!DraftsKept
  <2>1. ASSUME NEW n \in Suffix
        PROVE  /\ \A c, d \in v8[n] \intersect Tool!Call : c = d
               /\ Tool!Other \in v8[n] => v8[n] \intersect Tool!Call = {}
               /\ \A c \in v8[n] \intersect Tool!Call :
                    <<c, n>> \in v6 \/ v2 # "open" \/ v5[c].at = "written"
               /\ \A c \in Tool!Call : v3[c] \in Tool!Drafts /\ <<c, n>> \in v6 =>
                    c \in v8[n] \intersect Tool!Call
    BY DEF Tool!ToolsInv, Tool!Exclusive, Tool!DraftOK
  <2> QED BY <2>1 DEF Tool!DraftsKept
<1> QED BY <1>1, <1>2

\* A step of one call that leaves the files alone.
OnlyCall(c) ==
  /\ UNCHANGED <<v1, v2, v8>>
  /\ \A d \in Tool!Call : d # c => v5'[d] = v5[d] /\ v3'[d] = v3[d] /\ v4'[d] = v4[d]
  /\ v6 \subseteq v6' /\ v7 \subseteq v7'
  /\ \A e \in v6' : e \in v6 \/ e[1] = c
  /\ \A e \in v7' : e \in v7 \/ e[1] = c

\* What one call does leaves every other call as it was.
LEMMA OthersKept ==
  ASSUME Tool!ToolsInv, NEW c \in Tool!Call, OnlyCall(c), NEW d \in Tool!Call, d # c
  PROVE  Tool!CallOK(d)' /\ Tool!DraftOK(d)'
<1>1. Tool!Effects(d)' = Tool!Effects(d)
  BY DEF OnlyCall, Tool!Effects
<1>2. \A n \in Suffix : <<d, n>> \in v6' <=> <<d, n>> \in v6
  BY DEF OnlyCall
<1>3. v5'[d] = v5[d] /\ v3'[d] = v3[d] /\ v4'[d] = v4[d]
      /\ UNCHANGED <<v1, v2, v8>>
  BY DEF OnlyCall
<1>4. Tool!CallOK(d)'
  BY <1>1, <1>3 DEF Tool!ToolsInv, Tool!CallOK, Tool!Consented
<1>5. Tool!DraftOK(d)'
  BY <1>2, <1>3 DEF Tool!ToolsInv, Tool!DraftOK
<1> QED BY <1>4, <1>5

\* What such a step leaves to be shown.
Fine(c) ==
  /\ v3' \in [Tool!Call -> Tool!AllTools \union {"none"}]
  /\ v4' \in [Tool!Call -> {"unasked", "lost", "hung up"} \union Tool!Answers]
  /\ v5' \in [Tool!Call -> CallRecord]
  /\ v2 # "boot"
  /\ Tool!CallOK(c)' /\ Tool!DraftOK(c)'
  /\ v5'[c].at \in {"named", "written"} => v5[c].at \in {"named", "written"} \/ Tool!Awaits

\* So the call that moves is all there is to look at.
LEMMA OnlyKeeps ==
  ASSUME Tool!ToolsInv, NEW c \in Tool!Call, OnlyCall(c), Fine(c)
  PROVE  Tool!ToolsInv'
<1>1. \A d \in Tool!Call : Tool!CallOK(d)' /\ Tool!DraftOK(d)'
  BY OthersKept DEF Fine
<1>2. Tool!Exclusive'
  <2>1. ASSUME NEW a \in Tool!Call, NEW b \in Tool!Call, v5'[a].at \in {"named", "written"},
               v5'[b].at \in {"named", "written"}
        PROVE  a = b
    <3>1. \A d \in Tool!Call : d # c => v5'[d] = v5[d]
      BY DEF OnlyCall
    <3>2. \A d \in Tool!Call : Tool!Awaits => v5[d].at \notin {"named", "written"}
      BY DEF Tool!Awaits
    <3>3. \A x, y \in Tool!Call : v5[x].at \in {"named", "written"}
                             /\ v5[y].at \in {"named", "written"} => x = y
      BY DEF Tool!ToolsInv, Tool!Exclusive
    <3> QED BY <2>1, <3>1, <3>2, <3>3 DEF Fine
  <2>2. v8' = v8
    BY DEF OnlyCall
  <2> QED BY <2>1, <2>2 DEF Tool!ToolsInv, Tool!Exclusive
<1>3. v8' = v8 /\ v2' = v2
  BY DEF OnlyCall
<1>4. /\ v3' \in [Tool!Call -> Tool!AllTools \union {"none"}]
      /\ v4' \in [Tool!Call -> {"unasked", "lost", "hung up"} \union Tool!Answers]
      /\ v5' \in [Tool!Call -> CallRecord] /\ v2 # "boot"
  BY DEF Fine
<1>5. v8' \in [Suffix -> SUBSET (0 .. Tool!Late)] /\ v2' # "boot"
  BY <1>3, <1>4 DEF Tool!ToolsInv
<1> QED BY <1>1, <1>2, <1>4, <1>5 DEF Tool!ToolsInv, CallRecord

\* What may come of running a tool other than a draft.
Ran(c, name) ==
  /\ v5' \in [Tool!Call -> CallRecord]
  /\ \A d \in Tool!Call : d # c => v5'[d] = v5[d]
  /\ v5'[c].at \in {"done", "loading"}
  /\ v5'[c].at = "loading" => v2 = "open" /\ name \in Tool!Egress
  /\ v6 \subseteq v6' /\ \A e \in v6' : e \in v6 \/ e[1] = c
  /\ v2 # "open" => v6' = v6

\* A call moves to another stage.
LEMMA GoesTo ==
  ASSUME Tool!ToolsInv, NEW c \in Tool!Call, NEW at \in Tool!Stages, Tool!Goes(c, at)
  PROVE  /\ v5' \in [Tool!Call -> CallRecord] /\ v5'[c].at = at
         /\ v5'[c].on = v5[c].on
         /\ \A d \in Tool!Call : d # c => v5'[d] = v5[d]
<1>1. v5 \in [Tool!Call -> CallRecord]
  BY DEF Tool!ToolsInv, CallRecord
<1>2. [v5[c] EXCEPT !.at = at] \in CallRecord /\ [v5[c] EXCEPT !.at = at].at = at
      /\ [v5[c] EXCEPT !.at = at].on = v5[c].on
  BY <1>1 DEF CallRecord
<1>3. v5' = [v5 EXCEPT ![c] = [v5[c] EXCEPT !.at = at]]
  BY DEF Tool!Goes
<1> QED BY <1>1, <1>2, <1>3

\* A call goes on to its next remote task, or is done.
LEMMA GoesOnward ==
  ASSUME Tool!ToolsInv, NEW c \in Tool!Call, NEW name, NEW todo \in SUBSET Task, NEW new,
         Tool!Onward(c, name, todo, new)
  PROVE  /\ v5' \in [Tool!Call -> CallRecord]
         /\ \A d \in Tool!Call : d # c => v5'[d] = v5[d]
         /\ v5'[c].at \in {"done", "loading"}
         /\ v5'[c].at = "loading" => v2 = "open"
<1>1. CASE Tool!Goes(c, "done")
  <2>1. "done" \in Tool!Stages
    BY DEF Tool!Stages
  <2> QED BY <1>1, <2>1, GoesTo
<1>2. CASE v2 = "open" /\ ~Tool!Goes(c, "done")
  <2>1. PICK x \in Tool!Ready(name, todo, new) :
           v5' = [v5 EXCEPT ![c] = [at |-> "loading", todo |-> todo \ {x}, on |-> x]]
    BY <1>2 DEF Tool!Onward
  <2>2. x \in Task
    BY <2>1 DEF Tool!Ready
  <2>3. [at |-> "loading", todo |-> todo \ {x}, on |-> x] \in CallRecord
    BY <2>2 DEF CallRecord, Tool!Stages
  <2>4. v5 \in [Tool!Call -> CallRecord]
    BY DEF Tool!ToolsInv, CallRecord
  <2> QED BY <1>2, <2>1, <2>3, <2>4
<1>3. Tool!Goes(c, "done") \/ v2 = "open"
  BY DEF Tool!Onward
<1> QED BY <1>1, <1>2, <1>3

LEMMA Records ==
  ASSUME NEW c, NEW new, \A e \in new : e[1] = c, Tool!Record(new)
  PROVE  /\ v6 \subseteq v6' /\ \A e \in v6' : e \in v6 \/ e[1] = c
         /\ v2 # "open" => v6' = v6
BY DEF Tool!Record

\* Whatever tool a call runs, what it records is its own.
LEMMA Runs ==
  ASSUME Tool!ToolsInv, NEW c \in Tool!Call, NEW name, Tool!Proceed(c, name)
  PROVE  Ran(c, name)
<1>0. "done" \in Tool!Stages
  BY DEF Tool!Stages
<1>1. CASE name = "propose.apply publish" /\ Tool!Apply(c, name)
  <2>1. name \in Tool!Egress
    BY <1>1 DEF Tool!Egress
  <2>2. CASE Tool!Record({<<c, "local">>}) /\ Tool!Onward(c, name, Task, {})
    <3>1. \A e \in {<<c, "local">>} : e[1] = c
      OBVIOUS
    <3>2. Task \in SUBSET Task
      OBVIOUS
    <3> QED BY <2>1, <2>2, <3>1, <3>2, GoesOnward, Records DEF Ran
  <2>3. CASE UNCHANGED v6 /\ Tool!Goes(c, "done")
    BY <1>0, <2>3, GoesTo DEF Ran
  <2> QED BY <1>1, <2>2, <2>3 DEF Tool!Apply
<1>2. CASE name \in {"task.publish", "task.act"} /\ Tool!One(c, name)
  <2>1. name \in Tool!Egress
    BY <1>2 DEF Tool!Egress
  <2>2. PICK x \in Task : Tool!Onward(c, name, {x}, {})
    BY <1>2 DEF Tool!One
  <2>3. {x} \in SUBSET Task
    OBVIOUS
  <2> QED BY <1>2, <2>1, <2>2, <2>3, GoesOnward DEF Ran, Tool!One
<1>3. CASE Tool!Local(c)
  <2>1. PICK new \in {{}, {<<c, "local">>}} : Tool!Record(new) /\ Tool!Goes(c, "done")
    BY <1>3 DEF Tool!Local
  <2>2. \A e \in new : e[1] = c
    BY <2>1
  <2> QED BY <1>0, <2>1, <2>2, GoesTo, Records DEF Ran
<1> QED BY <1>1, <1>2, <1>3 DEF Tool!Proceed

\* A call begins: what holds of it from before.
LEMMA Begins ==
  ASSUME Tool!ToolsInv, NEW c \in Tool!Call, NEW name \in Tools, Tool!Arrives(c, name)
  PROVE  /\ Tool!Effects(c) = {} /\ (\A n \in Suffix : c \notin v8[n])
         /\ v2 = "open" /\ Tool!Awaits /\ name \in Tool!AllTools
         /\ v3' \in [Tool!Call -> Tool!AllTools \union {"none"}] /\ v3'[c] = name
         /\ \A d \in Tool!Call : d # c => v3'[d] = v3[d]
         /\ UNCHANGED <<v1, v2, v4, v7, v8>>
<1>1. name \in Tool!AllTools
  BY DeskAssumption DEF Tool!WriteToolsConstants
<1>2. /\ v5[c].at = "idle" /\ v2 = "open" /\ Tool!Awaits /\ v3' = [v3 EXCEPT ![c] = name]
      /\ UNCHANGED <<v1, v2, v4, v7, v8>>
  BY DEF Tool!Arrives
<1>3. Tool!Effects(c) = {} /\ \A n \in Suffix : c \notin v8[n]
  BY <1>2 DEF Tool!ToolsInv, Tool!CallOK
<1>4. v3 \in [Tool!Call -> Tool!AllTools \union {"none"}]
  BY DEF Tool!ToolsInv
<1> QED BY <1>1, <1>2, <1>3, <1>4

LEMMA AskKeeps ==
  ASSUME Tool!ToolsInv, NEW c \in Tool!Call, NEW name \in Tools, Tool!Ask(c, name)
  PROVE  Tool!ToolsInv'
<1>1. Tool!Arrives(c, name) /\ name \in Tool!Gated /\ Tool!Goes(c, "asked") /\ v6' = v6
  BY DEF Tool!Ask, Tool!Asks
<1>2. "asked" \in Tool!Stages
  BY DEF Tool!Stages
<1>3. Tool!Effects(c)' = {}
  BY <1>1, Begins DEF Tool!Effects
<1>4. Tool!CallOK(c)' /\ Tool!DraftOK(c)'
  <2>1. v5'[c].at = "asked" /\ v3'[c] = name /\ \A n \in Suffix : c \notin v8'[n]
    BY <1>1, <1>2, Begins, GoesTo
  <2>2. name \notin Tool!Drafts
    BY <1>1 DEF Tool!Gated, Tool!Egress, Tool!Drafts
  <2>3. Tool!CallOK(c)'
    BY <1>1, <1>3, <2>1 DEF Tool!CallOK
  <2>4. Tool!DraftOK(c)'
    BY <2>1, <2>2 DEF Tool!DraftOK
  <2> QED BY <2>3, <2>4
<1>5. Fine(c)
  BY <1>1, <1>2, <1>4, Begins, GoesTo DEF Fine, Tool!ToolsInv
<1>6. OnlyCall(c)
  BY <1>1, <1>2, Begins, GoesTo DEF OnlyCall
<1> QED BY <1>5, <1>6, OnlyKeeps

\* A tool that runs with consent, or gets no answer, keeps to what it may do.
LEMMA RanKeeps ==
  ASSUME Tool!ToolsInv, NEW c \in Tool!Call, NEW name \in Tool!AllTools \ Tool!Drafts, Ran(c, name),
         UNCHANGED <<v1, v2, v7, v8>>,
         v3' \in [Tool!Call -> Tool!AllTools \union {"none"}], v3'[c] = name,
         \A d \in Tool!Call : d # c => v3'[d] = v3[d] /\ v4'[d] = v4[d],
         v4' \in [Tool!Call -> {"unasked", "lost", "hung up"} \union Tool!Answers],
         v2 # "boot",
         Tool!Effects(c) = {}, \A n \in Suffix : c \notin v8[n],
         name \in Tool!Gated => Tool!Consented(c)' \/ v2 # "open"
  PROVE  Tool!ToolsInv'
<1>1. v5'[c].at = "loading" => name \in Tool!Gated /\ v2 = "open"
  BY DEF Ran, Tool!Gated
<1>2. name \in Tool!Gated /\ Tool!Effects(c)' # {} => Tool!Consented(c)'
  <2>1. v2 # "open" => Tool!Effects(c)' = Tool!Effects(c)
    BY DEF Tool!Effects, Ran
  <2> QED BY <2>1
<1>3. Tool!CallOK(c)'
  BY <1>1, <1>2 DEF Tool!CallOK, Ran
<1>4. Tool!DraftOK(c)'
  BY DEF Tool!DraftOK
<1>5. Fine(c)
  BY <1>3, <1>4 DEF Fine, Ran
<1>6. OnlyCall(c)
  BY DEF OnlyCall, Ran
<1> QED BY <1>5, <1>6, OnlyKeeps

LEMMA RunKeeps ==
  ASSUME Tool!ToolsInv, NEW c \in Tool!Call, NEW name \in Tools, Tool!Run(c, name)
  PROVE  Tool!ToolsInv'
<1>1. /\ Tool!Arrives(c, name) /\ name \notin Tool!Drafts
      /\ (name \in Tool!Gated => ~v1) /\ Tool!Proceed(c, name)
  BY DEF Tool!Run, Tool!Asks
<1>2. Ran(c, name)
  BY <1>1, Runs
<1>3. name \in Tool!Gated => Tool!Consented(c)'
  BY <1>1, Begins DEF Tool!Consented
<1>4. /\ name \in Tool!AllTools \ Tool!Drafts /\ UNCHANGED <<v1, v2, v7, v8>>
      /\ v2 # "boot" /\ Tool!Effects(c) = {} /\ \A n \in Suffix : c \notin v8[n]
      /\ v3' \in [Tool!Call -> Tool!AllTools \union {"none"}] /\ v3'[c] = name
  BY <1>1, Begins
<1>5. /\ \A d \in Tool!Call : d # c => v3'[d] = v3[d] /\ v4'[d] = v4[d]
      /\ v4' \in [Tool!Call -> {"unasked", "lost", "hung up"} \union Tool!Answers]
  BY <1>1, Begins DEF Tool!ToolsInv
<1> QED BY <1>2, <1>3, <1>4, <1>5, RanKeeps

\* A call that waits for an answer.
LEMMA Asked ==
  ASSUME Tool!ToolsInv, NEW c \in Tool!Call, Tool!Working(c, "asked")
  PROVE  /\ Tool!Effects(c) = {} /\ (\A n \in Suffix : c \notin v8[n])
         /\ v2 # "boot" /\ Tool!Awaits /\ v3[c] \in Tool!Gated /\ v3[c] \in Tool!AllTools \ Tool!Drafts
         /\ UNCHANGED <<v1, v2, v3>>
BY DEF Tool!Working, Tool!ToolsInv, Tool!CallOK, Tool!Gated, Tool!Egress, Tool!Drafts, Tool!AllTools

LEMMA AnswerKeeps ==
  ASSUME Tool!ToolsInv, NEW c \in Tool!Call, NEW answer \in Tool!Answers, Tool!Answer(c, answer)
  PROVE  Tool!ToolsInv'
<1>1. Tool!Working(c, "asked") /\ v2 = "open" /\ v4' = [v4 EXCEPT ![c] = answer]
      /\ UNCHANGED <<v7, v8>>
  BY DEF Tool!Answer
<1>2. /\ v4' \in [Tool!Call -> {"unasked", "lost", "hung up"} \union Tool!Answers] /\ v4'[c] = answer
      /\ \A d \in Tool!Call : d # c => v4'[d] = v4[d]
  BY <1>1 DEF Tool!ToolsInv
<1>3. CASE Tool!Accepts(answer) /\ Tool!Proceed(c, v3[c])
  <2>1. Tool!Consented(c)'
    BY <1>2, <1>3 DEF Tool!Consented, Tool!Accepts
  <2>2. Ran(c, v3[c])
    BY <1>3, Runs
  <2> QED BY <1>1, <1>2, <2>1, <2>2, Asked, RanKeeps DEF Tool!ToolsInv
<1>4. CASE Tool!Goes(c, "done") /\ UNCHANGED v6
  <2>1. "done" \in Tool!Stages
    BY DEF Tool!Stages
  <2>2. Tool!Effects(c)' = {}
    BY <1>1, <1>4, Asked DEF Tool!Effects
  <2>3. Tool!CallOK(c)'
    BY <1>1, <1>4, <2>1, <2>2, GoesTo DEF Tool!CallOK
  <2>4. Tool!DraftOK(c)'
    BY <1>1, <1>4, Asked DEF Tool!DraftOK
  <2>5. Fine(c)
    BY <1>1, <1>2, <1>4, <2>1, <2>3, <2>4, GoesTo, Asked DEF Fine, Tool!ToolsInv
  <2>6. OnlyCall(c)
    BY <1>1, <1>2, <1>4, <2>1, GoesTo, Asked DEF OnlyCall
  <2> QED BY <2>5, <2>6, OnlyKeeps
<1> QED BY <1>3, <1>4 DEF Tool!Answer

LEMMA NoAnswerKeeps ==
  ASSUME Tool!ToolsInv, NEW c \in Tool!Call, Tool!NoAnswer(c)
  PROVE  Tool!ToolsInv'
<1>1. /\ Tool!Working(c, "asked") /\ Tool!Proceed(c, v3[c]) /\ UNCHANGED <<v7, v8>>
      /\ v4' = [v4 EXCEPT ![c] = IF v2 = "open" THEN "lost" ELSE "hung up"]
  BY DEF Tool!NoAnswer
<1>2. /\ v4' \in [Tool!Call -> {"unasked", "lost", "hung up"} \union Tool!Answers]
      /\ v2 = "open" => v4'[c] = "lost"
      /\ \A d \in Tool!Call : d # c => v4'[d] = v4[d]
  BY <1>1 DEF Tool!ToolsInv
<1>3. Tool!Consented(c)' \/ v2 # "open"
  BY <1>2 DEF Tool!Consented
<1>4. Ran(c, v3[c])
  BY <1>1, Runs
<1> QED BY <1>1, <1>2, <1>3, <1>4, Asked, RanKeeps DEF Tool!ToolsInv

\* A call of a tool that sends.
LEMMA Sends ==
  ASSUME Tool!ToolsInv, NEW c \in Tool!Call, NEW at \in {"loading", "sending"}, Tool!Working(c, at)
  PROVE  /\ v3[c] \in Tool!Egress /\ v3[c] \in Tool!Gated /\ v3[c] \notin Tool!Drafts /\ Tool!Consented(c)
         /\ (\A n \in Suffix : c \notin v8[n])
         /\ v2 # "boot" /\ Tool!Awaits
         /\ UNCHANGED <<v1, v2, v3>> /\ v5[c].todo \subseteq Task
BY DEF Tool!Working, Tool!ToolsInv, Tool!CallOK, Tool!DraftOK, Tool!Gated, Tool!Egress, Tool!Drafts

\* Whatever it does next, it has consent.
LEMMA SendKeepsOn ==
  ASSUME Tool!ToolsInv, NEW c \in Tool!Call, NEW at \in {"loading", "sending"}, Tool!Working(c, at),
         UNCHANGED <<v4, v8>>,
         v5' \in [Tool!Call -> CallRecord], \A d \in Tool!Call : d # c => v5'[d] = v5[d],
         v5'[c].at \in {"done", "loading", "sending"},
         v6 \subseteq v6', \A e \in v6' : e \in v6 \/ e[1] = c,
         v7 \subseteq v7', \A e \in v7' : e \in v7 \/ e[1] = c
  PROVE  Tool!ToolsInv'
<1>1. Tool!Consented(c)'
  BY Sends DEF Tool!Consented
<1>2. Tool!CallOK(c)'
  BY <1>1, Sends DEF Tool!CallOK
<1>3. Tool!DraftOK(c)'
  BY Sends DEF Tool!DraftOK
<1>4. Fine(c)
  BY <1>2, <1>3, Sends DEF Fine, Tool!ToolsInv
<1>5. OnlyCall(c)
  BY Sends DEF OnlyCall
<1> QED BY <1>4, <1>5, OnlyKeeps

LEMMA SendKeeps ==
  ASSUME Tool!ToolsInv, NEW c \in Tool!Call, Tool!Send(c)
  PROVE  Tool!ToolsInv'
<1>1. /\ Tool!Working(c, "loading") /\ Tool!Goes(c, "sending") /\ UNCHANGED <<v4, v6, v8>>
      /\ v7' = v7 \union {<<c, v5[c].on>>} /\ "sending" \in Tool!Stages
  BY DEF Tool!Send, Tool!Stages
<1>2. v7 \subseteq v7' /\ \A e \in v7' : e \in v7 \/ e[1] = c
  BY <1>1
<1> QED BY <1>1, <1>2, GoesTo, SendKeepsOn

LEMMA SucceedKeeps ==
  ASSUME Tool!ToolsInv, NEW c \in Tool!Call, Tool!Succeed(c)
  PROVE  Tool!ToolsInv'
<1> DEFINE new == {<<c, v5[c].on>>}
<1>1. /\ Tool!Working(c, "sending") /\ UNCHANGED <<v4, v7, v8>>
      /\ Tool!Record(new) /\ Tool!Onward(c, v3[c], v5[c].todo, new)
  BY DEF Tool!Succeed
<1>2. \A e \in new : e[1] = c
  OBVIOUS
<1> HIDE DEF new
<1>3. v5[c].todo \in SUBSET Task
  BY <1>1, Sends
<1>4. v6 \subseteq v6' /\ \A e \in v6' : e \in v6 \/ e[1] = c
  BY <1>1, <1>2, Records
<1>5. /\ v5' \in [Tool!Call -> CallRecord]
      /\ \A d \in Tool!Call : d # c => v5'[d] = v5[d]
      /\ v5'[c].at \in {"done", "loading", "sending"}
  BY <1>1, <1>3, GoesOnward
<1> QED BY <1>1, <1>4, <1>5, SendKeepsOn

LEMMA FailKeeps ==
  ASSUME Tool!ToolsInv, NEW c \in Tool!Call, Tool!Fail(c)
  PROVE  Tool!ToolsInv'
<1>1. PICK at \in {"loading", "sending"} : Tool!Working(c, at)
  BY DEF Tool!Fail
<1>2. Tool!Onward(c, v3[c], v5[c].todo, {}) /\ UNCHANGED <<v4, v6, v7, v8>>
  BY DEF Tool!Fail
<1>3. v5[c].todo \in SUBSET Task
  BY <1>1, Sends
<1>4. /\ v5' \in [Tool!Call -> CallRecord]
      /\ \A d \in Tool!Call : d # c => v5'[d] = v5[d]
      /\ v5'[c].at \in {"done", "loading", "sending"}
  BY <1>2, <1>3, GoesOnward
<1> QED BY <1>1, <1>2, <1>4, SendKeepsOn

\* A non-empty set of natural numbers has a least element.
LEMMA NatMin ==
  ASSUME NEW T \in SUBSET Nat, T # {}
  PROVE  \E x \in T : \A y \in T : x <= y
<1> DEFINE R == OpToRel(<, Nat)
<1>1. IsWellFoundedOn(R, Nat)
  BY NatLessThanWellFounded
<1>2. PICK x \in T : \A y \in T : ~ (<<y, x>> \in R)
  <2> HIDE DEF R
  <2> QED BY <1>1, WFMin
<1>3. \A y \in T : <<y, x>> \in R <=> y < x
  BY DEF OpToRel
<1> HIDE DEF R
<1>4. \A y \in T : ~ (y < x)
  BY <1>2, <1>3
<1> QED BY <1>4

\* The name of a draft: nothing has it.
LEMMA FirstName == Tool!HasName => Tool!Target \in Suffix /\ v8[Tool!Target] = {}
<1> SUFFICES ASSUME Tool!HasName PROVE Tool!Target \in Suffix /\ v8[Tool!Target] = {}
  OBVIOUS
<1>1. Suffix \subseteq Nat
  BY DeskAssumption DEF Tool!WriteToolsConstants
<1>2. \E n \in Suffix : v8[n] = {} /\ \A k \in Suffix : k < n => v8[k] # {}
  <2> DEFINE free == {n \in Suffix : v8[n] = {}}
  <2>1. free \in SUBSET Nat /\ free # {}
    BY <1>1 DEF Tool!HasName
  <2>2. PICK n \in free : \A k \in free : n <= k
    BY <2>1, NatMin
  <2>3. \A k \in Suffix : k < n => v8[k] # {}
    BY <1>1, <2>1, <2>2
  <2> QED BY <2>2, <2>3
<1> QED BY <1>2 DEF Tool!Target

\* The name found is one no file has.
LEMMA NamedTo ==
  ASSUME Tool!ToolsInv, NEW c \in Tool!Call, Tool!Named(c)
  PROVE  /\ v5' \in [Tool!Call -> CallRecord] /\ v5'[c].at = "named"
         /\ v5'[c].on \in Suffix /\ v8[v5'[c].on] = {}
         /\ \A d \in Tool!Call : d # c => v5'[d] = v5[d]
<1>1. v5 \in [Tool!Call -> CallRecord]
  BY DEF Tool!ToolsInv, CallRecord
<1>2. Tool!Target \in Suffix /\ v8[Tool!Target] = {}
  BY FirstName DEF Tool!Named
<1> DEFINE r == [v5[c] EXCEPT !.at = "named", !.on = Tool!Target]
<1>3. r \in CallRecord /\ r.at = "named" /\ r.on = Tool!Target
  BY <1>1, <1>2 DEF CallRecord, Tool!Stages
<1>4. v5' = [v5 EXCEPT ![c] = r]
  BY DEF Tool!Named
<1> HIDE DEF r
<1> QED BY <1>1, <1>2, <1>3, <1>4

\* A draft before it is written.
LEMMA DraftKeepsOn ==
  ASSUME Tool!ToolsInv, NEW c \in Tool!Call, v2 \in {"open", "over"}, Tool!Awaits,
         UNCHANGED <<v1, v2, v4, v7, v6, v8>>,
         v3' \in [Tool!Call -> Tool!AllTools \union {"none"}], v3'[c] \in Tool!Drafts,
         \A d \in Tool!Call : d # c => v3'[d] = v3[d],
         Tool!Effects(c) = {}, \A n \in Suffix : c \notin v8[n],
         \/ Tool!Named(c)
         \/ \E at \in {"composing", "done"} : Tool!Goes(c, at)
  PROVE  Tool!ToolsInv'
<1>1. /\ v5' \in [Tool!Call -> CallRecord] /\ v5'[c].at \in {"named", "composing", "done"}
      /\ v5'[c].at = "named" => v5'[c].on \in Suffix /\ v8[v5'[c].on] = {}
      /\ \A d \in Tool!Call : d # c => v5'[d] = v5[d]
  <2>1. {"composing", "done"} \subseteq Tool!Stages
    BY DEF Tool!Stages
  <2> QED BY <2>1, NamedTo, GoesTo
<1>2. Tool!Effects(c)' = {}
  BY DEF Tool!Effects
<1>3. v3'[c] \notin Tool!Gated
  BY DEF Tool!Drafts, Tool!Gated, Tool!Egress
<1>4. Tool!CallOK(c)' /\ Tool!DraftOK(c)'
  <2>1. Tool!CallOK(c)'
    BY <1>1, <1>2, <1>3 DEF Tool!CallOK
  <2>2. Tool!DraftOK(c)'
    <3>1. \A n \in Suffix : <<c, n>> \notin v6
      BY DEF Tool!Effects
    <3> QED BY <3>1 DEF Tool!DraftOK
  <2> QED BY <2>1, <2>2
<1>5. Fine(c)
  BY <1>1, <1>4 DEF Fine, Tool!ToolsInv
<1>6. OnlyCall(c)
  BY <1>1 DEF OnlyCall
<1> QED BY <1>5, <1>6, OnlyKeeps

LEMMA DraftKeeps ==
  ASSUME Tool!ToolsInv, NEW c \in Tool!Call, NEW name \in Tools, Tool!draftExport(c, name)
  PROVE  Tool!ToolsInv'
<1>1. Tool!Arrives(c, name) /\ name \in Tool!Drafts /\ UNCHANGED v6
      /\ (Tool!Named(c) \/ \E at \in {"composing", "done"} : Tool!Goes(c, at))
  BY DEF Tool!draftExport
<1> QED BY <1>1, Begins, DraftKeepsOn

LEMMA ComposedKeeps ==
  ASSUME Tool!ToolsInv, NEW c \in Tool!Call, Tool!Composed(c)
  PROVE  Tool!ToolsInv'
<1>1. Tool!Working(c, "composing") /\ UNCHANGED <<v4, v6, v7, v8>>
      /\ (Tool!Named(c) \/ \E at \in {"composing", "done"} : Tool!Goes(c, at))
  BY DEF Tool!Composed
<1>2. /\ v2 \in {"open", "over"} /\ Tool!Awaits /\ UNCHANGED <<v1, v2, v3>>
      /\ v3[c] \in Tool!Drafts /\ Tool!Effects(c) = {} /\ \A n \in Suffix : c \notin v8[n]
  BY <1>1 DEF Tool!Working, Tool!ToolsInv, Tool!CallOK
<1> QED BY <1>1, <1>2, DraftKeepsOn DEF Tool!ToolsInv

\* A draft that has its name: written, it has no other, and no other draft has it.
LEMMA WriteKeeps ==
  ASSUME Tool!ToolsInv, NEW c \in Tool!Call, Tool!writeFile(c)
  PROVE  Tool!ToolsInv'
<1> DEFINE n == v5[c].on
<1>1. /\ v2 \in {"open", "over"} /\ v5[c].at = "named"
      /\ v8' = [v8 EXCEPT ![n] = @ \union {c}] /\ Tool!Goes(c, "written") /\ "written" \in Tool!Stages
      /\ UNCHANGED <<v1, v2, v3, v4, v6, v7>>
  BY DEF Tool!writeFile, Tool!Writing, Tool!Stages
<1>2. /\ v5' \in [Tool!Call -> CallRecord] /\ v5'[c].at = "written" /\ v5'[c].on = n
      /\ \A d \in Tool!Call : d # c => v5'[d] = v5[d]
  BY <1>1, GoesTo
<1>3. /\ n \in Suffix /\ v8[n] \intersect (Tool!Call \union {Tool!Other}) = {} /\ v3[c] \in Tool!Drafts
      /\ Tool!Effects(c) = {} /\ \A m \in Suffix : c \notin v8[m]
  BY <1>1 DEF Tool!ToolsInv, Tool!CallOK
<1>4. /\ v8' \in [Suffix -> SUBSET (0 .. Tool!Late)]
      /\ v8'[n] = v8[n] \union {c} /\ \A m \in Suffix : m # n => v8'[m] = v8[m]
  <2>1. c \in 0 .. Tool!Late
    BY DeskAssumption DEF Tool!WriteToolsConstants, Tool!Call, Tool!Late
  <2>2. v8 \in [Suffix -> SUBSET (0 .. Tool!Late)]
    BY DEF Tool!ToolsInv
  <2> HIDE DEF n
  <2> QED BY <1>1, <1>3, <2>1, <2>2
<1> HIDE DEF n
<1>5. \A d \in Tool!Call : Tool!Effects(d)' = Tool!Effects(d)
  BY <1>1 DEF Tool!Effects
<1>6. ASSUME NEW d \in Tool!Call PROVE Tool!CallOK(d)' /\ Tool!DraftOK(d)'
  <2>1. CASE d = c
    <3>1. v3[c] \notin Tool!Gated
      BY <1>3 DEF Tool!Gated, Tool!Egress, Tool!Drafts
    <3>2. \A m \in Suffix : <<c, m>> \notin v6
      BY <1>3 DEF Tool!Effects
    <3>3. Tool!CallOK(c)'
      BY <1>1, <1>2, <1>3, <1>4, <3>1 DEF Tool!CallOK
    <3>4. Tool!DraftOK(c)'
      BY <1>1, <1>2, <1>3, <1>4, <3>2 DEF Tool!DraftOK
    <3> QED BY <2>1, <3>3, <3>4
  <2>2. CASE d # c
    <3>1. v5[d].at # "named"
      BY <1>1, <2>2 DEF Tool!ToolsInv, Tool!Exclusive
    <3>2. \A m \in Suffix : d \in v8'[m] <=> d \in v8[m]
      BY <1>4, <2>2
    <3>3. v5'[d] = v5[d] /\ v5[d] \in CallRecord
      BY <1>2, <2>2 DEF Tool!ToolsInv, CallRecord
    <3>4. Tool!CallOK(d)'
      BY <1>1, <1>5, <3>1, <3>2, <3>3 DEF Tool!ToolsInv, Tool!CallOK, Tool!Consented
    <3>5. Tool!DraftOK(d)'
      BY <1>1, <3>2, <3>3 DEF Tool!ToolsInv, Tool!DraftOK
    <3> QED BY <3>4, <3>5
  <2> QED BY <2>1, <2>2
<1>7. Tool!Exclusive'
  <2>1. ASSUME NEW m \in Suffix
        PROVE  /\ \A a, b \in v8'[m] \intersect Tool!Call : a = b
               /\ Tool!Other \in v8'[m] => v8'[m] \intersect Tool!Call = {}
    <3>1. CASE m = n
      <4>1. Tool!Other # c
        BY DeskAssumption DEF Tool!WriteToolsConstants, Tool!Call, Tool!Other
      <4> QED BY <1>3, <1>4, <3>1, <4>1
    <3>2. CASE m # n
      BY <1>4, <3>2 DEF Tool!ToolsInv, Tool!Exclusive
    <3> QED BY <3>1, <3>2
  <2>2. \A a \in Tool!Call : v5'[a].at \in {"named", "written"} => v5[a].at \in {"named", "written"}
    BY <1>1, <1>2
  <2> QED BY <2>1, <2>2 DEF Tool!ToolsInv, Tool!Exclusive
<1> QED BY <1>1, <1>2, <1>4, <1>6, <1>7 DEF Tool!ToolsInv, CallRecord

LEMMA RecordKeeps ==
  ASSUME Tool!ToolsInv, NEW c \in Tool!Call, Tool!recordDraft(c)
  PROVE  Tool!ToolsInv'
<1> DEFINE new == {<<c, v5[c].on>>}
<1>1. /\ v2 \in {"open", "over"} /\ v5[c].at = "written" /\ Tool!Record(new)
      /\ Tool!Goes(c, "done") /\ "done" \in Tool!Stages
      /\ UNCHANGED <<v1, v2, v3, v4, v7, v8>>
  BY DEF Tool!recordDraft, Tool!Writing, Tool!Stages
<1>2. /\ v5' \in [Tool!Call -> CallRecord] /\ v5'[c].at = "done"
      /\ \A d \in Tool!Call : d # c => v5'[d] = v5[d]
  BY <1>1, GoesTo
<1>3. v6 \subseteq v6' /\ \A e \in v6' : e \in v6 \/ e = <<c, v5[c].on>>
  BY <1>1 DEF Tool!Record
<1>4. v3[c] \in Tool!Drafts /\ v3[c] \notin Tool!Gated /\ v5[c].on \in Suffix /\ c \in v8[v5[c].on]
  BY <1>1 DEF Tool!ToolsInv, Tool!CallOK, Tool!Gated, Tool!Egress, Tool!Drafts
<1>5. Tool!CallOK(c)'
  BY <1>1, <1>2, <1>4 DEF Tool!CallOK
<1>6. Tool!DraftOK(c)'
  <2> SUFFICES ASSUME NEW n \in Suffix
               PROVE  /\ c \in v8[n] => <<c, n>> \in v6' \/ v2 # "open"
                      /\ <<c, n>> \in v6' => c \in v8[n]
    BY <1>1, <1>2, <1>4 DEF Tool!DraftOK
  <2>1. c \in v8[n] => n = v5[c].on
    BY <1>1 DEF Tool!ToolsInv, Tool!DraftOK
  <2>2. v2 = "open" => <<c, v5[c].on>> \in v6'
    BY <1>1 DEF Tool!Record
  <2>3. <<c, n>> \in v6 => c \in v8[n]
    BY <1>4 DEF Tool!ToolsInv, Tool!DraftOK
  <2>4. <<c, n>> = <<c, v5[c].on>> => n = v5[c].on
    OBVIOUS
  <2> QED BY <1>3, <1>4, <2>1, <2>2, <2>3, <2>4
<1>7. OnlyCall(c)
  BY <1>1, <1>2, <1>3 DEF OnlyCall
<1>8. Fine(c)
  BY <1>1, <1>2, <1>5, <1>6 DEF Fine, Tool!ToolsInv
<1> QED BY <1>7, <1>8, OnlyKeeps

\* Another program's file: where a draft has chosen its name, it is Late.
LEMMA AppearKeeps ==
  ASSUME Tool!ToolsInv, NEW n \in Suffix, Tool!Appear(n)
  PROVE  Tool!ToolsInv'
<1>0. /\ 0 \in 0 .. Tool!Late /\ Tool!Late \in 0 .. Tool!Late
      /\ Tool!Other \notin Tool!Call /\ Tool!Late \notin Tool!Call /\ Tool!Other # Tool!Late
      /\ Tool!Other = 0
  BY DeskAssumption DEF Tool!WriteToolsConstants, Tool!Call, Tool!Late, Tool!Other
<1>1. PICK o \in {Tool!Other, Tool!Late} :
        /\ v8' = [v8 EXCEPT ![n] = {o}] /\ v8[n] = {}
        /\ o = Tool!Other => \A c \in Tool!Call : ~(v5[c].at = "named" /\ v5[c].on = n)
        /\ UNCHANGED <<v1, v2, v3, v4, v5, v6, v7>>
  <2> DEFINE named == \E c \in Tool!Call : v5[c].at = "named" /\ v5[c].on = n
  <2>1. /\ v8' = [v8 EXCEPT ![n] = {IF named THEN Tool!Late ELSE Tool!Other}] /\ v8[n] = {}
        /\ UNCHANGED <<v1, v2, v3, v4, v5, v6, v7>>
    BY DEF Tool!Appear
  <2>2. CASE named
    BY <1>0, <2>1, <2>2
  <2>3. CASE ~named
    BY <2>1, <2>3
  <2> QED BY <2>2, <2>3
<1>3. /\ v8' \in [Suffix -> SUBSET (0 .. Tool!Late)] /\ v8'[n] = {o}
      /\ \A m \in Suffix : m # n => v8'[m] = v8[m]
  BY <1>1, <1>0 DEF Tool!ToolsInv
<1>4. \A c \in Tool!Call, m \in Suffix : c \in v8'[m] <=> c \in v8[m]
  BY <1>1, <1>0, <1>3
<1>5. ASSUME NEW c \in Tool!Call PROVE Tool!CallOK(c)' /\ Tool!DraftOK(c)'
  <2>1. Tool!Effects(c)' = Tool!Effects(c)
    BY <1>1 DEF Tool!Effects
  <2>2. v5[c].at = "named" => v8'[v5[c].on] \intersect (Tool!Call \union {Tool!Other}) = {}
    <3>1. CASE v5[c].on = n
      BY <1>1, <1>0, <1>3, <3>1
    <3>2. CASE v5[c].on # n
      BY <1>3, <3>2 DEF Tool!ToolsInv, Tool!CallOK
    <3> QED BY <3>1, <3>2
  <2>3. Tool!CallOK(c)'
    BY <1>1, <1>4, <2>1, <2>2 DEF Tool!ToolsInv, Tool!CallOK, Tool!Consented
  <2>4. Tool!DraftOK(c)'
    BY <1>1, <1>4 DEF Tool!ToolsInv, Tool!DraftOK
  <2> QED BY <2>3, <2>4
<1>6. Tool!Exclusive'
  <2>1. ASSUME NEW m \in Suffix
        PROVE  /\ \A a, b \in v8'[m] \intersect Tool!Call : a = b
               /\ Tool!Other \in v8'[m] => v8'[m] \intersect Tool!Call = {}
    <3>1. CASE m = n
      BY <1>0, <1>3, <3>1
    <3>2. CASE m # n
      BY <1>3, <3>2 DEF Tool!ToolsInv, Tool!Exclusive
    <3> QED BY <3>1, <3>2
  <2> QED BY <1>1, <2>1 DEF Tool!ToolsInv, Tool!Exclusive
<1> QED BY <1>1, <1>3, <1>5, <1>6 DEF Tool!ToolsInv

\* The session opens, ends or is killed.
LEMMA SessionKeeps ==
  ASSUME Tool!ToolsInv, UNCHANGED <<v1, v3, v4, v5, v6, v7, v8>>,
         v2' # "boot" \/ v2' = v2,
         \/ v2 = "boot"
         \/ v2' = v2
         \/ v2' \notin {"open", "boot"}
  PROVE  Tool!ToolsInv'
<1>1. ASSUME NEW c \in Tool!Call PROVE Tool!CallOK(c)' /\ Tool!DraftOK(c)'
  <2>1. Tool!Effects(c)' = Tool!Effects(c)
    BY DEF Tool!Effects
  <2>2. Tool!CallOK(c)'
    BY <2>1 DEF Tool!ToolsInv, Tool!CallOK, Tool!Consented
  <2>3. Tool!DraftOK(c)'
    <3>1. v2 = "boot" => v5[c].at # "done"
      BY DEF Tool!ToolsInv
    <3> QED BY <3>1 DEF Tool!ToolsInv, Tool!DraftOK
  <2> QED BY <2>2, <2>3
<1>2. Tool!Exclusive'
  BY DEF Tool!ToolsInv, Tool!Exclusive
<1> QED BY <1>1, <1>2 DEF Tool!ToolsInv

\* Every step of a session keeps the invariant of its calls.
LEMMA ToolsStep == Tool!ToolsInv /\ Tool!Next => Tool!ToolsInv'
<1> SUFFICES ASSUME Tool!ToolsInv, Tool!Next PROVE Tool!ToolsInv'
  OBVIOUS
<1>1. CASE Tool!Boot \/ Tool!HangUp \/ Tool!Kill
  BY <1>1, SessionKeeps DEF Tool!Boot, Tool!HangUp, Tool!Kill
<1>2. CASE \E c \in Tool!Call, name \in Tools :
               Tool!Ask(c, name) \/ Tool!Run(c, name) \/ Tool!draftExport(c, name)
  BY <1>2, AskKeeps, RunKeeps, DraftKeeps
<1>3. CASE \E c \in Tool!Call, answer \in Tool!Answers : Tool!Answer(c, answer)
  BY <1>3, AnswerKeeps
<1>4. CASE \E c \in Tool!Call :
             \/ Tool!NoAnswer(c) \/ Tool!Send(c) \/ Tool!Succeed(c) \/ Tool!Fail(c)
             \/ Tool!Composed(c) \/ Tool!writeFile(c) \/ Tool!recordDraft(c)
  BY <1>4, NoAnswerKeeps, SendKeeps, SucceedKeeps, FailKeeps, ComposedKeeps, WriteKeeps, RecordKeeps
<1>5. CASE \E n \in Suffix : Tool!Appear(n)
  BY <1>5, AppearKeeps
<1> QED BY <1>1, <1>2, <1>3, <1>4, <1>5 DEF Tool!Next

LEMMA ToolsStutters == Tool!ToolsInv /\ UNCHANGED Tool!vars => Tool!ToolsInv'
BY SessionKeeps DEF Tool!vars

(***************************************************************************)
(* One call of an embedder (Embd!).  v1: the texts and the settings, v2:   *)
(* where the request is, v3: whether a chunk or a text alone is sent, v4:  *)
(* the attempt, v6: the slots filled, v7: those of texts sent alone, v8:   *)
(* whether there is a vector, v9: how the service failed.                  *)
(***************************************************************************)

\* Division with remainder.
LEMMA DivFacts ==
  ASSUME NEW a \in Nat, NEW s \in Nat \ {0}
  PROVE  /\ a \div s \in Nat
         /\ s * (a \div s) <= a
         /\ a < s * (a \div s) + s
  OBVIOUS

\* The multiple of s below a number, told by its bounds.
LEMMA Between ==
  ASSUME NEW s \in Nat, NEW c \in Nat, NEW k \in Nat, s > 0, k * s < s * c + s
  PROVE  k <= c /\ (s * c <= k * s => c = k)
<1>1. k < c + 1
  <2>1. k * s < (c + 1) * s
    OBVIOUS
  <2> QED BY <2>1
<1>2. ASSUME s * c <= k * s PROVE c <= k
  BY <1>2
<1> QED BY <1>1, <1>2

\* Two sequences joined.
LEMMA Joined ==
  ASSUME NEW a \in Seq(Nat), NEW b \in Seq(Nat)
  PROVE  /\ a \o b \in Seq(Nat) /\ Len(a \o b) = Len(a) + Len(b)
         /\ \A i \in 1..(Len(a) + Len(b)) :
              (a \o b)[i] = IF i <= Len(a) THEN a[i] ELSE b[i - Len(a)]
  OBVIOUS

\* Injections of an interval to itself reach everything.
LEMMA Permuted ==
  ASSUME NEW n \in Nat, NEW p \in [1..n -> 1..n],
         \A i, j \in 1..n : p[i] = p[j] => i = j
  PROVE  \A k \in 1..n : \E i \in 1..n : p[i] = k
<1>1. IsFiniteSet(1..n)
  BY FS_Interval
<1>2. p \in Injection(1..n, 1..n)
  BY DEF Injection, IsInjective
<1>3. p \in Surjection(1..n, 1..n)
  BY <1>1, <1>2, FS_Injection
<1> QED BY <1>3 DEF Surjection

\* Entries that hold each of the n asked texts once, p telling where each stands.
Lists(data, n, p, asked) ==
  /\ p \in [1..n -> 1..n]
  /\ \A k \in 1..n : \E i \in 1..n : p[i] = k
  /\ \A i, j \in 1..n : p[i] = p[j] => i = j
  /\ DOMAIN data = 1..n /\ Len(data) = n
  /\ \A i \in 1..n : Embd!EntryAt(data, i) = p[i] - 1 /\ data[i].of = asked[p[i]]

ReadAs(data, n, asked) ==
  /\ ~Embd!Malformed(data, n)
  /\ DOMAIN Embd!Restored(data) = 1..n
  /\ \A k \in 1..n : Embd!Restored(data)[k] = asked[k]

\* Entries in any order are read in the order asked.
LEMMA RestoredInOrder ==
  ASSUME NEW n \in Nat, NEW asked, NEW data, NEW p, Lists(data, n, p, asked)
  PROVE  ReadAs(data, n, asked)
<1>1. ~Embd!Malformed(data, n)
  <2>1. Len(data) = n /\ DOMAIN data = 1..n
    BY DEF Lists
  <2>2. ASSUME NEW i \in 1..n PROVE Embd!EntryAt(data, i) \in 0..(n - 1)
    <3>1. p[i] \in 1..n /\ Embd!EntryAt(data, i) = p[i] - 1
      BY DEF Lists
    <3> QED BY <3>1
  <2>3. ASSUME NEW i \in 1..n, NEW j \in 1..n, Embd!EntryAt(data, i) = Embd!EntryAt(data, j) PROVE i = j
    <3>1. /\ p[i] \in 1..n /\ Embd!EntryAt(data, i) = p[i] - 1
          /\ p[j] \in 1..n /\ Embd!EntryAt(data, j) = p[j] - 1
      BY DEF Lists
    <3>2. p[i] - 1 = p[j] - 1
      BY <2>3, <3>1, Zenon
    <3>3. p[i] = p[j]
      BY <3>1, <3>2
    <3> QED BY <3>3 DEF Lists
  <2> QED BY <2>1, <2>2, <2>3, Zenon DEF Embd!Malformed
<1>2. DOMAIN Embd!Restored(data) = 1..n
  BY DEF Embd!Restored, Lists
<1>3. ASSUME NEW k \in 1..n PROVE Embd!Restored(data)[k] = asked[k]
  <2>1. PICK x \in 1..n : p[x] = k
    BY DEF Lists
  <2>2. Embd!EntryAt(data, x) = k - 1 /\ x \in DOMAIN data
    BY <2>1 DEF Lists
  <2> DEFINE i == CHOOSE j \in DOMAIN data : Embd!EntryAt(data, j) = k - 1
  <2>3. i \in DOMAIN data /\ Embd!EntryAt(data, i) = k - 1
    BY <2>2, Zenon
  <2>4. Embd!Restored(data)[k] = data[i].of
    BY DEF Embd!Restored, Lists
  <2> HIDE DEF i
  <2>5. i \in 1..n /\ p[i] \in 1..n /\ p[i] - 1 = k - 1 /\ data[i].of = asked[p[i]]
    BY <2>3 DEF Lists
  <2>6. p[i] = k
    BY <2>5
  <2> QED BY <2>4, <2>5, <2>6
<1> QED BY <1>1, <1>2, <1>3 DEF ReadAs

\* An honest answer is read as the vectors of the texts, in their order.
LEMMA HonestRead ==
  ASSUME NEW asked \in Seq(Nat), NEW data \in Embd!HonestAnswers(asked)
  PROVE  ReadAs(data, Len(asked), asked)
<1>0. Len(asked) \in Nat /\ DOMAIN asked = 1..Len(asked)
  OBVIOUS
<1>1. CASE data = [i \in DOMAIN asked |-> [at |-> Embd!NoIndex, of |-> asked[i]]]
  <2> DEFINE p == [i \in 1..Len(asked) |-> i]
  <2>1. DOMAIN data = 1..Len(asked) /\ Len(data) = Len(asked)
    BY <1>0, <1>1
  <2>2. ASSUME NEW i \in 1..Len(asked)
        PROVE Embd!EntryAt(data, i) = p[i] - 1 /\ data[i].of = asked[p[i]]
    BY <1>0, <1>1 DEF Embd!EntryAt, Embd!NoIndex
  <2>3. p \in [1..Len(asked) -> 1..Len(asked)] /\ \A i \in 1..Len(asked) : p[i] = i
    OBVIOUS
  <2> HIDE DEF p
  <2>4. Lists(data, Len(asked), p, asked)
    BY <2>1, <2>2, <2>3 DEF Lists
  <2> QED BY <1>0, <2>4, RestoredInOrder
<1>2. ASSUME NEW p \in [DOMAIN asked -> DOMAIN asked],
             \A i, j \in DOMAIN asked : p[i] = p[j] => i = j,
             data = [i \in DOMAIN asked |-> [at |-> p[i] - 1, of |-> asked[p[i]]]]
      PROVE  ReadAs(data, Len(asked), asked)
  <2>1. DOMAIN data = 1..Len(asked) /\ Len(data) = Len(asked)
    BY <1>0, <1>2
  <2>2. ASSUME NEW i \in 1..Len(asked)
        PROVE Embd!EntryAt(data, i) = p[i] - 1 /\ data[i].of = asked[p[i]]
    <3>1. p[i] \in 1..Len(asked) /\ data[i] = [at |-> p[i] - 1, of |-> asked[p[i]]]
      BY <1>0, <1>2
    <3> QED BY <3>1 DEF Embd!EntryAt, Embd!NoIndex
  <2>3. p \in [1..Len(asked) -> 1..Len(asked)]
        /\ \A i, j \in 1..Len(asked) : p[i] = p[j] => i = j
    BY <1>0, <1>2
  <2>4. \A k \in 1..Len(asked) : \E i \in 1..Len(asked) : p[i] = k
    BY <1>0, <2>3, Permuted
  <2>5. Lists(data, Len(asked), p, asked)
    BY <2>1, <2>2, <2>3, <2>4 DEF Lists
  <2> QED BY <1>0, <2>5, RestoredInOrder
<1> QED BY <1>1, <1>2 DEF Embd!HonestAnswers

\* A faulty answer is seen to be one.
LEMMA FaultySeen ==
  ASSUME NEW asked \in Seq(Nat), asked # <<>>, NEW data \in Embd!FaultyAnswers(asked)
  PROVE  Embd!Malformed(data, Len(asked))
<1>0. Len(asked) \in Nat \ {0} /\ DOMAIN asked = 1..Len(asked)
  OBVIOUS
<1>1. CASE data = [i \in 1..(Len(asked) - 1) |-> [at |-> Embd!NoIndex, of |-> asked[i]]]
  <2>1. Len(data) = Len(asked) - 1
    BY <1>0, <1>1
  <2>2. Len(data) # Len(asked)
    <3> DEFINE n == Len(asked)
    <3>1. n \in Nat /\ Len(data) = n - 1
      BY <1>0, <2>1
    <3> HIDE DEF n
    <3>2. Len(data) # n
      BY <3>1
    <3> QED BY <3>2 DEF n
  <2> QED BY <2>2, Zenon DEF Embd!Malformed
<1>2. CASE data = [i \in DOMAIN asked |-> [at |-> Len(asked), of |-> asked[i]]]
  <2>1. 1 \in DOMAIN data /\ data[1].at = Len(asked)
    BY <1>0, <1>2
  <2>2. Embd!EntryAt(data, 1) = Len(asked)
    BY <1>0, <2>1 DEF Embd!EntryAt, Embd!NoIndex
  <2> QED BY <1>0, <2>1, <2>2 DEF Embd!Malformed
<1>3. CASE Len(asked) # 1 /\ data = [i \in DOMAIN asked |-> [at |-> 0, of |-> asked[i]]]
  <2>1. 1 \in DOMAIN data /\ 2 \in DOMAIN data /\ data[1].at = 0 /\ data[2].at = 0
    BY <1>0, <1>3
  <2>2. Embd!EntryAt(data, 1) = 0 /\ Embd!EntryAt(data, 2) = 0
    BY <2>1 DEF Embd!EntryAt, Embd!NoIndex
  <2> QED BY <2>1, <2>2 DEF Embd!Malformed
<1> QED BY <1>1, <1>2, <1>3 DEF Embd!FaultyAnswers

\* The texts of a job.
LEMMA TextsTyped ==
  ASSUME Embd!EmbedInv
  PROVE  /\ Embd!texts \in Seq({"plain", "long", "poison"})
         /\ Len(Embd!texts) \in Nat /\ DOMAIN Embd!texts = 1..Len(Embd!texts)
         /\ Embd!ChunkSize \in Int /\ (Len(Embd!texts) > 0 => Embd!ChunkSize > 0)
<1>1. v1 \in Embd!Jobs
  BY DEF Embd!EmbedInv, Embd!EmbedTyped
<1>2. PICK n \in 0..MaxTexts : Embd!texts \in [1..n -> {"plain", "long", "poison"}]
  BY <1>1 DEF Embd!Jobs, Embd!texts
<1>3. n \in Nat
  BY <1>2, DeskAssumption DEF Embd!EmbedCallConstants
<1>4. /\ Embd!texts \in Seq({"plain", "long", "poison"})
      /\ Len(Embd!texts) = n /\ DOMAIN Embd!texts = 1..n
  BY <1>2, <1>3
<1>5. v1.batch \in Int
  BY <1>1, DeskAssumption DEF Embd!Jobs, Embd!EmbedCallConstants
<1> QED BY <1>3, <1>4, <1>5 DEF Embd!ChunkSize

\* The chunk of a running call is full, or reaches the last text.
ChunkIs(m) ==
  /\ m \in Nat /\ m > 0 /\ Len(Embd!Chunk) = m /\ DOMAIN Embd!Chunk = 1..m
  /\ Embd!Chunk \in Seq(Nat) /\ \A i \in 1..m : Embd!Chunk[i] = Len(v6) + i
  /\ Len(v6) \in Nat /\ Len(v6) + m <= Len(Embd!texts)
  /\ m = Embd!ChunkSize \/ Len(v6) + m = Len(Embd!texts)

LEMMA ChunkFacts == ASSUME Embd!EmbedInv, Embd!Running PROVE ChunkIs(Len(Embd!Chunk))
<1> DEFINE left == Len(Embd!texts) - Len(v6)
           m == IF Embd!ChunkSize < left THEN Embd!ChunkSize ELSE left
<1>1. Len(v6) \in Nat /\ Len(Embd!texts) \in Nat /\ Len(v6) < Len(Embd!texts) /\ Embd!ChunkSize \in Int
      /\ Embd!ChunkSize > 0
  BY TextsTyped DEF Embd!EmbedInv, Embd!EmbedTyped, Embd!RequestOK
<1>2. /\ m \in Nat /\ m > 0 /\ Len(v6) + m <= Len(Embd!texts)
      /\ m = Embd!ChunkSize \/ Len(v6) + m = Len(Embd!texts)
  BY <1>1
<1>3. Embd!Chunk = [i \in 1..m |-> Len(v6) + i]
  BY DEF Embd!Chunk
<1> HIDE DEF m, left
<1>4. Embd!Chunk \in Seq(Nat) /\ Len(Embd!Chunk) = m /\ DOMAIN Embd!Chunk = 1..m
      /\ \A i \in 1..m : Embd!Chunk[i] = Len(v6) + i
  BY <1>1, <1>2, <1>3
<1> QED BY <1>1, <1>2, <1>4 DEF ChunkIs

\* Where nothing of the chunk can be embedded, no text after it is missed.
Spared(t) == Embd!Unacceptable(t) \/ \E k \in Embd!DeadOnes : k < Embd!ChunkOf(t)

LEMMA DeadChunkSpares ==
  ASSUME Embd!EmbedInv, Embd!Running, \A i \in DOMAIN Embd!Chunk : Embd!Unacceptable(Embd!Chunk[i]),
         NEW t \in DOMAIN Embd!texts, t > Len(v6)
  PROVE  Spared(t)
<1>1. ChunkIs(Len(Embd!Chunk))
  BY ChunkFacts
<1>2. PICK k \in 0..Len(v6) : Len(v6) = k * Embd!ChunkSize
  BY DEF Embd!EmbedInv, Embd!RequestOK
<1> DEFINE S == Embd!ChunkSize
           L == Len(Embd!texts)
           o == Len(v6)
           m == Len(Embd!Chunk)
<1>3. /\ S \in Nat /\ S > 0 /\ L \in Nat /\ o \in Nat /\ m \in Nat /\ k \in Nat
      /\ DOMAIN Embd!texts = 1..L /\ DOMAIN Embd!Chunk = 1..m /\ m > 0 /\ o + m <= L
      /\ m = S \/ o + m = L
  BY <1>1, <1>2, TextsTyped DEF ChunkIs
<1>4. /\ o = k * S
      /\ \A i \in 1..m : Embd!Chunk[i] = o + i
  BY <1>1, <1>2 DEF ChunkIs
<1>5. \A u \in 1..L : Embd!ChunkOf(u) = (u - 1) \div S
  BY DEF Embd!ChunkOf
<1> HIDE DEF S, L, o, m
<1>6. ASSUME NEW u \in 1..L
      PROVE  /\ Embd!ChunkOf(u) \in Nat
             /\ S * Embd!ChunkOf(u) <= u - 1 /\ u - 1 < S * Embd!ChunkOf(u) + S
  <2>1. u - 1 \in Nat /\ S \in Nat \ {0}
    BY <1>3
  <2>2. /\ (u - 1) \div S \in Nat
        /\ S * ((u - 1) \div S) <= u - 1 /\ u - 1 < S * ((u - 1) \div S) + S
    BY <2>1, DivFacts
  <2> QED BY <1>5, <2>2
<1>7. ASSUME NEW u \in 1..L, Embd!ChunkOf(u) = k PROVE Embd!Unacceptable(u)
  <2>1. S * k <= u - 1 /\ u - 1 < S * k + S
    BY <1>6, <1>7
  <2>2. S * k = o
    BY <1>3, <1>4
  <2>3. u - o \in 1..m /\ o + (u - o) = u
    BY <1>3, <2>1, <2>2
  <2>4. Embd!Chunk[u - o] = u
    BY <1>4, <2>3
  <2> QED BY <1>3, <2>3, <2>4
<1>8. o + 1 \in 1..L /\ Embd!ChunkOf(o + 1) = k
  <2>1. o + 1 \in 1..L
    BY <1>3
  <2>2. PICK u \in 1..L : u = o + 1
    BY <2>1
  <2>3. PICK c \in Nat : c = Embd!ChunkOf(u) /\ S * c <= u - 1 /\ u - 1 < S * c + S
    BY <1>6
  <2>4. S * c <= k * S /\ k * S < S * c + S
    BY <1>3, <1>4, <2>2, <2>3
  <2>5. c = k
    BY <1>3, <2>4, Between
  <2> QED BY <2>1, <2>2, <2>3, <2>5
<1>9. k \in Embd!DeadOnes
  BY <1>3, <1>7, <1>8 DEF Embd!DeadOnes
<1>10. t \in 1..L /\ t > o
  BY <1>3 DEF o
<1>11. Embd!ChunkOf(t) >= k
  <2>1. PICK c \in Nat : c = Embd!ChunkOf(t) /\ t - 1 < S * c + S
    BY <1>6, <1>10
  <2>2. k * S < S * c + S
    <3>1. t \in Nat /\ o <= t - 1
      BY <1>3, <1>10
    <3>2. S * c + S \in Nat /\ k * S = o
      BY <1>3, <1>4
    <3>3. PICK e \in Nat : e = S * c + S /\ t - 1 < e
      BY <2>1, <3>2
    <3>4. o < e
      BY <1>3, <3>1, <3>3
    <3> QED BY <3>2, <3>3, <3>4
  <2>3. k <= c
    BY <1>3, <2>2, Between
  <2> QED BY <2>1, <2>3
<1>12. CASE Embd!ChunkOf(t) = k
  BY <1>7, <1>10, <1>12 DEF Spared
<1>13. CASE Embd!ChunkOf(t) # k
  <2>1. k \in Nat /\ Embd!ChunkOf(t) \in Nat
    BY <1>3, <1>6, <1>10
  <2>2. k < Embd!ChunkOf(t)
    BY <2>1, <1>11, <1>13
  <2> QED BY <1>9, <2>2, Zenon DEF Spared
<1> QED BY <1>12, <1>13

\* A step of a call that runs: the job stays, and a service that has failed has failed.
FaultsTyped == [blips : Nat, wreck : BOOLEAN]

Steady == /\ Embd!EmbedInv /\ Embd!Running /\ v1' = v1 /\ v9' \in FaultsTyped
          /\ Embd!Clean' => Embd!Clean

Aligned(slots) ==
  /\ slots \in Seq(Nat)
  /\ \A i \in DOMAIN slots : /\ slots[i] \in {Embd!Hole, i}
                             /\ Embd!Clean' => slots[i] = i \/ Embd!Unacceptable(i)

AlignedAlone(slots) ==
  /\ slots \in Seq(Nat) /\ Len(slots) <= Len(Embd!Chunk)
  /\ \A i \in DOMAIN slots : /\ slots[i] \in {Embd!Hole, Embd!Chunk[i]}
                             /\ Embd!Clean' => slots[i] = Embd!Chunk[i] \/ Embd!Unacceptable(Embd!Chunk[i])

\* What a running call has filled so far.
LEMMA StillAligned ==
  ASSUME Steady
  PROVE  Aligned(v6) /\ AlignedAlone(v7) /\ ChunkIs(Len(Embd!Chunk))
<1>1. ChunkIs(Len(Embd!Chunk))
  BY ChunkFacts DEF Steady
<1>2. Aligned(v6)
  BY DEF Steady, Embd!EmbedInv, Embd!EmbedTyped, Embd!SlotsAligned, Embd!RequestOK, Aligned
<1>3. v7 \in Seq(Nat) /\ Len(v7) <= Len(Embd!Chunk)
  <2>1. v7 = <<>> \/ Len(v7) < Len(Embd!Chunk)
    BY DEF Steady, Embd!EmbedInv, Embd!RequestOK
  <2>2. v7 \in Seq(Nat)
    BY DEF Steady, Embd!EmbedInv, Embd!EmbedTyped
  <2> QED BY <1>1, <2>1, <2>2 DEF ChunkIs
<1>4. AlignedAlone(v7)
  BY <1>3 DEF Steady, Embd!EmbedInv, Embd!SlotsAligned, Embd!RequestOK, AlignedAlone
<1> QED BY <1>1, <1>2, <1>4

\* The job is the same before and after.
LEMMA SameJob ==
  ASSUME v1' = v1
  PROVE  /\ Embd!texts' = Embd!texts /\ Embd!ChunkSize' = Embd!ChunkSize /\ Embd!DeadOnes' = Embd!DeadOnes
<1>1. Embd!texts' = Embd!texts /\ Embd!ChunkSize' = Embd!ChunkSize
  BY DEF Embd!texts, Embd!ChunkSize
<1>2. Embd!DeadOnes' = Embd!DeadOnes
  BY DEF Embd!DeadOnes, Embd!ChunkOf, Embd!ChunkSize, Embd!texts, Embd!Unacceptable
<1> QED BY <1>1, <1>2

\* A step that ends the call keeps the invariant.
LEMMA EndsWell ==
  ASSUME Steady, v2' \in {"done", "threw"}, v3' \in {"batch", "alone"}, v4' \in Nat,
         v6' \in Seq(Nat), v7' \in Seq(Nat),
         \A i \in DOMAIN v6' : v6'[i] \in {Embd!Hole, i},
         v7' # <<>> => v7' = v7 /\ v6' = v6,
         v2' = "done" => Len(v6') = Len(Embd!texts),
         Embd!Clean' => \A t \in DOMAIN Embd!texts :
                     Spared(t) \/ (IF v2' = "done" THEN v6'[t] = t ELSE ~v1.sizedFor)
  PROVE  Embd!EmbedInv'
<1>1. v1' = v1 /\ v9' \in FaultsTyped /\ Embd!EmbedInv
  BY DEF Steady
<1>2. Embd!EmbedTyped'
  BY <1>1 DEF Embd!EmbedInv, Embd!EmbedTyped, FaultsTyped, Embd!Jobs
<1>3. \A i \in DOMAIN v7' : v7'[i] \in {Embd!Hole, Embd!Chunk'[i]}
  <2>1. CASE v7' = <<>>
    BY <2>1
  <2>2. CASE v7' # <<>>
    <3>1. Embd!Chunk' = Embd!Chunk
      BY <1>1, <2>2 DEF Embd!Chunk, Embd!ChunkSize, Embd!texts
    <3> QED BY <1>1, <2>2, <3>1 DEF Embd!EmbedInv, Embd!SlotsAligned
  <2> QED BY <2>1, <2>2
<1>4. Embd!SlotsAligned'
  BY <1>1, <1>3, SameJob DEF Embd!SlotsAligned, Embd!Hole
<1>5. Embd!SiblingsKept'
  <2>1. SUFFICES ASSUME Embd!Clean', NEW t \in DOMAIN Embd!texts
                 PROVE  \/ Embd!Unacceptable(t)' \/ \E k \in Embd!DeadOnes' : k < Embd!ChunkOf(t)'
                        \/ (IF v2' = "done" THEN v6'[t] = t ELSE ~v1'.sizedFor)
    BY <1>1, SameJob DEF Embd!SiblingsKept, Embd!Clean
  <2>2. Embd!ChunkOf(t)' = Embd!ChunkOf(t)
    BY <1>1 DEF Embd!ChunkOf, Embd!ChunkSize, Embd!texts
  <2>3. Embd!Unacceptable(t)' = Embd!Unacceptable(t)
    BY <1>1 DEF Embd!Unacceptable, Embd!texts
  <2>4. Spared(t) \/ (IF v2' = "done" THEN v6'[t] = t ELSE ~v1'.sizedFor)
    BY <1>1, <2>1
  <2> QED BY <1>1, <2>2, <2>3, <2>4, SameJob DEF Spared
<1>6. Embd!RequestOK'
  BY DEF Embd!RequestOK, Embd!Running
<1> QED BY <1>2, <1>4, <1>5, <1>6 DEF Embd!EmbedInv

\* A step after which the call still runs keeps the invariant.
LEMMA RunsWell ==
  ASSUME Steady, Embd!Running', v3' \in {"batch", "alone"}, v4' \in Nat,
         Aligned(v6'), v7' = <<>> \/ (AlignedAlone(v7') /\ v6' = v6),
         Len(v6') < Len(Embd!texts), \E k \in 0..Len(v6') : Len(v6') = k * Embd!ChunkSize,
         IF v3' = "batch" THEN v7' = <<>>
         ELSE v6' = v6 /\ Len(v7') < Len(Embd!Chunk),
         v8' \/ v6' = <<>>,
         Embd!Clean' => v4' <= v9'.blips + (IF v2' = "waiting" THEN 0 ELSE 1)
  PROVE  Embd!EmbedInv'
<1>1. v1' = v1 /\ v9' \in FaultsTyped /\ Embd!EmbedInv
  BY DEF Steady
<1>2. Embd!EmbedTyped'
  <2>1. v7' \in Seq(Nat)
    <3>1. CASE v7' = <<>>
      BY <3>1
    <3>2. CASE AlignedAlone(v7')
      BY <3>2 DEF AlignedAlone
    <3> QED BY <3>1, <3>2
  <2>2. v6' \in Seq(Nat) /\ v2' \in {"ready", "flight", "reading", "waiting", "done", "threw"}
    BY DEF Aligned, Embd!Running
  <2>3. v1' \in Embd!Jobs
    BY <1>1 DEF Embd!EmbedInv, Embd!EmbedTyped
  <2> QED BY <1>1, <2>1, <2>2, <2>3 DEF Embd!EmbedTyped, FaultsTyped, Embd!Jobs
<1>3. v7' # <<>> \/ v3' # "batch" => Embd!Chunk' = Embd!Chunk
  BY <1>1 DEF Embd!Chunk, Embd!ChunkSize, Embd!texts
<1>4. \A i \in DOMAIN v7' : v7'[i] \in {Embd!Hole, Embd!Chunk'[i]}
  <2>1. CASE v7' = <<>>
    BY <2>1
  <2>2. CASE v7' # <<>>
    BY <1>3, <2>2 DEF AlignedAlone
  <2> QED BY <2>1, <2>2
<1>5. Embd!SlotsAligned'
  BY <1>4 DEF Embd!SlotsAligned, Embd!Hole, Aligned, Embd!Running
<1>6. Embd!SiblingsKept'
  BY DEF Embd!SiblingsKept, Embd!Running
<1>7. \A i : Embd!Unacceptable(i)' = Embd!Unacceptable(i)
  BY <1>1 DEF Embd!Unacceptable, Embd!texts
<1>8. ASSUME Embd!Clean', NEW i \in DOMAIN v6' PROVE v6'[i] = i \/ Embd!Unacceptable(i)'
  BY <1>7, <1>8 DEF Aligned
<1>9. ASSUME Embd!Clean', NEW i \in DOMAIN v7'
      PROVE  v7'[i] = Embd!Chunk'[i] \/ Embd!Unacceptable(Embd!Chunk[i])'
  <2>1. v7' # <<>>
    BY <1>9
  <2>2. Embd!Chunk' = Embd!Chunk /\ AlignedAlone(v7')
    BY <1>3, <2>1
  <2>3. v7'[i] = Embd!Chunk[i] \/ Embd!Unacceptable(Embd!Chunk[i])
    BY <1>9, <2>2 DEF AlignedAlone
  <2> QED BY <1>1, <2>2, <2>3 DEF Embd!Unacceptable, Embd!texts
<1>10. IF v3' = "batch" THEN v7' = <<>> ELSE Len(v7') < Len(Embd!Chunk')
  BY <1>3
<1>11. Embd!RequestOK'
  BY <1>1, <1>8, <1>9, <1>10, SameJob DEF Embd!RequestOK
<1> QED BY <1>2, <1>5, <1>6, <1>11 DEF Embd!EmbedInv

\* Slots with the next chunk's after them.
LEMMA ContinueKeeps ==
  ASSUME Steady, NEW slots \in Seq(Nat), Aligned(slots), Len(slots) = Len(v6) + Len(Embd!Chunk),
         Embd!Continue(slots), v8' = TRUE
  PROVE  Embd!EmbedInv'
<1>1. ChunkIs(Len(Embd!Chunk)) /\ Embd!EmbedInv /\ v1' = v1 /\ v9' \in FaultsTyped
  BY StillAligned DEF Steady
<1>2. Len(Embd!texts) \in Nat /\ DOMAIN Embd!texts = 1..Len(Embd!texts) /\ Embd!ChunkSize \in Int
      /\ (Len(Embd!texts) > 0 => Embd!ChunkSize > 0)
  BY <1>1, TextsTyped
<1>3. v3 \in {"batch", "alone"} /\ v4 \in Nat
  BY <1>1 DEF Embd!EmbedInv, Embd!EmbedTyped
<1>4. CASE Len(slots) = Len(Embd!texts)
  <2>1. /\ v6' = slots /\ v7' = <<>> /\ v3' = v3 /\ v4' = v4
        /\ v2' \in {"done", "threw"} /\ (v2' = "threw" => ~v1.sizedFor)
    BY <1>4 DEF Embd!Continue, Embd!Return
  <2>2. DOMAIN slots = DOMAIN Embd!texts
    <3>1. DOMAIN slots = 1..Len(slots)
      OBVIOUS
    <3> QED BY <1>2, <1>4, <3>1, Zenon
  <2>3. ASSUME Embd!Clean', NEW t \in DOMAIN Embd!texts
        PROVE  Spared(t) \/ (IF v2' = "done" THEN v6'[t] = t ELSE ~v1.sizedFor)
    BY <2>1, <2>2, <2>3 DEF Aligned, Spared
  <2>4. /\ v6' \in Seq(Nat) /\ v7' \in Seq(Nat) /\ Len(v6') = Len(Embd!texts)
        /\ \A i \in DOMAIN v6' : v6'[i] \in {Embd!Hole, i}
    BY <1>4, <2>1 DEF Aligned
  <2> QED BY <1>3, <2>1, <2>3, <2>4, EndsWell
<1>5. CASE Len(slots) # Len(Embd!texts)
  <2>1. /\ v2' = "ready" /\ v4' = 1 /\ v3' = "batch" /\ v7' = <<>> /\ v6' = slots
    BY <1>5 DEF Embd!Continue, Embd!NextRequest
  <2>2. Len(slots) < Len(Embd!texts) /\ Len(Embd!Chunk) = Embd!ChunkSize
    <3> DEFINE L == Len(Embd!texts)
               o == Len(v6)
               m == Len(Embd!Chunk)
    <3>1. L \in Nat /\ o \in Nat /\ m \in Nat /\ Len(slots) = o + m /\ o + m <= L
          /\ (m = Embd!ChunkSize \/ o + m = L) /\ Len(slots) # L
      BY <1>1, <1>2, <1>5, Zenon DEF ChunkIs
    <3> HIDE DEF L, o, m
    <3>2. Len(slots) < L /\ m = Embd!ChunkSize
      BY <3>1
    <3> QED BY <3>2, Zenon DEF L, m
  <2>3. \E k \in 0..Len(slots) : Len(slots) = k * Embd!ChunkSize
    <3>1. PICK k \in 0..Len(v6) : Len(v6) = k * Embd!ChunkSize
      BY <1>1 DEF Steady, Embd!EmbedInv, Embd!RequestOK
    <3> DEFINE S == Embd!ChunkSize
               o == Len(v6)
    <3>2. S \in Nat /\ S > 0 /\ o \in Nat /\ k \in 0..o /\ o = k * S /\ Len(slots) = o + S
      BY <1>1, <1>2, <2>2, <3>1 DEF ChunkIs
    <3> HIDE DEF S, o
    <3>3. o + S = (k + 1) * S /\ k + 1 \in 0..(o + S)
      BY <3>2
    <3> QED BY <3>2, <3>3 DEF S
  <2>4. Embd!Running'
    BY <2>1 DEF Embd!Running
  <2>5. Embd!Clean' => v4' <= v9'.blips + (IF v2' = "waiting" THEN 0 ELSE 1)
    BY <1>1, <2>1 DEF FaultsTyped
  <2>6. Aligned(v6') /\ Len(v6') < Len(Embd!texts)
        /\ \E k \in 0..Len(v6') : Len(v6') = k * Embd!ChunkSize
    BY <2>1, <2>2, <2>3
  <2> QED BY <2>1, <2>4, <2>5, <2>6, RunsWell
<1> QED BY <1>4, <1>5

\* A chunk of which nothing can be embedded.
LEMMA DeadChunkKeeps ==
  ASSUME Steady, Embd!DeadChunk,
         Embd!Clean' => \A i \in DOMAIN Embd!Chunk : Embd!Unacceptable(Embd!Chunk[i])
  PROVE  Embd!EmbedInv'
<1>1. ChunkIs(Len(Embd!Chunk)) /\ Aligned(v6) /\ Embd!EmbedInv /\ Embd!Running
  BY StillAligned DEF Steady
<1>2. Len(Embd!texts) \in Nat /\ DOMAIN Embd!texts = 1..Len(Embd!texts)
  BY <1>1, TextsTyped
<1>3. v3 \in {"batch", "alone"} /\ v4 \in Nat /\ v7 \in Seq(Nat) /\ v6 \in Seq(Nat)
  BY <1>1 DEF Embd!EmbedInv, Embd!EmbedTyped
<1>4. ASSUME Embd!Clean', NEW t \in DOMAIN Embd!texts, t > Len(v6) PROVE Spared(t)
  BY <1>1, <1>4, DeadChunkSpares
<1>5. CASE ~v8
  <2>1. v2' = "threw" /\ UNCHANGED <<v3, v4, v7, v6, v8>>
    BY <1>5 DEF Embd!DeadChunk, Embd!Throw
  <2>2. v6 = <<>>
    BY <1>1, <1>5 DEF Embd!EmbedInv, Embd!RequestOK
  <2>3. ASSUME Embd!Clean', NEW t \in DOMAIN Embd!texts PROVE Spared(t)
    BY <1>2, <1>4, <2>2, <2>3
  <2> QED BY <1>1, <1>3, <2>1, <2>3, EndsWell DEF Aligned
<1>6. CASE v8
  <2> DEFINE slots == [i \in DOMAIN Embd!texts |-> IF i <= Len(v6) THEN v6[i] ELSE Embd!Hole]
  <2>1. /\ v6' = slots /\ v7' = <<>> /\ v3' = v3 /\ v4' = v4
        /\ v2' \in {"done", "threw"} /\ (v2' = "threw" => ~v1.sizedFor)
    BY <1>6 DEF Embd!DeadChunk, Embd!Return
  <2>2. \A i \in 1..Len(Embd!texts) : i <= Len(v6) => i \in DOMAIN v6 /\ v6[i] \in Nat
    BY <1>2, <1>3
  <2>3. slots \in Seq(Nat) /\ Len(slots) = Len(Embd!texts) /\ DOMAIN slots = DOMAIN Embd!texts
    BY <1>2, <2>2 DEF Embd!Hole
  <2>4. \A i \in DOMAIN Embd!texts : slots[i] = IF i <= Len(v6) THEN v6[i] ELSE Embd!Hole
    OBVIOUS
  <2> HIDE DEF slots
  <2>5. \A i \in DOMAIN slots : slots[i] \in {Embd!Hole, i}
    BY <1>1, <1>2, <2>2, <2>3, <2>4 DEF Aligned
  <2>6. ASSUME Embd!Clean', NEW t \in DOMAIN Embd!texts
        PROVE  Spared(t) \/ (IF v2' = "done" THEN v6'[t] = t ELSE ~v1.sizedFor)
    <3>1. CASE t > Len(v6)
      BY <1>4, <2>6, <3>1
    <3>2. CASE ~(t > Len(v6))
      <4>1. t \in DOMAIN v6 /\ v6'[t] = v6[t]
        <5>1. t \in 1..Len(Embd!texts) /\ Len(v6) \in Nat
          BY <1>1, <1>2, <2>6, Zenon DEF ChunkIs
        <5>2. t <= Len(v6)
          BY <3>2, <5>1
        <5> QED BY <2>1, <2>2, <2>4, <2>6, <5>1, <5>2
      <4>2. v6[t] = t \/ Embd!Unacceptable(t)
        BY <1>1, <2>6, <4>1 DEF Aligned
      <4> QED BY <2>1, <4>1, <4>2 DEF Spared
    <3> QED BY <3>1, <3>2
  <2>7. v7' \in Seq(Nat)
    BY <2>1
  <2> QED BY <1>3, <2>1, <2>3, <2>5, <2>6, <2>7, EndsWell
<1> QED BY <1>5, <1>6

\* The texts of the request.
LEMMA AskedIs ==
  ASSUME Embd!EmbedInv, Embd!Running
  PROVE  /\ Embd!Asked \in Seq(Nat) /\ Embd!Asked # <<>>
         /\ v3 = "batch" => Embd!Asked = Embd!Chunk /\ v7 = <<>>
         /\ v3 # "batch" =>
              /\ v3 = "alone" /\ Len(v7) + 1 \in DOMAIN Embd!Chunk
              /\ Embd!Asked = <<Embd!Chunk[Len(v7) + 1]>>
<1>1. ChunkIs(Len(Embd!Chunk))
  BY ChunkFacts
<1>2. CASE v3 = "batch"
  <2>1. Embd!Asked = Embd!Chunk /\ v7 = <<>>
    BY <1>2 DEF Embd!Asked, Embd!EmbedInv, Embd!RequestOK
  <2>2. Embd!Chunk \in Seq(Nat) /\ Embd!Chunk # <<>>
    BY <1>1 DEF ChunkIs
  <2> QED BY <1>2, <2>1, <2>2
<1>3. CASE v3 # "batch"
  <2>1. v3 = "alone" /\ v7 \in Seq(Nat) /\ Len(v7) < Len(Embd!Chunk)
    BY <1>3 DEF Embd!EmbedInv, Embd!EmbedTyped, Embd!RequestOK
  <2>2. Len(v7) + 1 \in DOMAIN Embd!Chunk
    BY <1>1, <2>1 DEF ChunkIs
  <2>3. Embd!Chunk[Len(v7) + 1] \in Nat
    BY <1>1, <2>2 DEF ChunkIs
  <2>4. Embd!Asked = <<Embd!Chunk[Len(v7) + 1]>>
    BY <1>3 DEF Embd!Asked
  <2>5. Embd!Asked \in Seq(Nat) /\ Embd!Asked # <<>>
    BY <2>3, <2>4
  <2> QED BY <1>3, <2>1, <2>2, <2>4, <2>5
<1> QED BY <1>2, <1>3

\* The slot of a text sent alone.
LEMMA LoneSlotKeeps ==
  ASSUME Steady, v3 = "alone", NEW slot \in {Embd!Hole, Embd!Chunk[Len(v7) + 1]},
         Embd!Clean' => slot = Embd!Chunk[Len(v7) + 1] \/ Embd!Unacceptable(Embd!Chunk[Len(v7) + 1]),
         Embd!LoneSlot(slot)
  PROVE  Embd!EmbedInv'
<1> DEFINE slots == Append(v7, slot)
           n == Len(v7)
           m == Len(Embd!Chunk)
<1>1. ChunkIs(m) /\ Aligned(v6) /\ AlignedAlone(v7) /\ Embd!EmbedInv /\ Embd!Running
      /\ v1' = v1 /\ v9' \in FaultsTyped
  BY StillAligned DEF Steady
<1>2. n + 1 \in DOMAIN Embd!Chunk /\ v7 \in Seq(Nat) /\ n \in Nat /\ DOMAIN v7 = 1..n
  BY <1>1, AskedIs DEF Embd!EmbedInv, Embd!EmbedTyped
<1>3. slot \in Nat
  BY <1>1, <1>2 DEF ChunkIs, Embd!Hole
<1>4. /\ slots \in Seq(Nat) /\ Len(slots) = n + 1 /\ DOMAIN slots = 1..(n + 1)
      /\ \A i \in 1..n : slots[i] = v7[i] /\ slots[n + 1] = slot
      /\ slots[n + 1] = slot
  BY <1>2, <1>3
<1> HIDE DEF slots
<1>5. ASSUME NEW i \in DOMAIN slots
      PROVE  /\ slots[i] \in {Embd!Hole, Embd!Chunk[i]}
             /\ Embd!Clean' => slots[i] = Embd!Chunk[i] \/ Embd!Unacceptable(Embd!Chunk[i])
  <2>1. CASE i = n + 1
    BY <1>4, <2>1
  <2>2. CASE i # n + 1
    <3>1. i \in DOMAIN v7 /\ slots[i] = v7[i]
      BY <1>2, <1>4, <2>2
    <3> QED BY <1>1, <3>1 DEF AlignedAlone
  <2> QED BY <2>1, <2>2
<1>6. n + 1 <= m /\ m \in Nat /\ DOMAIN Embd!Chunk = 1..m
  BY <1>1, <1>2 DEF ChunkIs
<1>7. AlignedAlone(slots)
  BY <1>4, <1>5, <1>6 DEF AlignedAlone
<1>8. CASE Len(slots) < Len(Embd!Chunk)
  <2>1. /\ v2' = "ready" /\ v4' = 1 /\ v7' = slots
        /\ UNCHANGED <<v3, v6, v8>>
    BY <1>8 DEF Embd!LoneSlot, Embd!NextRequest, slots
  <2>2. Embd!Running' /\ v3' = "alone"
    BY <2>1 DEF Embd!Running
  <2>3. Embd!Clean' => v4' <= v9'.blips + (IF v2' = "waiting" THEN 0 ELSE 1)
    BY <1>1, <2>1 DEF FaultsTyped
  <2>4. /\ Len(v6) < Len(Embd!texts) /\ \E k \in 0..Len(v6) : Len(v6) = k * Embd!ChunkSize
        /\ v8 \/ v6 = <<>>
    BY <1>1 DEF Embd!EmbedInv, Embd!RequestOK
  <2>5. /\ Aligned(v6') /\ AlignedAlone(v7') /\ v6' = v6 /\ Len(v7') < Len(Embd!Chunk)
    BY <1>1, <1>7, <1>8, <2>1
  <2>6. /\ Len(v6') < Len(Embd!texts) /\ \E k \in 0..Len(v6') : Len(v6') = k * Embd!ChunkSize
        /\ v8' \/ v6' = <<>>
    BY <2>1, <2>4
  <2>7. v4' \in Nat /\ v3' \in {"batch", "alone"} /\ v3' # "batch"
    BY <2>1, <2>2
  <2> QED BY <2>2, <2>3, <2>5, <2>6, <2>7, RunsWell
<1>9. CASE ~(Len(slots) < Len(Embd!Chunk))
  <2>0. DOMAIN slots = DOMAIN Embd!Chunk /\ Len(slots) = m
    <3>1. n + 1 \in Nat /\ n + 1 <= m /\ ~(n + 1 < m)
      BY <1>2, <1>4, <1>6, <1>9
    <3> HIDE DEF n, m
    <3>2. n + 1 = m
      BY <1>6, <3>1
    <3> QED BY <1>4, <1>6, <3>2 DEF m
  <2>1. CASE \E i \in DOMAIN slots : slots[i] # Embd!Hole
    <3>1. Embd!Continue(v6 \o slots) /\ v8' = TRUE
      BY <1>9, <2>1 DEF Embd!LoneSlot, slots
    <3>2. v6 \in Seq(Nat) /\ DOMAIN v6 = 1..Len(v6) /\ Len(v6) \in Nat
      BY <1>1 DEF Aligned
    <3> HIDE DEF m, n
    <3>3. v6 \o slots \in Seq(Nat) /\ Len(v6 \o slots) = Len(v6) + m
      BY <1>4, <2>0, <3>2, Joined
    <3>4. ASSUME NEW i \in DOMAIN (v6 \o slots)
          PROVE  /\ (v6 \o slots)[i] \in {Embd!Hole, i}
                 /\ Embd!Clean' => (v6 \o slots)[i] = i \/ Embd!Unacceptable(i)
      <4>1. i \in 1..(Len(v6) + m)
        BY <3>3
      <4>2. CASE i <= Len(v6)
        <5>1. i \in DOMAIN v6 /\ (v6 \o slots)[i] = v6[i]
          BY <1>4, <2>0, <3>2, <4>1, <4>2, Joined
        <5> QED BY <1>1, <5>1 DEF Aligned
      <4>3. CASE ~(i <= Len(v6))
        <5>1. i - Len(v6) \in 1..m
          BY <1>6, <3>2, <4>1, <4>3
        <5>2. (v6 \o slots)[i] = slots[i - Len(v6)]
          BY <1>4, <2>0, <3>2, <4>1, <4>3, Joined
        <5>3. Embd!Chunk[i - Len(v6)] = i
          BY <1>1, <3>2, <4>1, <5>1 DEF ChunkIs
        <5> QED BY <1>5, <1>6, <2>0, <5>1, <5>2, <5>3
      <4> QED BY <4>2, <4>3
    <3>5. Aligned(v6 \o slots)
      BY <3>3, <3>4 DEF Aligned
    <3> QED BY <3>1, <3>3, <3>5, ContinueKeeps DEF m
  <2>2. CASE ~(\E i \in DOMAIN slots : slots[i] # Embd!Hole)
    <3>1. Embd!DeadChunk
      BY <1>9, <2>2 DEF Embd!LoneSlot, slots
    <3>2. ASSUME Embd!Clean', NEW i \in DOMAIN Embd!Chunk PROVE Embd!Unacceptable(Embd!Chunk[i])
      <4>1. Embd!Chunk[i] # Embd!Hole /\ slots[i] = Embd!Hole
        BY <1>1, <2>0, <2>2 DEF ChunkIs, Embd!Hole
      <4> QED BY <1>5, <2>0, <3>2, <4>1
    <3> QED BY <3>1, <3>2, DeadChunkKeeps
  <2> QED BY <2>1, <2>2
<1> QED BY <1>8, <1>9

\* The request failed for good: a text of it is one the service cannot embed, or the
\* service failed.
LEMMA FailedKeeps ==
  ASSUME Steady, Embd!Clean' => \E i \in DOMAIN Embd!Asked : Embd!Unacceptable(Embd!Asked[i]),
         NEW isolatable \in BOOLEAN, isolatable \/ ~Embd!Clean', Embd!Failed(isolatable)
  PROVE  Embd!EmbedInv'
<1>1. ChunkIs(Len(Embd!Chunk)) /\ Aligned(v6) /\ AlignedAlone(v7) /\ Embd!EmbedInv /\ Embd!Running
      /\ v1' = v1 /\ v9' \in FaultsTyped
  BY StillAligned DEF Steady
<1>2. CASE v3 # "batch"
  <2>1. v3 = "alone" /\ Embd!Asked = <<Embd!Chunk[Len(v7) + 1]>>
    BY <1>1, <1>2, AskedIs
  <2>2. Embd!Clean' => Embd!Unacceptable(Embd!Chunk[Len(v7) + 1])
    BY <2>1
  <2>3. Embd!LoneSlot(Embd!Hole)
    BY <2>1 DEF Embd!Failed
  <2> QED BY <2>1, <2>2, <2>3, LoneSlotKeeps
<1>3. CASE v3 = "batch" /\ ~isolatable
  <2>1. v2' = "threw" /\ UNCHANGED <<v3, v4, v7, v6, v8>>
    BY <1>3 DEF Embd!Failed, Embd!Throw
  <2>2. v3 \in {"batch", "alone"} /\ v4 \in Nat /\ v7 \in Seq(Nat) /\ v6 \in Seq(Nat)
    BY <1>1 DEF Embd!EmbedInv, Embd!EmbedTyped
  <2> QED BY <1>1, <1>3, <2>1, <2>2, EndsWell DEF Aligned
<1>4. CASE v3 = "batch" /\ isolatable
  <2>1. Embd!ChunkFailed /\ Embd!Asked = Embd!Chunk /\ v7 = <<>>
    BY <1>1, <1>4, AskedIs DEF Embd!Failed
  <2>2. CASE Len(Embd!Chunk) = 1
    <3>1. Embd!DeadChunk
      BY <2>1, <2>2 DEF Embd!ChunkFailed
    <3>2. DOMAIN Embd!Chunk = {1}
      BY <1>1, <2>2 DEF ChunkIs
    <3>3. Embd!Clean' => \A i \in DOMAIN Embd!Chunk : Embd!Unacceptable(Embd!Chunk[i])
      BY <2>1, <3>2
    <3> QED BY <3>1, <3>3, DeadChunkKeeps
  <2>3. CASE Len(Embd!Chunk) # 1
    <3>1. /\ v2' = "ready" /\ v4' = 1 /\ v3' = "alone" /\ v7' = <<>>
          /\ UNCHANGED <<v6, v8>>
      BY <2>1, <2>3 DEF Embd!ChunkFailed, Embd!NextRequest
    <3>2. Embd!Running'
      BY <3>1 DEF Embd!Running
    <3>3. Embd!Clean' => v4' <= v9'.blips + (IF v2' = "waiting" THEN 0 ELSE 1)
      BY <1>1, <3>1 DEF FaultsTyped
    <3>4. /\ Len(v6) < Len(Embd!texts) /\ \E k \in 0..Len(v6) : Len(v6) = k * Embd!ChunkSize
          /\ v8 \/ v6 = <<>>
      BY <1>1 DEF Embd!EmbedInv, Embd!RequestOK
    <3>5. Aligned(v6') /\ v7' = <<>> /\ v6' = v6 /\ Len(v7') < Len(Embd!Chunk)
      <4>1. Len(v7') = 0
        BY <3>1
      <4> QED BY <1>1, <3>1, <4>1 DEF ChunkIs
    <3>6. /\ Len(v6') < Len(Embd!texts) /\ \E k \in 0..Len(v6') : Len(v6') = k * Embd!ChunkSize
          /\ v8' \/ v6' = <<>>
      BY <3>1, <3>4
    <3>7. v4' \in Nat /\ v3' \in {"batch", "alone"} /\ v3' # "batch"
      BY <3>1
    <3> QED BY <3>2, <3>3, <3>5, <3>6, <3>7, RunsWell
  <2> QED BY <2>2, <2>3
<1> QED BY <1>2, <1>3, <1>4

\* The request's vectors came.
LEMMA EmbeddedKeeps ==
  ASSUME Steady, NEW data, ReadAs(data, Len(Embd!Asked), Embd!Asked), Embd!Embedded(Embd!Restored(data))
  PROVE  Embd!EmbedInv'
<1> DEFINE vectors == Embd!Restored(data)
           m == Len(Embd!Chunk)
<1>1. ChunkIs(m) /\ Aligned(v6) /\ Embd!EmbedInv /\ Embd!Running
  BY StillAligned DEF Steady
<1>2. CASE v3 # "batch"
  <2>1. v3 = "alone" /\ Embd!Asked = <<Embd!Chunk[Len(v7) + 1]>>
    BY <1>1, <1>2, AskedIs
  <2>2. Len(Embd!Asked) = 1 /\ Embd!Asked[1] = Embd!Chunk[Len(v7) + 1]
    BY <2>1
  <2>3. vectors[1] = Embd!Chunk[Len(v7) + 1]
    BY <2>2 DEF ReadAs
  <2>4. Embd!LoneSlot(Embd!Chunk[Len(v7) + 1])
    BY <2>1, <2>3 DEF Embd!Embedded
  <2> QED BY <2>1, <2>4, LoneSlotKeeps
<1>3. CASE v3 = "batch"
  <2>1. Embd!Asked = Embd!Chunk
    BY <1>1, <1>3, AskedIs
  <2>2. DOMAIN vectors = 1..m /\ m \in Nat /\ DOMAIN Embd!Chunk = 1..m
        /\ \A k \in 1..m : vectors[k] = Embd!Chunk[k] /\ Embd!Chunk[k] \in Nat
    BY <1>1, <2>1 DEF ReadAs, ChunkIs
  <2>3. vectors = [k \in 1..m |-> vectors[k]]
    BY <2>2 DEF Embd!Restored
  <2> HIDE DEF vectors, m
  <2>4. vectors \in Seq(Nat) /\ Len(vectors) = m
    BY <2>2, <2>3
  <2>5. Embd!Continue(v6 \o vectors) /\ v8' = TRUE
    BY <1>3 DEF Embd!Embedded, vectors
  <2>6. v6 \in Seq(Nat) /\ Len(v6) \in Nat /\ DOMAIN v6 = 1..Len(v6)
    BY <1>1 DEF Aligned
  <2>7. v6 \o vectors \in Seq(Nat) /\ Len(v6 \o vectors) = Len(v6) + m
    BY <2>4, <2>6, Joined
  <2>8. ASSUME NEW i \in DOMAIN (v6 \o vectors)
        PROVE  /\ (v6 \o vectors)[i] \in {Embd!Hole, i}
               /\ Embd!Clean' => (v6 \o vectors)[i] = i \/ Embd!Unacceptable(i)
    <3>1. i \in 1..(Len(v6) + m)
      BY <2>7
    <3>2. CASE i <= Len(v6)
      <4>1. i \in DOMAIN v6 /\ (v6 \o vectors)[i] = v6[i]
        BY <2>2, <2>4, <2>6, <3>1, <3>2, Joined
      <4> QED BY <1>1, <4>1 DEF Aligned
    <3>3. CASE ~(i <= Len(v6))
      <4>1. i - Len(v6) \in 1..m /\ Len(v6) + (i - Len(v6)) = i
        BY <2>2, <2>6, <3>1, <3>3
      <4>2. (v6 \o vectors)[i] = vectors[i - Len(v6)]
        BY <2>2, <2>4, <2>6, <3>1, <3>3, Joined
      <4>3. Embd!Chunk[i - Len(v6)] = i
        BY <1>1, <4>1 DEF ChunkIs, m
      <4> QED BY <2>2, <4>1, <4>2, <4>3
    <3> QED BY <3>2, <3>3
  <2>9. Aligned(v6 \o vectors)
    BY <2>7, <2>8 DEF Aligned
  <2> QED BY <2>5, <2>7, <2>9, ContinueKeeps DEF m
<1> QED BY <1>2, <1>3

\* A step of the request that leaves the slots alone.
LEMMA RequestKeeps ==
  ASSUME Steady, Embd!Running', v4' \in Nat, UNCHANGED <<v3, v7, v6, v8>>,
         Embd!Clean' => v4' <= v9'.blips + (IF v2' = "waiting" THEN 0 ELSE 1)
  PROVE  Embd!EmbedInv'
<1>1. ChunkIs(Len(Embd!Chunk)) /\ Aligned(v6) /\ AlignedAlone(v7) /\ Embd!EmbedInv /\ Embd!Running
  BY StillAligned DEF Steady
<1>2. /\ v3 \in {"batch", "alone"} /\ (v8 \/ v6 = <<>>)
      /\ Len(v6) < Len(Embd!texts) /\ \E k \in 0..Len(v6) : Len(v6) = k * Embd!ChunkSize
      /\ IF v3 = "batch" THEN v7 = <<>> ELSE Len(v7) < Len(Embd!Chunk)
  BY <1>1 DEF Embd!EmbedInv, Embd!EmbedTyped, Embd!RequestOK
<1>3. Aligned(v6') /\ AlignedAlone(v7')
  BY <1>1
<1> QED BY <1>2, <1>3, RunsWell

LEMMA EmbedStarts == Embd!Init => Embd!EmbedInv
<1> SUFFICES ASSUME Embd!Init PROVE Embd!EmbedInv
  OBVIOUS
<1>1. /\ v1 \in Embd!Jobs /\ v3 = "batch" /\ v4 = 1
      /\ v6 = <<>> /\ v7 = <<>> /\ v8 = FALSE
      /\ v9 = [blips |-> 0, wreck |-> FALSE]
      /\ v2 = IF Embd!texts = <<>> THEN "done" ELSE "ready"
  BY DEF Embd!Init
<1>2. PICK n \in 0..MaxTexts : Embd!texts \in [1..n -> {"plain", "long", "poison"}]
  BY <1>1 DEF Embd!Jobs, Embd!texts
<1>3. n \in Nat
  BY <1>2, DeskAssumption DEF Embd!EmbedCallConstants
<1>4. Embd!texts \in Seq({"plain", "long", "poison"}) /\ Len(Embd!texts) = n /\ DOMAIN Embd!texts = 1..n
  BY <1>2, <1>3
<1>5. <<>> \in Seq(Nat) /\ Len(v6) = 0
  BY <1>1
<1>6. v9 \in FaultsTyped /\ v9.blips = 0
  BY <1>1 DEF FaultsTyped
<1>7. Embd!EmbedTyped
  BY <1>1, <1>5, <1>6 DEF Embd!EmbedTyped, FaultsTyped
<1>8. CASE Embd!texts = <<>>
  <2>1. n = 0 /\ v2 = "done"
    BY <1>1, <1>4, <1>8
  <2> QED BY <1>1, <1>4, <1>5, <1>7, <2>1
          DEF Embd!EmbedInv, Embd!SlotsAligned, Embd!SiblingsKept, Embd!RequestOK, Embd!Running
<1>9. CASE Embd!texts # <<>>
  <2>1. n > 0 /\ v2 = "ready"
    BY <1>1, <1>3, <1>4, <1>9
  <2>2. v1.batch \in Int
    BY <1>1, DeskAssumption DEF Embd!Jobs, Embd!EmbedCallConstants
  <2>3. Embd!ChunkSize \in Int
    BY <1>3, <1>4, <2>2 DEF Embd!ChunkSize
  <2>4. \E k \in 0..0 : 0 = k * Embd!ChunkSize
    <3>1. 0 \in 0..0 /\ 0 = 0 * Embd!ChunkSize
      BY <2>3
    <3> QED BY <3>1
  <2>5. Embd!RequestOK
    BY <1>1, <1>3, <1>4, <1>5, <1>6, <2>1, <2>4 DEF Embd!RequestOK
  <2> QED BY <1>1, <1>7, <2>1, <2>5 DEF Embd!EmbedInv, Embd!SlotsAligned, Embd!SiblingsKept
<1> QED BY <1>8, <1>9

\* An attempt that failed for a reason that may pass, while attempts remain or not.
LEMMA RetryKeeps ==
  ASSUME Embd!EmbedInv, v2 = "flight", v1' = v1, Embd!Blip, Embd!RetryResult \/ Embd!RetryError
  PROVE  Embd!EmbedInv'
<1>1. /\ Embd!Running /\ v4 \in Nat /\ v9 \in FaultsTyped /\ RequestAttempts \in Int
      /\ Embd!Clean => v4 <= v9.blips + 1
  BY DeskAssumption
     DEF Embd!Running, Embd!EmbedInv, Embd!EmbedTyped, FaultsTyped, Embd!RequestOK, Embd!EmbedCallConstants
<1>2. PICK b \in Nat, x \in BOOLEAN : v9.blips = b /\ v9.wreck = x
  BY <1>1 DEF FaultsTyped
<1>3. PICK c \in Nat : c = IF b < RequestAttempts THEN b + 1 ELSE b
  BY <1>2
<1>4. v9' \in FaultsTyped /\ v9'.blips = c /\ v9'.wreck = x
  BY <1>1, <1>2, <1>3 DEF Embd!Blip, FaultsTyped
<1>5. Embd!Clean' => Embd!Clean /\ c = b + 1 /\ c < RequestAttempts
  BY <1>1, <1>2, <1>3, <1>4 DEF Embd!Clean
<1>6. Steady
  BY <1>1, <1>4, <1>5 DEF Steady
<1>7. Embd!Clean' => v4 <= c
  BY <1>1, <1>2, <1>5
<1>8. ASSUME NEW w, Embd!BackOff(w) PROVE Embd!EmbedInv'
  <2>1. /\ v2' = "waiting" /\ v4' = v4
        /\ UNCHANGED <<v3, v7, v6, v8>>
    BY <1>8 DEF Embd!BackOff
  <2>2. Embd!Running'
    BY <2>1 DEF Embd!Running
  <2>3. Embd!Clean' => v4' <= v9'.blips + (IF v2' = "waiting" THEN 0 ELSE 1)
    BY <1>3, <1>4, <1>7, <2>1
  <2> QED BY <1>1, <1>6, <2>1, <2>2, <2>3, RequestKeeps
<1>9. CASE Embd!IsLast /\ Embd!Failed(TRUE)
  <2>1. ~Embd!Clean'
    BY <1>1, <1>3, <1>5, <1>7, <1>9 DEF Embd!IsLast
  <2> QED BY <1>6, <1>9, <2>1, FailedKeeps
<1> QED BY <1>8, <1>9 DEF Embd!RetryResult, Embd!RetryError

\* Every step of an embedder call keeps its invariant.
LEMMA EmbedStep == Embd!EmbedInv /\ Embd!Next => Embd!EmbedInv'
<1> SUFFICES ASSUME Embd!EmbedInv, Embd!Next PROVE Embd!EmbedInv'
  OBVIOUS
<1>1. v9 \in FaultsTyped /\ v4 \in Nat
  BY DEF Embd!EmbedInv, Embd!EmbedTyped, FaultsTyped
<1>2. ASSUME Embd!Running, v1' = v1, v9' = v9 PROVE Steady
  BY <1>1, <1>2 DEF Steady, Embd!Clean
<1>3. ASSUME Embd!Running, Embd!Clean
      PROVE  v4 <= v9.blips + (IF v2 = "waiting" THEN 0 ELSE 1)
  BY <1>3 DEF Embd!EmbedInv, Embd!RequestOK
<1>5. CASE Embd!Send \/ Embd!Headers
  <2>1. /\ Embd!Running /\ Embd!Running' /\ v2 # "waiting" /\ v2' # "waiting"
        /\ v1' = v1 /\ v9' = v9 /\ v4' = v4
        /\ UNCHANGED <<v3, v7, v6, v8>>
    BY <1>5 DEF Embd!Send, Embd!Headers, Embd!request, Embd!Running
  <2>2. Embd!Clean' => v4' <= v9'.blips + (IF v2' = "waiting" THEN 0 ELSE 1)
    BY <1>3, <2>1 DEF Embd!Clean
  <2> QED BY <1>1, <1>2, <2>1, <2>2, RequestKeeps
<1>6. CASE Embd!Answer
  <2>1. Embd!Running /\ v1' = v1 /\ v9' = v9
    BY <1>6 DEF Embd!Answer, Embd!Running
  <2>2. Embd!Asked \in Seq(Nat)
    BY <2>1, AskedIs
  <2>3. PICK data \in Embd!HonestAnswers(Embd!Asked) :
           IF Embd!Malformed(data, Len(Embd!Asked)) THEN Embd!Failed(FALSE)
           ELSE Embd!Embedded(Embd!Restored(data))
    BY <1>6 DEF Embd!Answer
  <2>4. ReadAs(data, Len(Embd!Asked), Embd!Asked)
    BY <2>2, HonestRead
  <2>5. Embd!Embedded(Embd!Restored(data))
    BY <2>3, <2>4 DEF ReadAs
  <2> QED BY <1>2, <2>1, <2>4, <2>5, EmbeddedKeeps
<1>7. CASE Embd!Reject
  <2>1. /\ Embd!Running /\ v1' = v1 /\ v9' = v9 /\ Embd!Failed(TRUE)
        /\ \E i \in DOMAIN Embd!Asked : Embd!Unacceptable(Embd!Asked[i])
    BY <1>7 DEF Embd!Reject, Embd!Running
  <2> QED BY <1>2, <2>1, FailedKeeps
<1>8. CASE Embd!Break
  <2>1. Embd!Running /\ v1' = v1 /\ v9' = [v9 EXCEPT !.wreck = TRUE]
    BY <1>8 DEF Embd!Break, Embd!Running
  <2>2. v9' \in FaultsTyped /\ v9'.wreck = TRUE
    BY <1>1, <2>1 DEF FaultsTyped
  <2>3. ~Embd!Clean'
    BY <2>2 DEF Embd!Clean
  <2>4. Steady
    BY <2>1, <2>2, <2>3 DEF Steady
  <2>5. Embd!Asked \in Seq(Nat) /\ Embd!Asked # <<>>
    BY <2>1, AskedIs
  <2>6. CASE Embd!Failed(TRUE)
    BY <2>3, <2>4, <2>6, FailedKeeps
  <2>7. ASSUME NEW data \in Embd!FaultyAnswers(Embd!Asked),
               IF Embd!Malformed(data, Len(Embd!Asked)) THEN Embd!Failed(FALSE)
               ELSE Embd!Embedded(Embd!Restored(data))
        PROVE  Embd!EmbedInv'
    <3>1. Embd!Failed(FALSE)
      BY <2>5, <2>7, FaultySeen
    <3> QED BY <2>3, <2>4, <3>1, FailedKeeps
  <2> QED BY <1>8, <2>6, <2>7 DEF Embd!Break
<1>9. CASE Embd!Refuse
  BY <1>9, RetryKeeps DEF Embd!Refuse
<1>10. CASE Embd!TimeOut
  BY <1>10, RetryKeeps DEF Embd!TimeOut
<1>11. CASE Embd!Wake
  <2>1. /\ Embd!Running /\ Embd!Running' /\ v2 = "waiting" /\ v2' = "ready"
        /\ v1' = v1 /\ v9' = v9 /\ v4' = v4 + 1
        /\ UNCHANGED <<v3, v7, v6, v8>>
    BY <1>11 DEF Embd!Wake, Embd!Running
  <2>2. v9.blips \in Nat
    BY <1>1 DEF FaultsTyped
  <2>3. Embd!Clean' => v4' <= v9'.blips + (IF v2' = "waiting" THEN 0 ELSE 1)
    BY <1>1, <1>3, <2>1, <2>2 DEF Embd!Clean
  <2> QED BY <1>1, <1>2, <2>1, <2>3, RequestKeeps
<1> QED BY <1>5, <1>6, <1>7, <1>8, <1>9, <1>10, <1>11 DEF Embd!Next

LEMMA EmbedStutters == Embd!EmbedInv /\ UNCHANGED Embd!vars => Embd!EmbedInv'
<1> SUFFICES ASSUME Embd!EmbedInv, UNCHANGED Embd!vars PROVE Embd!EmbedInv'
  OBVIOUS
<1>1. /\ v1' = v1 /\ v2' = v2 /\ v3' = v3 /\ v4' = v4 /\ v6' = v6
      /\ v7' = v7 /\ v8' = v8 /\ v9' = v9
  BY DEF Embd!vars, Embd!request
<1>2. Embd!EmbedTyped'
  BY <1>1 DEF Embd!EmbedInv, Embd!EmbedTyped, Embd!Jobs
<1>3. Embd!Chunk' = Embd!Chunk /\ Embd!texts' = Embd!texts /\ Embd!ChunkSize' = Embd!ChunkSize
  BY <1>1 DEF Embd!Chunk, Embd!ChunkSize, Embd!texts
<1>4. Embd!SlotsAligned'
  BY <1>1, <1>3 DEF Embd!EmbedInv, Embd!SlotsAligned, Embd!Hole
<1>5. Embd!SiblingsKept'
  BY <1>1
     DEF Embd!EmbedInv, Embd!SiblingsKept, Embd!Unacceptable, Embd!DeadOnes, Embd!ChunkOf, Embd!ChunkSize,
         Embd!texts
<1>6. Embd!RequestOK'
  BY <1>1, <1>3 DEF Embd!EmbedInv, Embd!RequestOK, Embd!Running, Embd!Clean, Embd!Unacceptable, Embd!texts
<1> QED BY <1>2, <1>4, <1>5, <1>6 DEF Embd!EmbedInv

(***************************************************************************)
(* The file of the store (Keep!).  v1: the file, v2: its tables and        *)
(* columns, v3: the events, v4: the processes, v5: the backup, v6: the     *)
(* file at its path, v7: whether it took away a file not its own.          *)
(***************************************************************************)

Stations == {"closed", "wal", "early", "index", "late", "check", "alter",
             "restrict", "open", "failed"}

ProcRecord == [at : Stations, column : Nat, met : BOOLEAN, ignored : BOOLEAN]

LEMMA VaultStarts == Keep!Init => Keep!VaultInv
<1> SUFFICES ASSUME Keep!Init PROVE Keep!VaultInv
  OBVIOUS
<1>1. \A v \in 0 .. Columns : 1 .. v \subseteq Keep!AllColumns
  BY DeskAssumption DEF Keep!VaultConstants, Keep!AllColumns
<1>2. /\ v1 \in [mode : {"none", "wide", "private"}, wal : BOOLEAN]
      /\ v2.tables \in {"none", "oldest", "early", "all"}
      /\ v2 = [tables |-> v2.tables, columns |-> v2.columns]
      /\ v2.columns = {} \/ \E v \in 0 .. Columns : v2.columns = 1 .. v
  <2>1. CASE v1 = [mode |-> "none", wal |-> FALSE] /\ v2 = [tables |-> "none", columns |-> {}]
    BY <2>1
  <2>2. ASSUME NEW v \in 0 .. Columns, v1 = [mode |-> "wide", wal |-> TRUE],
               v2 \in [tables : {"all", "oldest", "early"}, columns : {1 .. v}]
        PROVE  /\ v1 \in [mode : {"none", "wide", "private"}, wal : BOOLEAN]
               /\ v2.tables \in {"none", "oldest", "early", "all"}
               /\ v2 = [tables |-> v2.tables, columns |-> v2.columns]
               /\ v2.columns = {} \/ \E w \in 0 .. Columns : v2.columns = 1 .. w
    <3>1. v1 \in [mode : {"none", "wide", "private"}, wal : BOOLEAN]
      BY <2>2
    <3> DEFINE c == 1 .. v
    <3>2. v2 \in [tables : {"all", "oldest", "early"}, columns : {c}]
      BY <2>2
    <3> HIDE DEF c
    <3>3. /\ v2.tables \in {"none", "oldest", "early", "all"} /\ v2.columns = c
          /\ v2 = [tables |-> v2.tables, columns |-> v2.columns]
      BY <3>2
    <3> QED BY <3>1, <3>3 DEF c
  <2>3. \/ v1 = [mode |-> "none", wal |-> FALSE] /\ v2 = [tables |-> "none", columns |-> {}]
        \/ \E v \in 0 .. Columns : /\ v1 = [mode |-> "wide", wal |-> TRUE]
              /\ v2 \in [tables : {"all", "oldest", "early"}, columns : {1 .. v}]
    <3>1. CASE /\ v1 = [mode |-> "none", wal |-> FALSE]
               /\ v2 = [tables |-> "none", columns |-> {}]
      BY <3>1
    <3>2. ASSUME NEW v \in 0 .. Columns, v1 = [mode |-> "wide", wal |-> TRUE],
                 v2 \in [tables : IF v = Columns THEN {"all"}
                                    ELSE IF v = 0 THEN {"oldest", "early"} ELSE {"early"},
                             columns : {1 .. v}]
          PROVE  v2 \in [tables : {"all", "oldest", "early"}, columns : {1 .. v}]
      <4> DEFINE c == {1 .. v}
      <4>1. v2 \in [tables : IF v = Columns THEN {"all"}
                                    ELSE IF v = 0 THEN {"oldest", "early"} ELSE {"early"},
                             columns : c]
        BY <3>2
      <4> HIDE DEF c
      <4>2. v2 \in [tables : {"all", "oldest", "early"}, columns : c]
        BY <4>1
      <4> QED BY <4>2 DEF c
    <3> QED BY <3>1, <3>2 DEF Keep!Init
  <2> QED BY <2>1, <2>2, <2>3
<1>3. v2 \in [tables : {"none", "oldest", "early", "all"}, columns : SUBSET Keep!AllColumns]
  <2>1. v2.columns \in SUBSET Keep!AllColumns
    BY <1>1, <1>2
  <2> QED BY <1>2, <2>1
<1>7. /\ v1 \in [mode : {"none", "wide", "private"}, wal : BOOLEAN]
      /\ v2 \in [tables : {"none", "oldest", "early", "all"}, columns : SUBSET Keep!AllColumns]
  BY <1>2, <1>3
<1>4. v4 \in [Opener -> ProcRecord] /\ \A p \in Opener : v4[p].at = "closed"
  BY DEF Keep!Init, Keep!Closed, ProcRecord, Stations
<1>5. (\A p \in Opener : Keep!ProcOK(p)) /\ Keep!Meet
  BY <1>4 DEF Keep!ProcOK, Keep!Meet, Keep!Opening
<1>6. Keep!BackupOK
  BY DEF Keep!Init, Keep!BackupOK, Keep!NoFile
<1> QED BY <1>4, <1>5, <1>6, <1>7 DEF Keep!VaultInv, Keep!VaultTyped, ProcRecord, Stations

\* The invariant of the store has both of its properties in it.
LEMMA VaultHonest == Keep!VaultInv => Keep!OpenHonest /\ Keep!BackupHonest
<1> SUFFICES ASSUME Keep!VaultInv PROVE Keep!OpenHonest /\ Keep!BackupHonest
  OBVIOUS
<1>1. ASSUME NEW p \in Opener, v4[p].at = "open"
      PROVE  /\ v2 = [tables |-> "all", columns |-> Keep!AllColumns]
             /\ v1.wal /\ (v1.mode = "private" \/ v4[p].ignored)
  <2>1. /\ v2.tables = "all" /\ v2.columns = Keep!AllColumns
        /\ v1.wal /\ (v1.mode = "private" \/ v4[p].ignored)
    BY <1>1 DEF Keep!VaultInv, Keep!ProcOK
  <2>2. v2 \in [tables : {"none", "oldest", "early", "all"}, columns : SUBSET Keep!AllColumns]
    BY DEF Keep!VaultInv, Keep!VaultTyped
  <2> QED BY <2>1, <2>2
<1>2. \A p \in Opener : v4[p].at = "failed" => v4[p].met \/ Indexed \notin v2.columns
  BY DEF Keep!VaultInv, Keep!ProcOK
<1>3. Keep!BackupHonest
  BY DEF Keep!VaultInv, Keep!BackupOK, Keep!BackupHonest
<1> QED BY <1>1, <1>2, <1>3 DEF Keep!OpenHonest

(***************************************************************************)
(* The steps of the backup.                                                *)
(***************************************************************************)

\* A step of a backup leaves the store alone.
LEMMA StoreSame ==
  ASSUME Keep!VaultInv, UNCHANGED <<v1, v2, v4>>, Keep!BackupOK'
  PROVE  Keep!VaultInv'
<1>1. Keep!VaultTyped'
  BY DEF Keep!VaultInv, Keep!VaultTyped
<1>2. ASSUME NEW p \in Opener PROVE Keep!ProcOK(p)'
  BY DEF Keep!VaultInv, Keep!ProcOK
<1>3. Keep!Meet'
  BY DEF Keep!VaultInv, Keep!Meet, Keep!Opening
<1> QED BY <1>1, <1>2, <1>3 DEF Keep!VaultInv

BackupRecord ==
  [at : {"idle", "vacuum", "refused", "restrict", "verify", "tar", "full", "mismatch",
         "failed", "killed", "done"},
   format : {"sqlite", "tgz"}, expected : Nat, staged : Nat, ignored : BOOLEAN]

FileRecord ==
  [by : {"nobody", "backup", "user"}, mode : {"none", "wide", "private"},
   events : Nat, whole : BOOLEAN]

LEMMA BackupTyped == Keep!VaultInv => v5 \in BackupRecord /\ v6 \in FileRecord /\ v3 \in Nat
BY DEF Keep!VaultInv, Keep!BackupOK, BackupRecord, FileRecord

\* Where the backup goes, its format stays.
LEMMA BackupGoes ==
  ASSUME Keep!VaultInv,
         NEW at \in {"refused", "restrict", "verify", "tar", "full", "mismatch",
                     "failed", "killed", "done"},
         Keep!Backup(at)
  PROVE  /\ v5' \in BackupRecord /\ v5'.at = at /\ v5'.format = v5.format
         /\ v5'.expected = v5.expected /\ v5'.staged = v5.staged
         /\ v5'.ignored = v5.ignored
BY BackupTyped DEF Keep!Backup, BackupRecord

\* What stands at the path of a backup.
LEMMA CopyTyped ==
  ASSUME NEW by \in {"backup", "user"}, NEW n \in Nat
  PROVE  /\ Keep!Of(by, "wide", n) \in FileRecord /\ Keep!Of(by, "wide", n).by = by
         /\ Keep!Of(by, "wide", n).events = n
BY DEF Keep!Of, FileRecord

LEMMA NoFileTyped == Keep!NoFile \in FileRecord /\ Keep!NoFile.by = "nobody"
BY DEF Keep!NoFile, FileRecord

LEMMA BeginKeeps ==
  ASSUME Keep!VaultInv, NEW format \in {"sqlite", "tgz"}, Keep!backupStore(format)
  PROVE  Keep!VaultInv'
<1>1. /\ v5.at = "idle" /\ UNCHANGED <<v1, v2, v3, v4, v6, v7>>
      /\ v5' = [at |-> IF v6.by = "nobody" THEN "vacuum" ELSE "refused",
                    format |-> format, expected |-> v3, staged |-> 0, ignored |-> FALSE]
  BY DEF Keep!backupStore, Keep!store
<1>2. PICK at \in {"vacuum", "refused"} :
         v5' = [at |-> at, format |-> format, expected |-> v3, staged |-> 0,
               ignored |-> FALSE]
  BY <1>1
<1>3. /\ v5' \in BackupRecord /\ v5'.at \in {"vacuum", "refused"} /\ v5'.format = format
      /\ ~v5'.ignored
  BY <1>2, BackupTyped DEF BackupRecord
<1>4. Keep!BackupOK'
  BY <1>1, <1>3, BackupTyped DEF Keep!VaultInv, Keep!BackupOK, BackupRecord, FileRecord
<1> QED BY <1>1, <1>4, StoreSame

LEMMA VacuumKeeps == Keep!VaultInv /\ Keep!vacuumInto => Keep!VaultInv'
<1> SUFFICES ASSUME Keep!VaultInv, Keep!vacuumInto PROVE Keep!VaultInv'
  OBVIOUS
<1>1. v5.at = "vacuum" /\ UNCHANGED <<v1, v2, v3, v4, v7>>
  BY DEF Keep!vacuumInto, Keep!store
<1>2. CASE v5.format = "sqlite" /\ v6' = Keep!Of("backup", "wide", v3) /\ Keep!Backup("restrict")
  <2>1. v6' \in FileRecord /\ v6' = Keep!Of("backup", "wide", v6'.events)
    BY <1>2, BackupTyped, CopyTyped
  <2>2. Keep!BackupOK'
    BY <1>1, <1>2, <2>1, BackupTyped, BackupGoes
    DEF Keep!VaultInv, Keep!BackupOK, BackupRecord, FileRecord
  <2> QED BY <1>1, <2>2, StoreSame
<1>3. CASE v6.by # "nobody" /\ Keep!Backup("refused") /\ UNCHANGED v6
  <2>1. Keep!BackupOK'
    BY <1>1, <1>3, BackupTyped, BackupGoes DEF Keep!VaultInv, Keep!BackupOK, BackupRecord, FileRecord
  <2> QED BY <1>1, <2>1, StoreSame
<1>4. CASE v5.format = "tgz" /\ UNCHANGED v6
           /\ v5' = [v5 EXCEPT !.at = "verify", !.staged = v3]
  <2>1. /\ v5' \in BackupRecord /\ v5'.at = "verify" /\ v5'.format = "tgz"
        /\ v5'.ignored = v5.ignored
    BY <1>4, BackupTyped DEF BackupRecord
  <2>2. Keep!BackupOK'
    BY <1>1, <1>4, <2>1, BackupTyped DEF Keep!VaultInv, Keep!BackupOK, BackupRecord, FileRecord
  <2> QED BY <1>1, <2>2, StoreSame
<1> QED BY <1>2, <1>3, <1>4 DEF Keep!vacuumInto

LEMMA FullKeeps == Keep!VaultInv /\ Keep!DiskFull => Keep!VaultInv'
<1> SUFFICES ASSUME Keep!VaultInv, Keep!DiskFull PROVE Keep!VaultInv'
  OBVIOUS
<1>1. /\ v5.at = "vacuum" /\ UNCHANGED <<v1, v2, v3, v4, v7>> /\ Keep!Backup("full")
      /\ \/ v6' = v6
         \/ v6' = [Keep!Of("backup", "wide", 0) EXCEPT !.whole = FALSE]
  BY DEF Keep!DiskFull, Keep!store
<1>2. v6' \in FileRecord
  <2>1. Keep!Of("backup", "wide", 0) \in FileRecord
    BY CopyTyped
  <2>2. [Keep!Of("backup", "wide", 0) EXCEPT !.whole = FALSE] \in FileRecord
    BY <2>1 DEF FileRecord
  <2> QED BY <1>1, <2>2, BackupTyped
<1>3. Keep!BackupOK'
  BY <1>1, <1>2, BackupTyped, BackupGoes DEF Keep!VaultInv, Keep!BackupOK, BackupRecord, FileRecord
<1> QED BY <1>1, <1>3, StoreSame

LEMMA VerifyKeeps == Keep!VaultInv /\ Keep!verify => Keep!VaultInv'
<1> SUFFICES ASSUME Keep!VaultInv, Keep!verify PROVE Keep!VaultInv'
  OBVIOUS
<1>1. v5.at = "verify" /\ UNCHANGED <<v1, v2, v3, v4, v7>>
  BY DEF Keep!verify, Keep!store
<1>2. CASE Keep!CountsAgree /\ v5.format = "sqlite" /\ Keep!Backup("done") /\ UNCHANGED v6
  <2>1. v6.events = v5.expected
    BY <1>2 DEF Keep!CountsAgree, Keep!Snapshot
  <2>2. v6 = Keep!Of("backup", Keep!CopyMode, v5.expected)
    BY <1>1, <1>2, <2>1 DEF Keep!VaultInv, Keep!BackupOK
  <2>3. v6' = Keep!Of("backup", Keep!CopyMode', v5'.expected)
    BY <1>2, <2>2, BackupGoes DEF Keep!CopyMode
  <2>4. Keep!BackupOK'
    BY <1>1, <1>2, <2>3, BackupTyped, BackupGoes DEF Keep!VaultInv, Keep!BackupOK, BackupRecord, FileRecord
  <2> QED BY <1>1, <2>4, StoreSame
<1>3. CASE Keep!CountsAgree /\ v5.format = "tgz" /\ Keep!Backup("tar") /\ UNCHANGED v6
  <2>1. v5'.staged = v5'.expected
    BY <1>3, BackupGoes DEF Keep!CountsAgree, Keep!Snapshot
  <2>2. Keep!BackupOK'
    BY <1>1, <1>3, <2>1, BackupTyped, BackupGoes DEF Keep!VaultInv, Keep!BackupOK, BackupRecord, FileRecord
  <2> QED BY <1>1, <2>2, StoreSame
<1>4. CASE Keep!Backup("mismatch") /\ (v6' = Keep!NoFile \/ (v6' = v6 /\ v5.format = "tgz"))
  <2>1. v6' \in FileRecord /\ v6'.by # "backup"
    BY <1>1, <1>4, BackupTyped, NoFileTyped DEF Keep!VaultInv, Keep!BackupOK
  <2>2. Keep!BackupOK'
    BY <1>1, <1>4, <2>1, BackupTyped, BackupGoes DEF Keep!VaultInv, Keep!BackupOK, BackupRecord, FileRecord
  <2> QED BY <1>1, <2>2, StoreSame
<1>5. v5.format \in {"sqlite", "tgz"}
  BY BackupTyped DEF BackupRecord
<1> QED BY <1>2, <1>3, <1>4, <1>5 DEF Keep!verify

LEMMA TarKeeps == Keep!VaultInv /\ Keep!tar => Keep!VaultInv'
<1> SUFFICES ASSUME Keep!VaultInv, Keep!tar PROVE Keep!VaultInv'
  OBVIOUS
<1>1. v5.at = "tar" /\ UNCHANGED <<v1, v2, v3, v4>>
      /\ v5.format = "tgz" /\ v5.staged = v5.expected /\ ~v5.ignored
  BY DEF Keep!tar, Keep!store, Keep!VaultInv, Keep!BackupOK
<1>2. CASE v6' = Keep!Of("backup", "wide", v5.staged) /\ Keep!Backup("restrict")
  <2>1. v6' \in FileRecord /\ v6' = Keep!Of("backup", "wide", v5'.expected)
    BY <1>1, <1>2, BackupTyped, BackupGoes, CopyTyped DEF BackupRecord
  <2>2. Keep!BackupOK'
    BY <1>1, <1>2, <2>1, BackupTyped, BackupGoes DEF Keep!BackupOK, BackupRecord, FileRecord
  <2> QED BY <1>1, <2>2, StoreSame
<1>3. CASE v6' = Keep!NoFile /\ Keep!Backup("failed")
  <2>1. Keep!BackupOK'
    BY <1>1, <1>3, NoFileTyped, BackupTyped, BackupGoes DEF Keep!BackupOK, BackupRecord, FileRecord
  <2> QED BY <1>1, <2>1, StoreSame
<1> QED BY <1>2, <1>3 DEF Keep!tar

LEMMA RestrictCopyKeeps == Keep!VaultInv /\ Keep!restrictPath => Keep!VaultInv'
<1> SUFFICES ASSUME Keep!VaultInv, Keep!restrictPath PROVE Keep!VaultInv'
  OBVIOUS
<1>1. v5.at = "restrict" /\ UNCHANGED <<v1, v2, v3, v4, v7>> /\ ~v5.ignored
  BY DEF Keep!restrictPath, Keep!store, Keep!VaultInv, Keep!BackupOK
<1>2. PICK n \in Nat : /\ v6 = Keep!Of("backup", "wide", n) /\ n = v6.events
                       /\ v5.format = "tgz" => n = v5.expected
  <2>1. v6.events \in Nat /\ v5.expected \in Nat
    BY BackupTyped DEF FileRecord, BackupRecord
  <2> QED BY <1>1, <2>1 DEF Keep!VaultInv, Keep!BackupOK, Keep!Of
<1>3. PICK at \in {"verify", "done"} :
        /\ at = Keep!AfterRestrict
        /\ v5.format = "sqlite" => at = "verify"
        /\ v5.format = "tgz" => at = "done"
  BY BackupTyped DEF Keep!AfterRestrict, BackupRecord
<1>4. /\ v5' \in BackupRecord /\ v5'.at = at /\ v5'.format = v5.format
      /\ v5'.expected = v5.expected /\ v5'.staged = v5.staged
      /\ v6' = Keep!Of("backup", Keep!CopyMode', n)
  <2>1. CASE v6' = [v6 EXCEPT !.mode = "private"] /\ Keep!Backup(at)
    <3>1. v6' = Keep!Of("backup", "private", n)
      BY <1>2, <2>1 DEF Keep!Of
    <3> QED BY <1>1, <2>1, <3>1, BackupGoes DEF Keep!CopyMode
  <2>2. CASE v6' = v6 /\ v5' = [v5 EXCEPT !.at = at, !.ignored = TRUE]
    <3>1. /\ v5' \in BackupRecord /\ v5'.at = at /\ v5'.format = v5.format
          /\ v5'.expected = v5.expected /\ v5'.staged = v5.staged /\ v5'.ignored
      BY <2>2, BackupTyped DEF BackupRecord
    <3> QED BY <1>2, <2>2, <3>1 DEF Keep!CopyMode
  <2> QED BY <1>3, <2>1, <2>2 DEF Keep!restrictPath, Keep!RestrictCopy
<1>5. v6' \in FileRecord /\ v6'.by = "backup" /\ v6'.events = n
  BY <1>4 DEF Keep!Of, Keep!CopyMode, FileRecord
<1>6. v5'.format \in {"sqlite", "tgz"}
  BY <1>4 DEF BackupRecord
<1>7. v5'.at = "done" => v6' = Keep!Of("backup", Keep!CopyMode', v5'.expected)
  <2>1. CASE v5.format = "sqlite"
    BY <1>3, <1>4, <2>1
  <2>2. CASE v5.format = "tgz"
    BY <1>2, <1>4, <2>2
  <2> QED BY <1>4, <1>6, <2>1, <2>2
<1>8. Keep!BackupOK'
  BY <1>1, <1>3, <1>4, <1>5, <1>6, <1>7, BackupTyped
     DEF Keep!VaultInv, Keep!BackupOK, BackupRecord, FileRecord
<1> QED BY <1>1, <1>8, StoreSame

LEMMA KillBackupKeeps == Keep!VaultInv /\ Keep!KillBackup => Keep!VaultInv'
<1> SUFFICES ASSUME Keep!VaultInv, Keep!KillBackup PROVE Keep!VaultInv'
  OBVIOUS
<1>1. /\ v5.at # "idle" /\ UNCHANGED <<v1, v2, v3, v4, v6, v7>>
      /\ Keep!Backup("killed")
  BY DEF Keep!KillBackup, Keep!store
<1>2. Keep!BackupOK'
  BY <1>1, BackupTyped, BackupGoes DEF Keep!VaultInv, Keep!BackupOK, BackupRecord, FileRecord
<1> QED BY <1>1, <1>2, StoreSame

LEMMA UserFileKeeps == Keep!VaultInv /\ Keep!Appear => Keep!VaultInv'
<1> SUFFICES ASSUME Keep!VaultInv, Keep!Appear PROVE Keep!VaultInv'
  OBVIOUS
<1>1. /\ v6.by = "nobody" /\ v6' = Keep!Of("user", "wide", 0)
      /\ UNCHANGED <<v1, v2, v3, v4, v5, v7>>
  BY DEF Keep!Appear, Keep!store
<1>2. v6' \in FileRecord /\ v6'.by = "user"
  BY <1>1, CopyTyped
<1>3. v5.at \notin {"restrict", "done"} /\ ~(v5.at = "verify" /\ v5.format = "sqlite")
  BY <1>1 DEF Keep!VaultInv, Keep!BackupOK, Keep!Of
<1>4. Keep!BackupOK'
  BY <1>1, <1>2, <1>3, BackupTyped DEF Keep!VaultInv, Keep!BackupOK, BackupRecord, FileRecord
<1> QED BY <1>1, <1>4, StoreSame

(***************************************************************************)
(* The steps of an open.                                                   *)
(***************************************************************************)

\* What a step of one process leaves to be shown; the store only grows.
Moves(p) ==
  /\ UNCHANGED <<v3, v5, v6, v7>>
  /\ Keep!VaultTyped'
  /\ \A q \in Opener : q # p => v4'[q] = v4[q]
  /\ Keep!Opening(p)' => Keep!Opening(p) /\ v4'[p].met = v4[p].met
  /\ v1.wal => v1'.wal
  /\ v1.mode = "private" => v1'.mode = "private"
  /\ v2.columns \subseteq v2'.columns
  /\ v2.tables \in {"early", "all"} => v2'.tables \in {"early", "all"}
  /\ v2.tables = "all" => v2'.tables = "all"
  /\ Keep!ProcOK(p)'

\* A column that is new can only surprise a process that is opening too.
Unseen(p) ==
  \/ v2'.columns = v2.columns
  \/ /\ Keep!Opening(p)
     /\ Indexed \in v2.columns \/ v2.tables \in {"none", "oldest"}

\* A process that moves, in a way the others cannot tell, keeps the invariant.
LEMMA MovesKeep ==
  ASSUME Keep!VaultInv, NEW p \in Opener, Moves(p), Unseen(p)
  PROVE  Keep!VaultInv'
<1>1. ASSUME NEW q \in Opener, q # p PROVE Keep!ProcOK(q)'
  <2>1. v4'[q] = v4[q]
    BY <1>1 DEF Moves
  <2>2. /\ v1.wal => v1'.wal
        /\ v1.mode = "private" => v1'.mode = "private"
        /\ v2.columns \subseteq v2'.columns /\ v2'.columns \subseteq Keep!AllColumns
        /\ v2.tables \in {"early", "all"} => v2'.tables \in {"early", "all"}
        /\ v2.tables = "all" => v2'.tables = "all"
    BY DEF Moves, Keep!VaultTyped
  <2>3. Keep!ProcOK(q)
    BY DEF Keep!VaultInv
  <2>4. v4[q].at = "alter" => v4[q].met \/ v4[q].column \notin v2'.columns
    <3>1. CASE v2'.columns = v2.columns
      BY <2>3, <3>1 DEF Keep!ProcOK
    <3>2. CASE Keep!Opening(p)
      BY <1>1, <3>2 DEF Keep!VaultInv, Keep!Meet, Keep!Opening
    <3> QED BY <3>1, <3>2 DEF Unseen
  <2>5. v4[q].at = "failed" =>
           v4[q].met \/ (Indexed \notin v2'.columns /\ v2'.tables \in {"early", "all"})
    <3>1. CASE v2'.columns = v2.columns
      BY <2>2, <2>3, <3>1 DEF Keep!ProcOK
    <3>2. CASE Indexed \in v2.columns \/ v2.tables \in {"none", "oldest"}
      BY <2>3, <3>2 DEF Keep!ProcOK
    <3> QED BY <3>1, <3>2 DEF Unseen
  <2> QED BY <2>1, <2>2, <2>3, <2>4, <2>5 DEF Keep!ProcOK
<1>2. Keep!Meet'
  <2>1. \A q \in Opener : Keep!Opening(q)' => Keep!Opening(q) /\ v4'[q].met = v4[q].met
    BY DEF Moves, Keep!Opening
  <2> QED BY <2>1 DEF Keep!VaultInv, Keep!Meet
<1>3. Keep!BackupOK'
  BY DEF Moves, Keep!VaultInv, Keep!BackupOK, Keep!CopyMode
<1> QED BY <1>1, <1>2, <1>3 DEF Keep!VaultInv, Moves

\* A process goes on to another station of its opening.
LEMMA OpenGoesTo ==
  ASSUME Keep!VaultInv, NEW p \in Opener, NEW at \in Stations, Keep!Goes(p, at)
  PROVE  /\ v4' \in [Opener -> ProcRecord] /\ v4'[p].at = at
         /\ v4'[p].column = v4[p].column /\ v4'[p].met = v4[p].met
         /\ v4'[p].ignored = v4[p].ignored
         /\ \A q \in Opener : q # p => v4'[q] = v4[q]
<1>1. v4 \in [Opener -> ProcRecord]
  BY DEF Keep!VaultInv, Keep!VaultTyped, ProcRecord, Stations
<1> DEFINE r == [v4[p] EXCEPT !.at = at]
<1>2. /\ r \in ProcRecord /\ r.at = at /\ r.column = v4[p].column /\ r.met = v4[p].met
      /\ r.ignored = v4[p].ignored
  BY <1>1 DEF ProcRecord
<1>3. v4' = [v4 EXCEPT ![p] = r]
  BY DEF Keep!Goes
<1> HIDE DEF r
<1> QED BY <1>1, <1>2, <1>3

\* A step that leaves the file and the tables alone.
LEMMA GoesKeeps ==
  ASSUME Keep!VaultInv, NEW p \in Opener, NEW at \in Stations, Keep!Goes(p, at),
         UNCHANGED <<v1, v2, v3, v5, v6, v7>>,
         Keep!Opening(p)' => Keep!Opening(p), Keep!ProcOK(p)'
  PROVE  Keep!VaultInv'
<1>1. Keep!VaultTyped'
  BY OpenGoesTo DEF Keep!VaultInv, Keep!VaultTyped, ProcRecord, Stations
<1>2. Moves(p) /\ Unseen(p)
  BY <1>1, OpenGoesTo DEF Moves, Unseen
<1> QED BY <1>2, MovesKeep

LEMMA StartKeeps == ASSUME Keep!VaultInv, NEW p \in Opener, Keep!Start(p) PROVE Keep!VaultInv'
<1>1. /\ v4[p].at \in {"closed", "failed"} /\ UNCHANGED <<v2, v3, v5, v6, v7>>
      /\ v1' = IF v1.mode = "none" THEN [v1 EXCEPT !.mode = "wide"] ELSE v1
  BY DEF Keep!Start
<1>2. PICK m \in BOOLEAN :
        v4' = [q \in Opener |-> IF q = p THEN [at |-> "wal", column |-> 1,
                                               ignored |-> FALSE, met |-> m]
                                ELSE [v4[q] EXCEPT !.met = @ \/ Keep!Opening(q)]]
        /\ (m <=> \E o \in Opener \ {p} : Keep!Opening(o))
  BY DEF Keep!Start
<1>3. /\ v4' \in [Opener -> ProcRecord]
      /\ v4'[p].at = "wal" /\ v4'[p].column = 1 /\ (v4'[p].met <=> m)
      /\ \A q \in Opener : q # p =>
           /\ v4'[q].at = v4[q].at /\ v4'[q].column = v4[q].column
           /\ v4'[q].ignored = v4[q].ignored
           /\ v4'[q].met <=> (v4[q].met \/ Keep!Opening(q))
  <2>1. v4 \in [Opener -> ProcRecord]
    BY DEF Keep!VaultInv, Keep!VaultTyped, ProcRecord, Stations
  <2>2. ASSUME NEW q \in Opener, NEW b \in BOOLEAN
        PROVE  /\ [v4[q] EXCEPT !.met = b] \in ProcRecord
               /\ [v4[q] EXCEPT !.met = b].at = v4[q].at
               /\ [v4[q] EXCEPT !.met = b].column = v4[q].column
               /\ [v4[q] EXCEPT !.met = b].ignored = v4[q].ignored
               /\ [v4[q] EXCEPT !.met = b].met = b
    BY <2>1 DEF ProcRecord
  <2>3. \A q \in Opener : v4[q].met \in BOOLEAN /\ (Keep!Opening(q) \in BOOLEAN)
    BY <2>1 DEF ProcRecord, Keep!Opening
  <2>4. ASSUME NEW q \in Opener, q # p
        PROVE  /\ v4'[q] \in ProcRecord
               /\ v4'[q].at = v4[q].at /\ v4'[q].column = v4[q].column
               /\ v4'[q].ignored = v4[q].ignored
               /\ v4'[q].met <=> (v4[q].met \/ Keep!Opening(q))
    <3>1. PICK b \in BOOLEAN : b <=> (v4[q].met \/ Keep!Opening(q))
      OBVIOUS
    <3>2. (v4[q].met \/ Keep!Opening(q)) = b
      BY <2>3, <3>1
    <3>3. v4'[q] = [v4[q] EXCEPT !.met = b]
      BY <1>2, <2>4, <3>2
    <3> QED BY <2>2, <3>1, <3>3
  <2>5. v4'[p] = [at |-> "wal", column |-> 1, ignored |-> FALSE, met |-> m]
    BY <1>2
  <2>6. v4'[p] \in ProcRecord /\ v4'[p].at = "wal" /\ v4'[p].column = 1 /\ v4'[p].met = m
    BY <2>5 DEF ProcRecord, Stations
  <2>7. v4' = [q \in Opener |-> v4'[q]]
    BY <1>2
  <2>8. \A q \in Opener : v4'[q] \in ProcRecord
    BY <2>4, <2>6
  <2>9. v4' \in [Opener -> ProcRecord]
    BY <2>7, <2>8
  <2> QED BY <2>4, <2>6, <2>9
<1>4. /\ v1' \in [mode : {"none", "wide", "private"}, wal : BOOLEAN]
      /\ v1'.wal = v1.wal /\ (v1.mode = "private" => v1'.mode = "private")
  BY <1>1 DEF Keep!VaultInv, Keep!VaultTyped
<1>5. Keep!VaultTyped'
  BY <1>1, <1>3, <1>4 DEF Keep!VaultInv, Keep!VaultTyped, ProcRecord, Stations
<1>6. Keep!ProcOK(p)'
  BY <1>3 DEF Keep!ProcOK
<1>7. ASSUME NEW q \in Opener, q # p PROVE Keep!ProcOK(q)'
  BY <1>1, <1>3, <1>4, <1>7 DEF Keep!VaultInv, Keep!ProcOK
<1>8. Keep!Meet'
  <2> SUFFICES ASSUME NEW a \in Opener, NEW b \in Opener, a # b, Keep!Opening(a)', Keep!Opening(b)'
               PROVE  v4'[a].met
    BY DEF Keep!Meet
  <2>1. \A q \in Opener : q # p /\ Keep!Opening(q)' => Keep!Opening(q)
    BY <1>3 DEF Keep!Opening
  <2>2. CASE a = p
    BY <1>2, <1>3, <2>1, <2>2
  <2>3. CASE a # p
    BY <1>3, <2>1, <2>3
  <2> QED BY <2>2, <2>3
<1>9. Keep!BackupOK'
  BY <1>1 DEF Keep!VaultInv, Keep!BackupOK, Keep!CopyMode
<1> QED BY <1>5, <1>6, <1>7, <1>8, <1>9 DEF Keep!VaultInv

LEMMA WalKeeps == ASSUME Keep!VaultInv, NEW p \in Opener, Keep!SetWal(p) PROVE Keep!VaultInv'
<1>1. /\ v4[p].at = "wal" /\ v1' = [v1 EXCEPT !.wal = TRUE] /\ Keep!Goes(p, "early")
      /\ UNCHANGED <<v2, v3, v5, v6, v7>> /\ "early" \in Stations
  BY DEF Keep!SetWal, Keep!Still, Stations
<1>2. /\ v1' \in [mode : {"none", "wide", "private"}, wal : BOOLEAN]
      /\ v1'.wal /\ v1'.mode = v1.mode
  BY <1>1 DEF Keep!VaultInv, Keep!VaultTyped
<1>3. Keep!VaultTyped'
  BY <1>1, <1>2, OpenGoesTo DEF Keep!VaultInv, Keep!VaultTyped, ProcRecord, Stations
<1>4. Keep!ProcOK(p)'
  BY <1>1, <1>2, OpenGoesTo DEF Keep!VaultInv, Keep!ProcOK
<1>5. Keep!Opening(p)
  BY <1>1 DEF Keep!Opening
<1>6. Moves(p) /\ Unseen(p)
  BY <1>1, <1>2, <1>3, <1>4, <1>5, OpenGoesTo DEF Moves, Unseen
<1> QED BY <1>6, MovesKeep

LEMMA BusyKeeps == ASSUME Keep!VaultInv, NEW p \in Opener, Keep!Busy(p) PROVE Keep!VaultInv'
<1>1. /\ v4[p].at = "wal" /\ Keep!Goes(p, "failed") /\ "failed" \in Stations
      /\ \E q \in Opener \ {p} : v4[q].at = "wal"
      /\ UNCHANGED <<v1, v2, v3, v5, v6, v7>>
  BY DEF Keep!Busy, Keep!Still, Stations
<1>2. v4[p].met
  BY <1>1 DEF Keep!VaultInv, Keep!Meet, Keep!Opening
<1>3. Keep!ProcOK(p)'
  BY <1>1, <1>2, OpenGoesTo DEF Keep!ProcOK
<1>4. Keep!Opening(p)
  BY <1>1 DEF Keep!Opening
<1> QED BY <1>1, <1>3, <1>4, GoesKeeps

LEMMA EarlyKeeps == ASSUME Keep!VaultInv, NEW p \in Opener, Keep!EarlyTables(p) PROVE Keep!VaultInv'
<1>1. /\ v4[p].at = "early" /\ Keep!Goes(p, "index") /\ "index" \in Stations
      /\ UNCHANGED <<v1, v3, v5, v6, v7>>
  BY DEF Keep!EarlyTables, Keep!Still, Stations
<1>2. /\ v2' \in [tables : {"none", "oldest", "early", "all"}, columns : SUBSET Keep!AllColumns]
      /\ v2.columns \subseteq v2'.columns
      /\ v2'.tables \in {"early", "all"}
      /\ v2.tables = "all" => v2'.tables = "all"
      /\ v2'.columns = v2.columns \/ v2.tables \in {"none", "oldest"}
  <2>1. v2 \in [tables : {"none", "oldest", "early", "all"}, columns : SUBSET Keep!AllColumns]
        /\ Indexed \in Keep!AllColumns
    BY DeskAssumption DEF Keep!VaultInv, Keep!VaultTyped, Keep!VaultConstants, Keep!AllColumns
  <2> QED BY <2>1 DEF Keep!EarlyTables
<1>3. Keep!VaultTyped'
  BY <1>1, <1>2, OpenGoesTo DEF Keep!VaultInv, Keep!VaultTyped, ProcRecord, Stations
<1>4. Keep!ProcOK(p)'
  BY <1>1, <1>2, OpenGoesTo DEF Keep!VaultInv, Keep!ProcOK
<1>5. Keep!Opening(p)
  BY <1>1 DEF Keep!Opening
<1>6. Moves(p)
  BY <1>1, <1>2, <1>3, <1>4, <1>5, OpenGoesTo DEF Moves
<1>7. Unseen(p)
  BY <1>2, <1>5 DEF Unseen
<1> QED BY <1>6, <1>7, MovesKeep

LEMMA IndexKeeps == ASSUME Keep!VaultInv, NEW p \in Opener, Keep!Index(p) PROVE Keep!VaultInv'
<1>1. /\ v4[p].at = "index" /\ UNCHANGED <<v1, v2, v3, v5, v6, v7>>
      /\ "late" \in Stations /\ "failed" \in Stations
  BY DEF Keep!Index, Keep!Still, Stations
<1>2. Keep!Opening(p)
  BY <1>1 DEF Keep!Opening
<1>3. CASE Indexed \in v2.columns /\ Keep!Goes(p, "late")
  <2>1. Keep!ProcOK(p)'
    BY <1>1, <1>3, OpenGoesTo DEF Keep!VaultInv, Keep!ProcOK
  <2> QED BY <1>1, <1>2, <1>3, <2>1, GoesKeeps
<1>4. CASE Indexed \notin v2.columns /\ Keep!Goes(p, "failed")
  <2>1. Keep!ProcOK(p)'
    BY <1>1, <1>4, OpenGoesTo DEF Keep!VaultInv, Keep!ProcOK
  <2> QED BY <1>1, <1>2, <1>4, <2>1, GoesKeeps
<1> QED BY <1>3, <1>4 DEF Keep!Index

LEMMA LateKeeps == ASSUME Keep!VaultInv, NEW p \in Opener, Keep!LateTables(p) PROVE Keep!VaultInv'
<1>1. /\ v4[p].at = "late" /\ Keep!Goes(p, "check") /\ "check" \in Stations
      /\ v2' = [v2 EXCEPT !.tables = "all"]
      /\ UNCHANGED <<v1, v3, v5, v6, v7>>
  BY DEF Keep!LateTables, Keep!Still, Stations
<1>2. /\ v2' \in [tables : {"none", "oldest", "early", "all"}, columns : SUBSET Keep!AllColumns]
      /\ v2'.columns = v2.columns /\ v2'.tables = "all"
  BY <1>1 DEF Keep!VaultInv, Keep!VaultTyped
<1>3. Keep!VaultTyped'
  BY <1>1, <1>2, OpenGoesTo DEF Keep!VaultInv, Keep!VaultTyped, ProcRecord, Stations
<1>4. v4[p].column = 1 /\ 1 \in Keep!AllColumns /\ 1 .. (1 - 1) = {}
  BY <1>1, DeskAssumption DEF Keep!VaultInv, Keep!ProcOK, Keep!VaultConstants, Keep!AllColumns
<1>5. Keep!ProcOK(p)'
  BY <1>1, <1>2, <1>4, OpenGoesTo DEF Keep!VaultInv, Keep!ProcOK
<1>6. Keep!Opening(p)
  BY <1>1 DEF Keep!Opening
<1>7. Moves(p) /\ Unseen(p)
  BY <1>1, <1>2, <1>3, <1>5, <1>6, OpenGoesTo DEF Moves, Unseen
<1> QED BY <1>7, MovesKeep

\* After a column the next one follows, or the end.
LEMMA AddedTo ==
  ASSUME Keep!VaultInv, NEW p \in Opener, v4[p].at \in {"check", "alter"}, v4' = Keep!Added(p),
         v1' = v1, v2'.tables = "all", Indexed \in v2'.columns,
         v2'.columns \subseteq Keep!AllColumns,
         1 .. v4[p].column \subseteq v2'.columns
  PROVE  /\ v4' \in [Opener -> ProcRecord] /\ v4'[p].met = v4[p].met
         /\ \A q \in Opener : q # p => v4'[q] = v4[q]
         /\ Keep!ProcOK(p)'
<1>1. v4 \in [Opener -> ProcRecord]
  BY DEF Keep!VaultInv, Keep!VaultTyped, ProcRecord, Stations
<1>2. /\ v1.wal /\ v4[p].column \in Keep!AllColumns /\ Columns \in Nat
      /\ Keep!AllColumns = 1 .. Columns
  BY DeskAssumption DEF Keep!VaultInv, Keep!ProcOK, Keep!VaultConstants, Keep!AllColumns
<1>3. CASE v4[p].column = Columns
  <2>1. Keep!Goes(p, "restrict") /\ "restrict" \in Stations
    BY <1>3 DEF Keep!Added, Keep!Goes, Stations
  <2>2. v2'.columns = Keep!AllColumns
    BY <1>2, <1>3
  <2>3. Keep!ProcOK(p)'
    BY <1>2, <2>1, <2>2, OpenGoesTo DEF Keep!ProcOK
  <2> QED BY <2>1, <2>3, OpenGoesTo
<1>4. CASE v4[p].column # Columns
  <2> DEFINE c == v4[p].column
             r == [v4[p] EXCEPT !.at = "check", !.column = c + 1]
  <2>1. c \in Nat /\ c + 1 \in Keep!AllColumns /\ (c + 1) - 1 = c
    BY <1>2, <1>4
  <2>2. r \in ProcRecord /\ r.at = "check" /\ r.column = c + 1 /\ r.met = v4[p].met
    <3>1. PICK k \in Nat, x \in ProcRecord : k = c + 1 /\ x = v4[p]
      BY <1>1, <2>1
    <3>2. r = [x EXCEPT !.at = "check", !.column = k]
      BY <3>1
    <3> HIDE DEF r
    <3>3. r \in ProcRecord /\ r.at = "check" /\ r.column = k /\ r.met = x.met
      BY <3>2 DEF ProcRecord, Stations
    <3> QED BY <3>1, <3>3
  <2>3. v4' = [v4 EXCEPT ![p] = r]
    BY <1>4 DEF Keep!Added
  <2> HIDE DEF r
  <2>4. /\ v4' \in [Opener -> ProcRecord] /\ v4'[p] = r
        /\ \A q \in Opener : q # p => v4'[q] = v4[q]
    BY <1>1, <2>2, <2>3
  <2>5. 1 .. (v4'[p].column - 1) \subseteq v2'.columns
    BY <2>1, <2>2, <2>4
  <2> HIDE DEF c
  <2>6. Keep!ProcOK(p)'
    BY <1>2, <2>1, <2>2, <2>4, <2>5 DEF Keep!ProcOK
  <2> QED BY <2>2, <2>4, <2>6
<1> QED BY <1>3, <1>4

\* A step past a column.
LEMMA AddedKeeps ==
  ASSUME Keep!VaultInv, NEW p \in Opener, v4[p].at \in {"check", "alter"}, v4' = Keep!Added(p),
         UNCHANGED <<v1, v3, v5, v6, v7>>,
         v2' \in [tables : {"none", "oldest", "early", "all"}, columns : SUBSET Keep!AllColumns],
         v2'.tables = v2.tables,
         v2'.columns = v2.columns \union {v4[p].column}
  PROVE  Keep!VaultInv'
<1>1. /\ v2.tables = "all" /\ Indexed \in v2.columns
      /\ v4[p].column \in Keep!AllColumns /\ 1 .. (v4[p].column - 1) \subseteq v2.columns
  BY DEF Keep!VaultInv, Keep!ProcOK
<1>2. 1 .. v4[p].column \subseteq v2'.columns
  BY <1>1, DeskAssumption DEF Keep!VaultConstants, Keep!AllColumns
<1>3. /\ v4' \in [Opener -> ProcRecord] /\ v4'[p].met = v4[p].met
      /\ \A q \in Opener : q # p => v4'[q] = v4[q]
      /\ Keep!ProcOK(p)'
  BY <1>1, <1>2, AddedTo
<1>4. Keep!VaultTyped'
  BY <1>3 DEF Keep!VaultInv, Keep!VaultTyped, ProcRecord, Stations
<1>5. Keep!Opening(p)
  BY DEF Keep!Opening
<1>6. Moves(p) /\ Unseen(p)
  BY <1>1, <1>3, <1>4, <1>5 DEF Moves, Unseen
<1> QED BY <1>6, MovesKeep

LEMMA CheckKeeps == ASSUME Keep!VaultInv, NEW p \in Opener, Keep!Check(p) PROVE Keep!VaultInv'
<1>1. /\ v4[p].at = "check" /\ UNCHANGED <<v1, v2, v3, v5, v6, v7>>
      /\ "alter" \in Stations
  BY DEF Keep!Check, Keep!Still, Stations
<1>2. CASE v4[p].column \in v2.columns /\ v4' = Keep!Added(p)
  <2>1. v2 \in [tables : {"none", "oldest", "early", "all"}, columns : SUBSET Keep!AllColumns]
    BY DEF Keep!VaultInv, Keep!VaultTyped
  <2>2. v2.columns = v2.columns \union {v4[p].column}
    BY <1>2
  <2> QED BY <1>1, <1>2, <2>1, <2>2, AddedKeeps
<1>3. CASE v4[p].column \notin v2.columns /\ Keep!Goes(p, "alter")
  <2>1. Keep!ProcOK(p)'
    BY <1>1, <1>3, OpenGoesTo DEF Keep!VaultInv, Keep!ProcOK
  <2>2. Keep!Opening(p)
    BY <1>1 DEF Keep!Opening
  <2> QED BY <1>1, <1>3, <2>1, <2>2, GoesKeeps
<1> QED BY <1>2, <1>3 DEF Keep!Check

LEMMA AlterKeeps == ASSUME Keep!VaultInv, NEW p \in Opener, Keep!Alter(p) PROVE Keep!VaultInv'
<1>1. /\ v4[p].at = "alter" /\ UNCHANGED <<v1, v3, v5, v6, v7>>
      /\ "failed" \in Stations
  BY DEF Keep!Alter, Keep!Still, Stations
<1>2. CASE v4[p].column \in v2.columns /\ Keep!Goes(p, "failed") /\ UNCHANGED v2
  <2>1. v4[p].met
    BY <1>1, <1>2 DEF Keep!VaultInv, Keep!ProcOK
  <2>2. Keep!ProcOK(p)'
    BY <1>1, <1>2, <2>1, OpenGoesTo DEF Keep!ProcOK
  <2>3. Keep!Opening(p)
    BY <1>1 DEF Keep!Opening
  <2> QED BY <1>1, <1>2, <2>2, <2>3, GoesKeeps
<1>3. CASE /\ v2' = [v2 EXCEPT !.columns = @ \union {v4[p].column}]
           /\ v4' = Keep!Added(p)
  <2>1. v2 \in [tables : {"none", "oldest", "early", "all"}, columns : SUBSET Keep!AllColumns]
        /\ v4[p].column \in Keep!AllColumns
    BY <1>1 DEF Keep!VaultInv, Keep!VaultTyped, Keep!ProcOK
  <2>2. /\ v2' \in [tables : {"none", "oldest", "early", "all"}, columns : SUBSET Keep!AllColumns]
        /\ v2'.tables = v2.tables
        /\ v2'.columns = v2.columns \union {v4[p].column}
    BY <1>3, <2>1
  <2> QED BY <1>1, <1>3, <2>2, AddedKeeps
<1> QED BY <1>2, <1>3 DEF Keep!Alter

LEMMA RestrictKeeps ==
  ASSUME Keep!VaultInv, NEW p \in Opener, Keep!restrictDatabaseFiles(p) PROVE Keep!VaultInv'
<1>1. /\ v4[p].at = "restrict" /\ UNCHANGED <<v2, v3, v5, v6, v7>>
      /\ Keep!Opening(p) /\ "open" \in Stations
  BY DEF Keep!restrictDatabaseFiles, Keep!Still, Keep!Opening, Stations
<1>2. CASE v1' = [v1 EXCEPT !.mode = "private"] /\ Keep!Goes(p, "open")
  <2>1. /\ v1' \in [mode : {"none", "wide", "private"}, wal : BOOLEAN]
        /\ v1'.wal = v1.wal /\ v1'.mode = "private"
    BY <1>2 DEF Keep!VaultInv, Keep!VaultTyped
  <2>2. Keep!VaultTyped'
    BY <1>1, <1>2, <2>1, OpenGoesTo DEF Keep!VaultInv, Keep!VaultTyped, ProcRecord, Stations
  <2>3. Keep!ProcOK(p)'
    BY <1>1, <1>2, <2>1, OpenGoesTo DEF Keep!VaultInv, Keep!ProcOK
  <2>4. Moves(p) /\ Unseen(p)
    BY <1>1, <1>2, <2>1, <2>2, <2>3, OpenGoesTo DEF Moves, Unseen
  <2> QED BY <2>4, MovesKeep
<1>3. CASE UNCHANGED v1 /\ v4' = [v4 EXCEPT ![p].at = "open", ![p].ignored = TRUE]
  <2>1. v4 \in [Opener -> ProcRecord]
    BY DEF Keep!VaultInv, Keep!VaultTyped, ProcRecord, Stations
  <2> DEFINE r == [v4[p] EXCEPT !.at = "open", !.ignored = TRUE]
  <2>2. r \in ProcRecord /\ r.at = "open" /\ r.met = v4[p].met /\ r.ignored
    BY <1>1, <2>1 DEF ProcRecord
  <2>3. v4' = [v4 EXCEPT ![p] = r]
    BY <1>3
  <2> HIDE DEF r
  <2>4. /\ v4' \in [Opener -> ProcRecord] /\ v4'[p] = r
        /\ \A q \in Opener : q # p => v4'[q] = v4[q]
    BY <2>1, <2>2, <2>3
  <2>5. Keep!VaultTyped'
    BY <1>1, <1>3, <2>4 DEF Keep!VaultInv, Keep!VaultTyped, ProcRecord, Stations
  <2>6. Keep!ProcOK(p)'
    BY <1>1, <1>3, <2>2, <2>4 DEF Keep!VaultInv, Keep!ProcOK
  <2>7. Moves(p) /\ Unseen(p)
    BY <1>1, <1>3, <2>2, <2>4, <2>5, <2>6 DEF Moves, Unseen
  <2> QED BY <2>7, MovesKeep
<1> QED BY <1>2, <1>3 DEF Keep!restrictDatabaseFiles, Keep!Restricted

LEMMA ClosedKeeps ==
  ASSUME Keep!VaultInv, NEW p \in Opener, Keep!Close(p) \/ Keep!Kill(p)
  PROVE  Keep!VaultInv'
<1>1. v4' = [v4 EXCEPT ![p] = Keep!Closed] /\ UNCHANGED <<v1, v2, v3, v5, v6, v7>>
  BY DEF Keep!Close, Keep!Kill, Keep!Still, Keep!store
<1>2. Keep!Closed \in ProcRecord /\ Keep!Closed.at = "closed"
  BY DEF Keep!Closed, ProcRecord, Stations
<1>3. v4 \in [Opener -> ProcRecord]
  BY DEF Keep!VaultInv, Keep!VaultTyped, ProcRecord, Stations
<1>4. /\ v4' \in [Opener -> ProcRecord] /\ v4'[p].at = "closed"
      /\ \A q \in Opener : q # p => v4'[q] = v4[q]
  BY <1>1, <1>2, <1>3
<1>5. Keep!VaultTyped'
  BY <1>1, <1>4 DEF Keep!VaultInv, Keep!VaultTyped, ProcRecord, Stations
<1>6. Keep!ProcOK(p)' /\ ~Keep!Opening(p)'
  BY <1>4 DEF Keep!ProcOK, Keep!Opening
<1>7. Moves(p) /\ Unseen(p)
  BY <1>1, <1>4, <1>5, <1>6 DEF Moves, Unseen
<1> QED BY <1>7, MovesKeep

LEMMA AppendKeeps == ASSUME Keep!VaultInv, NEW p \in Opener, Keep!Append(p) PROVE Keep!VaultInv'
<1>1. v3' = v3 + 1 /\ UNCHANGED <<v1, v2, v4, v5, v6, v7>>
  BY DEF Keep!Append
<1>2. Keep!BackupOK'
  BY <1>1, BackupTyped DEF Keep!VaultInv, Keep!BackupOK, Keep!CopyMode
<1> QED BY <1>1, <1>2, StoreSame

\* Every step of a process or a backup keeps the invariant of the store.
LEMMA VaultStep == Keep!VaultInv /\ Keep!Next => Keep!VaultInv'
<1> SUFFICES ASSUME Keep!VaultInv, Keep!Next PROVE Keep!VaultInv'
  OBVIOUS
<1>1. ASSUME NEW p \in Opener,
             \/ Keep!Start(p) \/ Keep!SetWal(p) \/ Keep!Busy(p) \/ Keep!EarlyTables(p)
             \/ Keep!Index(p) \/ Keep!LateTables(p) \/ Keep!Check(p) \/ Keep!Alter(p)
             \/ Keep!restrictDatabaseFiles(p) \/ Keep!Append(p) \/ Keep!Close(p) \/ Keep!Kill(p)
      PROVE  Keep!VaultInv'
  BY <1>1, StartKeeps, WalKeeps, BusyKeeps, EarlyKeeps, IndexKeeps, LateKeeps, CheckKeeps,
     AlterKeeps, RestrictKeeps, AppendKeeps, ClosedKeeps
<1>2. CASE \E format \in {"sqlite", "tgz"} : Keep!backupStore(format)
  BY <1>2, BeginKeeps
<1>3. CASE Keep!vacuumInto \/ Keep!DiskFull \/ Keep!verify \/ Keep!tar
           \/ Keep!restrictPath \/ Keep!KillBackup \/ Keep!Appear
  BY <1>3, VacuumKeeps, FullKeeps, VerifyKeeps, TarKeeps, RestrictCopyKeeps, KillBackupKeeps,
     UserFileKeeps
<1> QED BY <1>1, <1>2, <1>3 DEF Keep!Next

LEMMA VaultStutters == Keep!VaultInv /\ UNCHANGED Keep!vars => Keep!VaultInv'
<1> SUFFICES ASSUME Keep!VaultInv, UNCHANGED Keep!vars PROVE Keep!VaultInv'
  OBVIOUS
<1>1. Keep!BackupOK' /\ UNCHANGED <<v1, v2, v4>>
  BY DEF Keep!vars, Keep!VaultInv, Keep!BackupOK, Keep!CopyMode
<1> QED BY <1>1, StoreSame

(***************************************************************************)
(* The skills installer (Skil!).  v1: the version installed, v2: the       *)
(* files, v3: who wrote each, v4: the stamps, v5: the running command, v7: *)
(* the edits of the user, v9: where a stamp names a file that is not       *)
(* suasor's, v10: where a kill took the evidence of a mirror.              *)
(***************************************************************************)

\* The constants, as the steps need them.
LEMMA Shelves ==
  /\ Name \subseteq Nat /\ Host \subseteq Nat /\ Retired \subseteq Name
  /\ \A v \in Skil!Versions : Skil!Bundled(v) \subseteq Name
  /\ \A v \in Skil!Versions : \A n \in Skil!Bundled(v) : Catalogs[v][n] \in Skil!Texts
  /\ \A v \in Skil!Versions : \A n \in Skil!Bundled(v) : Catalogs[v][n] # Skil!Absent
<1>1. /\ Name \subseteq Nat /\ Host \subseteq Nat /\ Retired \subseteq Name
      /\ \A v \in Skil!Versions : Skil!Bundled(v) \subseteq Name
      /\ \A v \in Skil!Versions : \A n \in Skil!Bundled(v) : Catalogs[v][n] # Skil!Absent
  BY DeskAssumption DEF Skil!SkillsConstants
<1>2. ASSUME NEW v \in Skil!Versions, NEW n \in Skil!Bundled(v)
      PROVE  Catalogs[v][n] \in Skil!Texts
  <2>1. Catalogs[v][n] \in Skil!Bodies
    BY DEF Skil!Bodies
  <2> QED BY <2>1 DEF Skil!Texts
<1> QED BY <1>1, <1>2

\* A place is its name and its host.
LEMMA PlaceParts ==
  ASSUME NEW p \in Skil!Place
  PROVE  p[1] \in Name /\ p[2] \in Host /\ p = <<p[1], p[2]>>
BY DEF Skil!Place

\* The first of some places is one of them ...
LEMMA FirstOf ==
  ASSUME NEW P \in SUBSET Skil!Place, P # {}
  PROVE  Skil!First(P) \in P
<1>1. \A p \in P : p[1] \in Nat /\ p[2] \in Nat
  BY Shelves, PlaceParts
<1> DEFINE T == {p[1] : p \in P}
<1>2. PICK n \in T : \A k \in T : n <= k
  <2>1. T \in SUBSET Nat /\ T # {}
    BY <1>1
  <2> QED BY <2>1, NatMin
<1> DEFINE U == {p[2] : p \in {q \in P : q[1] = n}}
<1>3. PICK h \in U : \A k \in U : h <= k
  <2>1. U \in SUBSET Nat /\ U # {}
    BY <1>1
  <2> QED BY <2>1, NatMin
<1>4. PICK p \in P : p[1] = n /\ p[2] = h
  OBVIOUS
<1>5. \A q \in P : p[1] < q[1] \/ (p[1] = q[1] /\ p[2] <= q[2])
  <2> SUFFICES ASSUME NEW q \in P
               PROVE  p[1] < q[1] \/ (p[1] = q[1] /\ p[2] <= q[2])
    OBVIOUS
  <2>1. p[1] <= q[1]
    BY <1>2, <1>4
  <2>2. CASE q[1] = p[1]
    BY <2>2, <1>3, <1>4
  <2>3. CASE q[1] # p[1]
    BY <2>1, <2>3, <1>1
  <2> QED BY <2>2, <2>3
<1> QED BY <1>5, Zenon DEF Skil!First

\* ... and the first of some hosts.
LEMMA EarliestOf ==
  ASSUME NEW H \in SUBSET Host, H # {}
  PROVE  Skil!Earliest(H) \in H
<1>1. \E h \in H : \A k \in H : h <= k
  BY Shelves, NatMin
<1> QED BY <1>1, Zenon DEF Skil!Earliest

\* No file is suasor's at first.
LEMMA SkillsStarts == Skil!Init => Skil!SkillsInv
<1> SUFFICES ASSUME Skil!Init PROVE Skil!SkillsInv
  OBVIOUS
<1>1. Skil!SkillsTyped
  BY DEF Skil!Init, Skil!SkillsTyped, Skil!Stamps, Skil!Texts, Skil!None, Skil!Idle
<1>2. Skil!InstallOK /\ Skil!PruneOK
  BY DEF Skil!Init, Skil!InstallOK, Skil!PruneOK, Skil!Idle
<1>3. \A p \in Skil!Place : Skil!FileOK(p)
  BY PlaceParts DEF Skil!Init, Skil!FileOK, Skil!None, Skil!Absent
<1> QED BY <1>1, <1>2, <1>3 DEF Skil!SkillsInv

\* Between commands nothing is half done.
LEMMA AtRest ==
  ASSUME v5.kind = Skil!Idle
  PROVE  Skil!Unpruned = {} /\ Skil!Mirrored = {}
BY DEF Skil!Unpruned, Skil!Mirrored, Skil!Idle

\* An install starts with every mirror before it.
LEMMA InstallKeeps ==
  ASSUME Skil!SkillsInv, NEW hosts \in SUBSET Host, hosts # {}, NEW force, Skil!Install(hosts, force)
  PROVE  Skil!SkillsInv'
<1>1. /\ v5.kind = Skil!Idle
      /\ v5' = [kind |-> "install", todo |-> Skil!Bundled(v1) \X hosts, hosts |-> hosts,
                 force |-> force, owned |-> [h \in hosts |-> Skil!Owned(h)], skipped |-> {}]
      /\ UNCHANGED <<v1, v2, v3, v4, v7, v9, v10>>
  BY DEF Skil!Install, Skil!files
<1>2. Skil!SkillsTyped'
  BY <1>1 DEF Skil!SkillsInv, Skil!SkillsTyped
<1>3. Skil!Bundled(v1)' = Skil!Bundled(v1) /\ \A h \in hosts : Skil!Owned(h)' = Skil!Owned(h)
  BY <1>1 DEF Skil!Bundled, Skil!Owned
<1>4. Skil!InstallOK'
  BY <1>1, <1>3 DEF Skil!InstallOK, Skil!Finished
<1>5. Skil!PruneOK' /\ Skil!Unpruned' = {}
  BY <1>1 DEF Skil!PruneOK, Skil!Unpruned
<1>6. ASSUME NEW p \in Skil!Place PROVE Skil!FileOK(p)'
  BY <1>1, <1>5, AtRest DEF Skil!SkillsInv, Skil!FileOK, Skil!Owned
<1> QED BY <1>2, <1>4, <1>5, <1>6 DEF Skil!SkillsInv

\* An install at work on its next mirror.
LEMMA Turn ==
  ASSUME Skil!SkillsInv, v5.kind = "install", v5.todo # {}, NEW p, p = Skil!First(v5.todo)
  PROVE  /\ p \in v5.todo /\ p \in Skil!Place /\ p[1] \in Skil!Bundled(v1) /\ p[2] \in v5.hosts
         /\ p[1] \in Name /\ p[2] \in Host /\ p \notin v5.skipped
         /\ Catalogs[v1][p[1]] \in Skil!Texts /\ Catalogs[v1][p[1]] # Skil!Absent
         /\ Skil!Unpruned = {}
<1>1. /\ v1 \in Skil!Versions /\ v5.todo \subseteq Skil!Bundled(v1) \X v5.hosts
      /\ v5.hosts \subseteq Host /\ v5.skipped \intersect v5.todo = {}
  BY DEF Skil!SkillsInv, Skil!SkillsTyped, Skil!InstallOK
<1>2. v5.todo \in SUBSET Skil!Place
  BY <1>1, Shelves DEF Skil!Place
<1>3. p \in v5.todo
  BY <1>2, FirstOf
<1>4. p \in Skil!Place /\ p[1] \in Skil!Bundled(v1) /\ p[2] \in v5.hosts /\ p \notin v5.skipped
  BY <1>1, <1>2, <1>3
<1> QED BY <1>1, <1>3, <1>4, Shelves, PlaceParts DEF Skil!Unpruned

\* A turn of the loop takes its place off the list, and may put it among those skipped.
LEMMA TurnKeeps ==
  ASSUME Skil!SkillsInv, v5.kind = "install", v5.todo # {}, NEW p, p = Skil!First(v5.todo),
         NEW skipping \in {{}, {p}},
         v5' = [v5 EXCEPT !.todo = @ \ {p}, !.skipped = @ \union skipping],
         UNCHANGED <<v1, v4>>,
         \A q \in Skil!Place \ {p} : v3'[q] = v3[q] /\ (q \in v9 => q \in v9'),
         skipping = {p} \/ v3'[p] = "suasor" \/ p \in v9'
  PROVE  Skil!InstallOK' /\ Skil!PruneOK' /\ Skil!Unpruned' = {}
         /\ (skipping = {p} => Skil!Mirrored' = Skil!Mirrored)
         /\ (skipping = {} => Skil!Mirrored' = Skil!Mirrored \union {p})
<1>1. /\ v5 = [kind |-> "install", todo |-> v5.todo, hosts |-> v5.hosts, force |-> v5.force,
                owned |-> v5.owned, skipped |-> v5.skipped]
      /\ v5.hosts \subseteq Host /\ v5.hosts # {}
      /\ v5.todo \subseteq Skil!Bundled(v1) \X v5.hosts /\ v5.skipped \intersect v5.todo = {}
      /\ \A h \in v5.hosts : v5.owned[h] = Skil!Owned(h)
      /\ \A q \in Skil!Finished : q \in v5.skipped \/ v3[q] = "suasor" \/ q \in v9
  BY DEF Skil!SkillsInv, Skil!InstallOK
<1>2. /\ p \in v5.todo /\ p \notin v5.skipped /\ p \in Skil!Place
  BY Turn
<1>3. v5' = [kind |-> "install", todo |-> v5.todo \ {p}, hosts |-> v5.hosts, force |-> v5.force,
              owned |-> v5.owned, skipped |-> v5.skipped \union skipping]
  BY <1>1
<1>4. /\ v5'.kind = "install" /\ v5'.todo = v5.todo \ {p} /\ v5'.hosts = v5.hosts
      /\ v5'.owned = v5.owned /\ v5'.skipped = v5.skipped \union skipping
      /\ v5' = [kind |-> "install", todo |-> v5'.todo, hosts |-> v5'.hosts, force |-> v5'.force,
                 owned |-> v5'.owned, skipped |-> v5'.skipped]
  BY <1>3
<1>5. Skil!Bundled(v1)' = Skil!Bundled(v1) /\ \A h \in v5.hosts : Skil!Owned(h)' = Skil!Owned(h)
  BY DEF Skil!Bundled, Skil!Owned
<1>6. Skil!Finished' = Skil!Finished \union {p} /\ p \notin Skil!Finished
  BY <1>1, <1>2, <1>4, <1>5 DEF Skil!Finished
<1>7. Skil!Finished \subseteq Skil!Place
  BY <1>1, Shelves DEF Skil!Finished, Skil!Place, Skil!SkillsInv, Skil!SkillsTyped
<1>8. \A q \in Skil!Finished' : q \in v5'.skipped \/ v3'[q] = "suasor" \/ q \in v9'
  BY <1>1, <1>4, <1>6, <1>7
<1>9. Skil!InstallOK'
  BY <1>1, <1>2, <1>4, <1>5, <1>8 DEF Skil!InstallOK
<1>10. Skil!PruneOK' /\ Skil!Unpruned' = {}
  BY <1>4 DEF Skil!PruneOK, Skil!Unpruned
<1>11. /\ skipping = {p} => Skil!Mirrored' = Skil!Mirrored
       /\ skipping = {} => Skil!Mirrored' = Skil!Mirrored \union {p}
  BY <1>2, <1>4, <1>6 DEF Skil!Mirrored
<1> QED BY <1>9, <1>10, <1>11

\* A mirror is written, found in place or skipped.
LEMMA MirrorKeeps ==
  ASSUME Skil!SkillsInv, Skil!Mirror
  PROVE  Skil!SkillsInv'
<1>1. v5.kind = "install" /\ v5.todo # {} /\ UNCHANGED <<v1, v4, v6, v7, v8, v10>>
  BY DEF Skil!Mirror, Skil!counts
<1> DEFINE p == Skil!First(v5.todo)
           source == Catalogs[v1][p[1]]
<1>2. /\ p \in v5.todo /\ p \in Skil!Place /\ p \notin v5.skipped
      /\ source \in Skil!Texts /\ source # Skil!Absent /\ Skil!Unpruned = {}
  BY <1>1, Turn
<1>3. Skil!SkillsTyped /\ (\A q \in Skil!Place : Skil!FileOK(q))
  BY DEF Skil!SkillsInv
<1>4. v5 = [kind |-> "install", todo |-> v5.todo, hosts |-> v5.hosts, force |-> v5.force,
             owned |-> v5.owned, skipped |-> v5.skipped]
  BY <1>1 DEF Skil!SkillsInv, Skil!InstallOK
<1>5. \/ /\ v2[p] = source
         /\ v5' = [v5 EXCEPT !.todo = @ \ {p}]
         /\ v9' = IF v3[p] = "user" THEN v9 \union {p} ELSE v9
         /\ UNCHANGED <<v2, v3>>
      \/ /\ v2[p] # source /\ Skil!MayReplace(p)
         /\ Skil!Put(p, source, "suasor")
         /\ v5' = [v5 EXCEPT !.todo = @ \ {p}]
         /\ v9' = v9 \ {p}
      \/ /\ v2[p] # source /\ ~Skil!MayReplace(p)
         /\ v5' = [v5 EXCEPT !.todo = @ \ {p}, !.skipped = @ \union {p}]
         /\ UNCHANGED <<v2, v3, v9>>
  BY <1>1 DEF Skil!Mirror, Skil!files
<1> HIDE DEF p, source
<1>6. p = Skil!First(v5.todo)
  BY DEF p
<1>7. CASE /\ v2[p] = source
           /\ v5' = [v5 EXCEPT !.todo = @ \ {p}]
           /\ v9' = IF v3[p] = "user" THEN v9 \union {p} ELSE v9
           /\ UNCHANGED <<v2, v3>>
  <2>1. v5' = [v5 EXCEPT !.todo = @ \ {p}, !.skipped = @ \union {}]
    BY <1>4, <1>7
  <2>2. v3'[p] = "suasor" \/ p \in v9'
    BY <1>2, <1>3, <1>7 DEF Skil!FileOK, Skil!SkillsTyped
  <2>3. Skil!InstallOK' /\ Skil!PruneOK' /\ Skil!Unpruned' = {} /\ Skil!Mirrored' = Skil!Mirrored \union {p}
    <3>1. \A q \in Skil!Place \ {p} : v3'[q] = v3[q] /\ (q \in v9 => q \in v9')
      BY <1>7
    <3> QED BY <1>1, <1>6, <2>1, <2>2, <3>1, TurnKeeps, Zenon
  <2>4. Skil!SkillsTyped'
    BY <1>1, <1>3, <1>7, <2>1, <1>4 DEF Skil!SkillsTyped
  <2>5. ASSUME NEW q \in Skil!Place PROVE Skil!FileOK(q)'
    BY <1>1, <1>2, <1>3, <1>7, <2>3 DEF Skil!FileOK, Skil!Owned
  <2> QED BY <2>3, <2>4, <2>5 DEF Skil!SkillsInv
<1>8. CASE /\ v2[p] # source /\ Skil!MayReplace(p)
           /\ Skil!Put(p, source, "suasor")
           /\ v5' = [v5 EXCEPT !.todo = @ \ {p}]
           /\ v9' = v9 \ {p}
  <2>1. v5' = [v5 EXCEPT !.todo = @ \ {p}, !.skipped = @ \union {}]
    BY <1>4, <1>8
  <2>2. /\ v2' = [v2 EXCEPT ![p] = source] /\ v3' = [v3 EXCEPT ![p] = "suasor"]
    BY <1>8 DEF Skil!Put
  <2>3. /\ v2'[p] = source /\ v3'[p] = "suasor"
        /\ \A q \in Skil!Place \ {p} : v2'[q] = v2[q] /\ v3'[q] = v3[q]
    BY <1>2, <1>3, <2>2 DEF Skil!SkillsTyped
  <2>4. Skil!InstallOK' /\ Skil!PruneOK' /\ Skil!Unpruned' = {} /\ Skil!Mirrored' = Skil!Mirrored \union {p}
    <3>1. \A q \in Skil!Place \ {p} : v3'[q] = v3[q] /\ (q \in v9 => q \in v9')
      BY <1>8, <2>3
    <3> QED BY <1>1, <1>6, <2>1, <2>3, <3>1, TurnKeeps, Zenon
  <2>5. Skil!SkillsTyped'
    <3>1. v5'.kind = "install"
      BY <1>4, <1>8
    <3> QED BY <1>1, <1>2, <1>3, <2>2, <3>1 DEF Skil!SkillsTyped
  <2>6. ASSUME NEW q \in Skil!Place PROVE Skil!FileOK(q)'
    <3>1. CASE q = p
      BY <3>1, <1>2, <2>3, <2>4 DEF Skil!FileOK, Skil!Absent
    <3>2. CASE q # p
      BY <3>2, <1>1, <1>2, <1>3, <1>8, <2>3, <2>4 DEF Skil!FileOK, Skil!Owned
    <3> QED BY <3>1, <3>2
  <2> QED BY <2>4, <2>5, <2>6 DEF Skil!SkillsInv
<1>9. CASE /\ v2[p] # source /\ ~Skil!MayReplace(p)
           /\ v5' = [v5 EXCEPT !.todo = @ \ {p}, !.skipped = @ \union {p}]
           /\ UNCHANGED <<v2, v3, v9>>
  <2>1. Skil!InstallOK' /\ Skil!PruneOK' /\ Skil!Unpruned' = {} /\ Skil!Mirrored' = Skil!Mirrored
    BY <1>1, <1>6, <1>9, TurnKeeps
  <2>2. Skil!SkillsTyped'
    <3>1. v5'.kind = "install"
      BY <1>4, <1>9
    <3> QED BY <1>1, <1>3, <1>9, <3>1 DEF Skil!SkillsTyped
  <2>3. ASSUME NEW q \in Skil!Place PROVE Skil!FileOK(q)'
    BY <1>1, <1>2, <1>3, <1>9, <2>1 DEF Skil!FileOK, Skil!Owned
  <2> QED BY <2>1, <2>2, <2>3 DEF Skil!SkillsInv
<1> QED BY <1>5, <1>7, <1>8, <1>9

\* What a stamp does to one host's record.
LEMMA Stamped ==
  ASSUME Skil!SkillsTyped, NEW h \in Host, NEW s \in Skil!Stamps,
         Skil!Stamp(h, s)
  PROVE  /\ v4' \in [Host -> Skil!Stamps]
         /\ v4'[h] = s /\ \A k \in Host \ {h} : v4'[k] = v4[k]
         /\ \A p \in Skil!Place : p \in v9' <=> p \in v9 /\ (p[2] = h => p[1] \in s.names)
         /\ \A p \in Skil!Place : p \in v10' <=> p \in v10 /\ (p[2] = h => p[1] \notin s.names)
BY DEF Skil!SkillsTyped, Skil!Stamp

\* The stamp of a host takes over from the running install.
LEMMA WriteStampKeeps ==
  ASSUME Skil!SkillsInv, Skil!WriteStamp
  PROVE  Skil!SkillsInv'
<1>1. /\ v5.kind = "install" /\ v5.todo = {} /\ v5.hosts # {}
      /\ UNCHANGED <<v1, v2, v3, v7>>
  BY DEF Skil!WriteStamp, Skil!files, Skil!counts
<1>2. /\ v5 = [kind |-> "install", todo |-> v5.todo, hosts |-> v5.hosts, force |-> v5.force,
                owned |-> v5.owned, skipped |-> v5.skipped]
      /\ v5.hosts \subseteq Host
      /\ \A p \in Skil!Finished : p \in v5.skipped \/ v3[p] = "suasor" \/ p \in v9
  BY <1>1 DEF Skil!SkillsInv, Skil!InstallOK
<1>3. Skil!SkillsTyped /\ (\A p \in Skil!Place : Skil!FileOK(p)) /\ Skil!Unpruned = {}
  BY <1>1 DEF Skil!SkillsInv, Skil!Unpruned
<1> DEFINE h == Skil!Earliest(v5.hosts)
           s == [version |-> v1, names |-> Skil!Claimed(h) \union Skil!Carried(h)]
<1>4. h \in v5.hosts /\ h \in Host
  BY <1>1, <1>2, EarliestOf
<1>5. s \in Skil!Stamps
  BY <1>3, <1>4, Shelves DEF Skil!SkillsTyped, Skil!Stamps, Skil!Claimed, Skil!Carried
<1>6. /\ v4' \in [Host -> Skil!Stamps]
      /\ v4'[h] = s /\ \A k \in Host \ {h} : v4'[k] = v4[k]
      /\ \A p \in Skil!Place : p \in v9' <=> p \in v9 /\ (p[2] = h => p[1] \in s.names)
      /\ \A p \in Skil!Place : p \in v10' <=> p \in v10 /\ (p[2] = h => p[1] \notin s.names)
  BY <1>3, <1>4, <1>5, Stamped DEF Skil!WriteStamp
<1>7. v5' = IF v5.hosts = {h} THEN [kind |-> Skil!Idle] ELSE [v5 EXCEPT !.hosts = @ \ {h}]
  BY DEF Skil!WriteStamp
<1>8. \A n : n \in s.names <=> n \in Skil!Claimed(h) \/ n \in Skil!Carried(h)
  OBVIOUS
<1>9. \A n \in Name : n \in Skil!Claimed(h) <=> <<n, h>> \in Skil!Mirrored
  BY <1>1, <1>4, Shelves DEF Skil!Mirrored, Skil!Finished, Skil!Claimed
<1>10. \A n \in Name : n \in Skil!Carried(h) <=>
          n \in v4[h].names /\ n \notin Skil!Claimed(h) /\ v2[<<n, h>>] # Skil!Absent
  BY DEF Skil!Carried
<1> HIDE DEF h, s
<1>11. Skil!SkillsTyped'
  <2>1. v5'.kind \in {Skil!Idle, "install", "prune"}
    BY <1>2, <1>7
  <2> QED BY <1>1, <1>3, <1>6, <2>1 DEF Skil!SkillsTyped
\* The stamp's own host: the names in it are of mirrors, and of every mirror.
<1>12. ASSUME NEW p \in Skil!Place, p[2] = h
       PROVE  /\ v2'[p] = Skil!Absent <=> v3'[p] = "nobody"
              /\ p[1] \in v4'[p[2]].names /\ v3'[p] # "suasor" => p \in v9'
              /\ v3'[p] = "suasor" => p[1] \in Skil!Owned(p[2])' \/ p \in v10'
  <2>1. p[1] \in Name /\ p = <<p[1], h>>
    BY <1>12, PlaceParts
  <2>2. p[1] \in Skil!Claimed(h) <=> p \in Skil!Mirrored
    BY <2>1, <1>9
  <2>3. p[1] \in Skil!Carried(h) <=>
          p[1] \in v4[h].names /\ p[1] \notin Skil!Claimed(h) /\ v2[p] # Skil!Absent
    BY <2>1, <1>10
  <2>4. /\ v2[p] = Skil!Absent <=> v3[p] = "nobody"
        /\ p[1] \in v4[h].names /\ v3[p] # "suasor" => p \in v9
        /\ v3[p] = "suasor" => p[1] \in v4[h].names \/ p[1] \in Retired \/ p \in v10 \/ p \in Skil!Mirrored
    BY <1>3, <1>12 DEF Skil!FileOK, Skil!Owned
  <2>5. p \in Skil!Mirrored /\ v3[p] # "suasor" => p \in v9
    BY <1>1, <1>2 DEF Skil!Mirrored
  <2>6. p \in v9' <=> p \in v9 /\ p[1] \in s.names
    BY <1>6, <1>12
  <2>7. p \in v10' <=> p \in v10 /\ p[1] \notin s.names
    BY <1>6, <1>12
  <2>8. p[1] \in Skil!Owned(p[2])' <=> p[1] \in s.names \/ p[1] \in Retired
    BY <1>6, <1>12 DEF Skil!Owned
  <2>9. v2'[p] = v2[p] /\ v3'[p] = v3[p] /\ v4'[p[2]].names = s.names
    BY <1>1, <1>6, <1>12
  <2>10. p[1] \in s.names <=> p[1] \in Skil!Claimed(h) \/ p[1] \in Skil!Carried(h)
    BY <1>8
  <2>11. p[1] \in s.names /\ v3[p] # "suasor" => p \in v9
    BY <2>2, <2>3, <2>4, <2>5, <2>10
  <2>12. v3[p] = "suasor" => p[1] \in s.names \/ p[1] \in Retired \/ p \in v10
    <3>1. v3[p] = "suasor" => v2[p] # Skil!Absent
      BY <2>4
    <3>2. v3[p] = "suasor" /\ p[1] \in v4[h].names => p[1] \in s.names
      BY <3>1, <2>3, <2>10
    <3> QED BY <3>2, <2>2, <2>4, <2>10
  <2> QED BY <2>4, <2>6, <2>7, <2>8, <2>9, <2>11, <2>12
<1>13. CASE v5.hosts = {h}
  <2>1. v5'.kind = Skil!Idle
    BY <1>7, <1>13
  <2>2. Skil!InstallOK' /\ Skil!PruneOK' /\ Skil!Unpruned' = {}
    BY <2>1 DEF Skil!InstallOK, Skil!PruneOK, Skil!Unpruned, Skil!Idle
  <2>3. \A p \in Skil!Place : p \in Skil!Mirrored => p[2] = h
    BY <1>1, <1>13, PlaceParts DEF Skil!Mirrored, Skil!Finished
  <2>4. ASSUME NEW p \in Skil!Place PROVE Skil!FileOK(p)'
    <3>1. p[1] \in Name /\ p[2] \in Host /\ p = <<p[1], p[2]>>
      BY PlaceParts
    <3>2. CASE p[2] = h
      BY <3>2, <1>12 DEF Skil!FileOK
    <3>3. CASE p[2] # h
      BY <3>1, <3>3, <1>1, <1>3, <1>6, <2>2, <2>3 DEF Skil!FileOK, Skil!Owned
    <3> QED BY <3>2, <3>3
  <2> QED BY <1>11, <2>2, <2>4 DEF Skil!SkillsInv
<1>14. CASE v5.hosts # {h}
  <2>1. v5' = [kind |-> "install", todo |-> {}, hosts |-> v5.hosts \ {h}, force |-> v5.force,
                owned |-> v5.owned, skipped |-> v5.skipped]
    BY <1>1, <1>2, <1>7, <1>14
  <2>2. Skil!Bundled(v1)' = Skil!Bundled(v1)
    BY <1>1 DEF Skil!Bundled
  <2>3. \A p \in Skil!Place : p \in Skil!Finished' <=> p \in Skil!Finished /\ p[2] # h
    BY <1>1, <2>1, <2>2, PlaceParts DEF Skil!Finished
  <2>4. Skil!Finished' \subseteq Skil!Place
    BY <1>2, <1>3, <2>1, <2>2, Shelves DEF Skil!Finished, Skil!Place, Skil!SkillsTyped
  <2>5. \A p \in Skil!Finished' : p \in v5'.skipped \/ v3'[p] = "suasor" \/ p \in v9'
    BY <1>1, <1>2, <1>6, <2>1, <2>3, <2>4
  <2>6. Skil!InstallOK'
    BY <1>2, <1>4, <1>14, <2>1, <2>5 DEF Skil!InstallOK
  <2>7. Skil!PruneOK' /\ Skil!Unpruned' = {}
    BY <2>1 DEF Skil!PruneOK, Skil!Unpruned
  <2>8. \A p \in Skil!Place : p \in Skil!Mirrored' <=> p \in Skil!Mirrored /\ p[2] # h
    BY <1>1, <2>1, <2>3 DEF Skil!Mirrored
  <2>9. ASSUME NEW p \in Skil!Place PROVE Skil!FileOK(p)'
    <3>1. p[1] \in Name /\ p[2] \in Host /\ p = <<p[1], p[2]>>
      BY PlaceParts
    <3>2. CASE p[2] = h
      BY <3>2, <1>12 DEF Skil!FileOK
    <3>3. CASE p[2] # h
      BY <3>1, <3>3, <1>1, <1>3, <1>6, <2>7, <2>8 DEF Skil!FileOK, Skil!Owned
    <3> QED BY <3>2, <3>3
  <2> QED BY <1>11, <2>6, <2>7, <2>9 DEF Skil!SkillsInv
<1> QED BY <1>13, <1>14

\* A prune lists what it can show to be suasor's.
LEMMA PruneKeeps ==
  ASSUME Skil!SkillsInv, NEW hosts \in SUBSET Host, Skil!Prune(hosts)
  PROVE  Skil!SkillsInv'
<1>1. /\ v5.kind = Skil!Idle
      /\ UNCHANGED <<v1, v2, v3, v4, v7, v9, v10>>
  BY DEF Skil!Prune, Skil!files
<1> DEFINE orphans == Skil!orphanStatuses(hosts)
<1>2. v5' = IF orphans = {} THEN v5 ELSE [kind |-> "prune", todo |-> orphans, gone |-> orphans]
  BY DEF Skil!Prune
<1>3. orphans \subseteq Skil!Place /\ \A p \in orphans : p[1] \in Skil!Owned(p[2])
  BY DEF Skil!orphanStatuses, Skil!Place
<1> HIDE DEF orphans
<1>4. Skil!SkillsTyped /\ \A p \in Skil!Place : Skil!FileOK(p)
  BY DEF Skil!SkillsInv
<1>5. Skil!SkillsTyped'
  BY <1>1, <1>2, <1>4 DEF Skil!SkillsTyped
<1>6. \A p : p[1] \in Skil!Owned(p[2]) => p[1] \in Skil!Owned(p[2])'
  BY <1>1 DEF Skil!Owned
<1>7. Skil!Unpruned' = {}
  BY <1>1, <1>2 DEF Skil!Unpruned, Skil!Idle
<1>8. Skil!InstallOK' /\ Skil!PruneOK'
  BY <1>1, <1>2, <1>3, <1>6 DEF Skil!InstallOK, Skil!PruneOK, Skil!Idle
<1>9. ASSUME NEW p \in Skil!Place PROVE Skil!FileOK(p)'
  BY <1>1, <1>4, <1>7, AtRest DEF Skil!FileOK, Skil!Owned
<1> QED BY <1>5, <1>8, <1>9 DEF Skil!SkillsInv

\* A deleted mirror is nobody's.
LEMMA RemoveKeeps ==
  ASSUME Skil!SkillsInv, Skil!Remove
  PROVE  Skil!SkillsInv'
<1>1. /\ v5.kind = "prune" /\ v5.todo # {}
      /\ UNCHANGED <<v1, v4, v7, v9, v10>>
  BY DEF Skil!Remove, Skil!counts
<1>2. /\ v5 = [kind |-> "prune", todo |-> v5.todo, gone |-> v5.gone]
      /\ v5.gone \subseteq Skil!Place /\ v5.gone # {} /\ v5.todo \subseteq v5.gone
      /\ \A p \in v5.todo : p[1] \in Skil!Owned(p[2])
      /\ \A p \in v5.gone \ v5.todo : v3[p] = "nobody"
  BY <1>1 DEF Skil!SkillsInv, Skil!PruneOK
<1>3. Skil!SkillsTyped /\ \A p \in Skil!Place : Skil!FileOK(p)
  BY DEF Skil!SkillsInv
<1> DEFINE p == Skil!First(v5.todo)
<1>4. p \in v5.todo /\ p \in Skil!Place
  BY <1>1, <1>2, FirstOf
<1>5. /\ v2' = [v2 EXCEPT ![p] = Skil!Absent] /\ v3' = [v3 EXCEPT ![p] = "nobody"]
      /\ v5' = [v5 EXCEPT !.todo = @ \ {p}]
  BY DEF Skil!Remove, Skil!Put
<1> HIDE DEF p
<1>6. v5' = [kind |-> "prune", todo |-> v5.todo \ {p}, gone |-> v5.gone]
  <2>1. v5 = [kind |-> "prune", todo |-> v5.todo, gone |-> v5.gone]
    BY <1>2
  <2>2. v5' = [v5 EXCEPT !.todo = @ \ {p}]
    BY <1>5
  <2> QED BY <2>1, <2>2
<1>7. /\ v2'[p] = Skil!Absent /\ v3'[p] = "nobody"
      /\ \A q \in Skil!Place \ {p} : v2'[q] = v2[q] /\ v3'[q] = v3[q]
  BY <1>3, <1>4, <1>5 DEF Skil!SkillsTyped
<1>8. Skil!SkillsTyped'
  BY <1>1, <1>3, <1>4, <1>5, <1>6 DEF Skil!SkillsTyped, Skil!Texts
<1>9. \A q : q[1] \in Skil!Owned(q[2]) => q[1] \in Skil!Owned(q[2])'
  BY <1>1 DEF Skil!Owned
<1>10. Skil!InstallOK'
  BY <1>6 DEF Skil!InstallOK
<1>11. Skil!PruneOK'
  BY <1>2, <1>6, <1>7, <1>9 DEF Skil!PruneOK
<1>12. Skil!Unpruned' = Skil!Unpruned \union {p} /\ Skil!Mirrored = {}
  BY <1>1, <1>2, <1>4, <1>6 DEF Skil!Unpruned, Skil!Mirrored
<1>13. ASSUME NEW q \in Skil!Place PROVE Skil!FileOK(q)'
  <2>1. CASE q = p
    BY <2>1, <1>7, <1>12 DEF Skil!FileOK
  <2>2. CASE q # p
    BY <2>2, <1>1, <1>3, <1>7, <1>9, <1>12 DEF Skil!FileOK
  <2> QED BY <2>1, <2>2
<1> QED BY <1>8, <1>10, <1>11, <1>13 DEF Skil!SkillsInv

\* A prune that is through with its deletions.
LEMMA Pruned ==
  ASSUME Skil!SkillsInv, v5.kind = "prune", v5.todo = {}
  PROVE  /\ v5 = [kind |-> "prune", todo |-> {}, gone |-> v5.gone]
         /\ v5.gone \subseteq Skil!Place /\ {p[2] : p \in v5.gone} \in SUBSET Host
         /\ Skil!Earliest({p[2] : p \in v5.gone}) \in {p[2] : p \in v5.gone}
         /\ Skil!Unpruned = v5.gone /\ Skil!Mirrored = {}
         /\ \A p \in v5.gone : v3[p] = "nobody"
<1>1. /\ v5 = [kind |-> "prune", todo |-> v5.todo, gone |-> v5.gone]
      /\ v5.gone \subseteq Skil!Place /\ v5.gone # {}
      /\ \A p \in v5.gone : v3[p] = "nobody"
  BY DEF Skil!SkillsInv, Skil!PruneOK
<1>2. {p[2] : p \in v5.gone} \in SUBSET Host /\ {p[2] : p \in v5.gone} # {}
  BY <1>1, PlaceParts
<1>3. Skil!Earliest({p[2] : p \in v5.gone}) \in {p[2] : p \in v5.gone}
  BY <1>2, EarliestOf
<1> QED BY <1>1, <1>2, <1>3 DEF Skil!Unpruned, Skil!Mirrored

\* The names of deleted mirrors leave the stamp.
LEMMA UnclaimKeeps ==
  ASSUME Skil!SkillsInv, Skil!Unclaim
  PROVE  Skil!SkillsInv'
<1>1. v5.kind = "prune" /\ v5.todo = {} /\ UNCHANGED <<v1, v2, v3, v7>>
  BY DEF Skil!Unclaim, Skil!files, Skil!counts
<1> DEFINE hosts == {p[2] : p \in v5.gone}
           h == Skil!Earliest(hosts)
<1>2. /\ v5 = [kind |-> "prune", todo |-> {}, gone |-> v5.gone]
      /\ v5.gone \subseteq Skil!Place /\ hosts \in SUBSET Host /\ h \in hosts /\ h \in Host
      /\ Skil!Unpruned = v5.gone /\ Skil!Mirrored = {}
      /\ \A p \in v5.gone : v3[p] = "nobody"
  BY <1>1, Pruned
<1>3. Skil!SkillsTyped /\ \A p \in Skil!Place : Skil!FileOK(p)
  BY DEF Skil!SkillsInv
<1>4. IF v4[h] = Skil!None THEN UNCHANGED <<v4, v9, v10>> ELSE Skil!Stamp(h, Skil!DropNames(h))
  BY DEF Skil!Unclaim
<1>5. v5' = IF hosts = {h} THEN [kind |-> Skil!Idle] ELSE [v5 EXCEPT !.gone = {p \in @ : p[2] # h}]
  BY DEF Skil!Unclaim
<1>6. hosts # {h} => \E p \in v5.gone : p[2] # h
  BY <1>2
<1>7. hosts = {h} => \A p \in v5.gone : p[2] = h
  OBVIOUS
<1> HIDE DEF hosts, h
<1>8. v4[h] \in Skil!Stamps
  BY <1>2, <1>3 DEF Skil!SkillsTyped
<1>9. /\ v4' \in [Host -> Skil!Stamps]
      /\ \A k \in Host \ {h} : v4'[k] = v4[k]
      /\ \A p \in Skil!Place : p[2] # h => (p \in v9' <=> p \in v9) /\ (p \in v10' <=> p \in v10)
      /\ \A n \in Name : n \in v4'[h].names <=> n \in v4[h].names /\ <<n, h>> \notin v5.gone
      /\ \A p \in Skil!Place : p[2] = h /\ p[1] \in v4'[h].names => (p \in v9 => p \in v9')
      /\ \A p \in Skil!Place : p[2] = h => (p \in v10 => p \in v10' \/ p[1] \in v4'[h].names)
  <2>1. CASE v4[h] = Skil!None
    <3>1. v4[h].names = {} /\ UNCHANGED <<v4, v9, v10>>
      BY <2>1, <1>4 DEF Skil!None
    <3> QED BY <3>1, <1>3 DEF Skil!SkillsTyped
  <2>2. CASE v4[h] # Skil!None
    <3> DEFINE s == Skil!DropNames(h)
    <3>1. /\ s \in Skil!Stamps
          /\ \A n : n \in s.names <=> n \in v4[h].names /\ <<n, h>> \notin v5.gone
      BY <1>8 DEF Skil!DropNames, Skil!Stamps
    <3>2. Skil!Stamp(h, s)
      BY <2>2, <1>4
    <3> HIDE DEF s
    <3>3. /\ v4' \in [Host -> Skil!Stamps]
          /\ v4'[h] = s /\ \A k \in Host \ {h} : v4'[k] = v4[k]
          /\ \A p \in Skil!Place : p \in v9' <=> p \in v9 /\ (p[2] = h => p[1] \in s.names)
          /\ \A p \in Skil!Place : p \in v10' <=> p \in v10 /\ (p[2] = h => p[1] \notin s.names)
      BY <1>2, <1>3, <3>1, <3>2, Stamped
    <3> QED BY <3>1, <3>3
  <2> QED BY <2>1, <2>2
<1>10. Skil!SkillsTyped'
  <2>1. v5'.kind \in {Skil!Idle, "install", "prune"}
    BY <1>2, <1>5
  <2> QED BY <1>1, <1>3, <1>9, <2>1 DEF Skil!SkillsTyped
<1>11. Skil!InstallOK' /\ Skil!PruneOK' /\ Skil!Mirrored' = {}
       /\ \A p \in Skil!Place : p \in Skil!Unpruned' <=> p \in Skil!Unpruned /\ p[2] # h
  <2>1. CASE hosts = {h}
    BY <2>1, <1>2, <1>5, <1>7 DEF Skil!InstallOK, Skil!PruneOK, Skil!Mirrored, Skil!Unpruned, Skil!Idle
  <2>2. CASE hosts # {h}
    <3>1. v5' = [kind |-> "prune", todo |-> {}, gone |-> {p \in v5.gone : p[2] # h}]
      <4>1. v5 = [kind |-> "prune", todo |-> {}, gone |-> v5.gone]
        BY <1>2
      <4>2. v5' = [v5 EXCEPT !.gone = {p \in @ : p[2] # h}]
        BY <2>2, <1>5
      <4> DEFINE left == {p \in v5.gone : p[2] # h}
      <4>3. v5' = [v5 EXCEPT !.gone = left]
        BY <4>2
      <4> HIDE DEF left
      <4>4. v5' = [kind |-> "prune", todo |-> {}, gone |-> left]
        BY <4>1, <4>3
      <4> QED BY <4>4 DEF left
    <3>2. v5'.gone # {} /\ v5'.gone \subseteq Skil!Place
      BY <2>2, <3>1, <1>2, <1>6
    <3>3. Skil!InstallOK' /\ Skil!Mirrored' = {}
      BY <3>1 DEF Skil!InstallOK, Skil!Mirrored
    <3>4. Skil!PruneOK'
      BY <3>1, <3>2, <1>1, <1>2 DEF Skil!PruneOK
    <3>5. Skil!Unpruned' = {p \in v5.gone : p[2] # h}
      BY <3>1 DEF Skil!Unpruned
    <3> QED BY <3>3, <3>4, <3>5, <1>2
  <2> QED BY <2>1, <2>2
<1>12. ASSUME NEW p \in Skil!Place PROVE Skil!FileOK(p)'
  <2>1. p[1] \in Name /\ p[2] \in Host /\ p = <<p[1], p[2]>>
    BY PlaceParts
  <2>2. Skil!FileOK(p) /\ v2'[p] = v2[p] /\ v3'[p] = v3[p]
    BY <1>1, <1>3
  <2>3. CASE p[2] = h
    <3>1. p[1] \in v4'[h].names <=> p[1] \in v4[h].names /\ p \notin v5.gone
      BY <2>1, <2>3, <1>9
    <3>2. p \in v5.gone => v3[p] = "nobody"
      BY <1>2
    <3>3. p[1] \in v4'[h].names => (p \in v9 => p \in v9')
      BY <2>3, <1>9
    <3>4. p \in v10 => p \in v10' \/ p[1] \in v4'[h].names
      BY <2>3, <1>9
    <3>5. p[1] \in Skil!Owned(p[2]) <=> p[1] \in v4[h].names \/ p[1] \in Retired
      BY <2>3 DEF Skil!Owned
    <3>6. p[1] \in Skil!Owned(p[2])' <=> p[1] \in v4'[h].names \/ p[1] \in Retired
      BY <2>3 DEF Skil!Owned
    <3> QED BY <2>2, <2>3, <3>1, <3>2, <3>3, <3>4, <3>5, <3>6, <1>2 DEF Skil!FileOK
  <2>4. CASE p[2] # h
    <3>1. /\ v4'[p[2]] = v4[p[2]] /\ (p \in v9' <=> p \in v9)
          /\ (p \in v10' <=> p \in v10)
      BY <2>1, <2>4, <1>9
    <3> QED BY <2>2, <2>4, <3>1, <1>2, <1>11 DEF Skil!FileOK, Skil!Owned
  <2> QED BY <2>3, <2>4
<1> QED BY <1>10, <1>11, <1>12 DEF Skil!SkillsInv

\* A killed command leaves no job, and so nothing to keep of one.
LEMMA JobGone ==
  ASSUME v5' = [kind |-> Skil!Idle]
  PROVE  /\ Skil!InstallOK' /\ Skil!PruneOK'
         /\ Skil!Unpruned' = {} /\ Skil!Mirrored' = {} /\ v5'.kind = Skil!Idle
BY DEF Skil!InstallOK, Skil!PruneOK, Skil!Unpruned, Skil!Mirrored, Skil!Idle

\* A mirror the killed install had yet to record is in a stamp, or counted as lost.
LEMMA KilledMirror ==
  ASSUME Skil!SkillsInv, NEW p \in Skil!Place, p \in Skil!Mirrored, v3[p] = "suasor"
  PROVE  p[1] \in v4[p[2]].names \/ p \in Skil!Unstamped
<1>1. v5.kind = "install" /\ p[2] \in v5.hosts
  BY DEF Skil!Mirrored, Skil!Finished
<1> QED BY <1>1 DEF Skil!Unstamped

\* A kill leaves the stamps behind the files.
LEMMA CrashKeeps ==
  ASSUME Skil!SkillsInv, Skil!Crash
  PROVE  Skil!SkillsInv'
<1>1. /\ v5' = [kind |-> Skil!Idle] /\ v10' = v10 \union Skil!Unstamped
      /\ v9' = v9 \union Skil!Unpruned
      /\ UNCHANGED <<v1, v2, v3, v4, v7>>
  BY DEF Skil!Crash, Skil!files
<1>2. Skil!InstallOK' /\ Skil!PruneOK' /\ Skil!Unpruned' = {} /\ Skil!Mirrored' = {} /\ v5'.kind = Skil!Idle
  BY <1>1, JobGone
<1>3. Skil!SkillsTyped'
  BY <1>1, <1>2 DEF Skil!SkillsInv, Skil!SkillsTyped
<1>4. ASSUME NEW p \in Skil!Place PROVE Skil!FileOK(p)'
  <2>1. Skil!FileOK(p)
    BY DEF Skil!SkillsInv
  <2>2. p \in Skil!Mirrored /\ v3[p] = "suasor" => p[1] \in v4[p[2]].names \/ p \in v10'
    BY <1>1, KilledMirror
  <2> QED BY <1>1, <1>2, <2>1, <2>2 DEF Skil!FileOK, Skil!Owned
<1> QED BY <1>2, <1>3, <1>4 DEF Skil!SkillsInv

\* A cut mirror is still suasor's.
LEMMA CrashInMirrorKeeps ==
  ASSUME Skil!SkillsInv, Skil!CrashInMirror
  PROVE  Skil!SkillsInv'
<1> DEFINE p == Skil!First(v5.todo)
<1>1. /\ v5.kind = "install" /\ v5.todo # {} /\ v5' = [kind |-> Skil!Idle]
      /\ v2' = [v2 EXCEPT ![p] = Skil!Cut] /\ v3' = [v3 EXCEPT ![p] = "suasor"]
      /\ v10' = v10 \union Skil!Unstamped \union (IF p[1] \in v4[p[2]].names THEN {} ELSE {p})
      /\ UNCHANGED <<v1, v4, v7, v9>>
  BY DEF Skil!CrashInMirror, Skil!Put
<1>2. p \in Skil!Place /\ Skil!Unpruned = {}
  BY <1>1, Turn
<1> HIDE DEF p
<1>3. Skil!InstallOK' /\ Skil!PruneOK' /\ Skil!Unpruned' = {} /\ Skil!Mirrored' = {} /\ v5'.kind = Skil!Idle
  BY <1>1, JobGone
<1>4. Skil!SkillsTyped
  BY DEF Skil!SkillsInv
<1>5. Skil!SkillsTyped'
  BY <1>1, <1>2, <1>3, <1>4 DEF Skil!SkillsTyped, Skil!Texts
<1>6. /\ v2'[p] = Skil!Cut /\ v3'[p] = "suasor"
      /\ \A q \in Skil!Place \ {p} : v2'[q] = v2[q] /\ v3'[q] = v3[q]
  BY <1>1, <1>2, <1>4 DEF Skil!SkillsTyped
<1>7. ASSUME NEW q \in Skil!Place PROVE Skil!FileOK(q)'
  <2>1. CASE q = p
    BY <2>1, <1>1, <1>3, <1>6 DEF Skil!FileOK, Skil!Owned, Skil!Cut, Skil!Absent
  <2>2. CASE q # p
    <3>1. Skil!FileOK(q)
      BY DEF Skil!SkillsInv
    <3>2. q \in Skil!Mirrored /\ v3[q] = "suasor" => q[1] \in v4[q[2]].names \/ q \in v10'
      BY <1>1, KilledMirror
    <3>3. v2'[q] = v2[q] /\ v3'[q] = v3[q] /\ (q \in v10 => q \in v10')
      BY <2>2, <1>1, <1>6
    <3> QED BY <1>1, <1>2, <1>3, <3>1, <3>2, <3>3 DEF Skil!FileOK, Skil!Owned
  <2> QED BY <2>1, <2>2
<1> QED BY <1>3, <1>5, <1>7 DEF Skil!SkillsInv

\* A cut stamp names nothing.
LEMMA CrashInStampKeeps ==
  ASSUME Skil!SkillsInv, Skil!CrashInStamp
  PROVE  Skil!SkillsInv'
<1>1. /\ v5.kind # Skil!Idle /\ v5.todo = {} /\ v5' = [kind |-> Skil!Idle]
      /\ UNCHANGED <<v1, v2, v3, v7>>
  BY DEF Skil!CrashInStamp, Skil!files
<1>2. Skil!SkillsTyped
  BY DEF Skil!SkillsInv
<1>3. PICK h \in Host : /\ v4' = [v4 EXCEPT ![h] = Skil!None]
                        /\ v10' = v10 \union Skil!Unstamped
                              \union {p \in Skil!Place : p[2] = h /\ v3[p] = "suasor"}
                        /\ v9' = {p \in v9 \union Skil!Unpruned : p[2] # h}
  <2> DEFINE hosts == IF v5.kind = "install" THEN v5.hosts ELSE {p[2] : p \in v5.gone}
  <2>1. /\ v4' = [v4 EXCEPT ![Skil!Earliest(hosts)] = Skil!None]
        /\ v10' = v10 \union Skil!Unstamped
                        \union {p \in Skil!Place : p[2] = Skil!Earliest(hosts) /\ v3[p] = "suasor"}
        /\ v9' = {p \in v9 \union Skil!Unpruned : p[2] # Skil!Earliest(hosts)}
    BY DEF Skil!CrashInStamp
  <2>2. Skil!Earliest(hosts) \in Host
    <3>1. CASE v5.kind = "install"
      <4>1. v5.hosts \in SUBSET Host /\ v5.hosts # {}
        BY <3>1 DEF Skil!SkillsInv, Skil!InstallOK
      <4>2. Skil!Earliest(v5.hosts) \in Host
        BY <4>1, EarliestOf
      <4> QED BY <3>1, <4>2
    <3>2. CASE v5.kind # "install"
      <4>1. v5.kind = "prune"
        BY <3>2, <1>1, <1>2 DEF Skil!SkillsTyped
      <4>2. Skil!Earliest({p[2] : p \in v5.gone}) \in Host
        BY <4>1, <1>1, Pruned
      <4> QED BY <3>2, <4>2
    <3> QED BY <3>1, <3>2
  <2> HIDE DEF hosts
  <2> QED BY <2>1, <2>2
<1>4. Skil!InstallOK' /\ Skil!PruneOK' /\ Skil!Unpruned' = {} /\ Skil!Mirrored' = {} /\ v5'.kind = Skil!Idle
  BY <1>1, JobGone
<1>5. v4'[h].names = {} /\ \A k \in Host \ {h} : v4'[k] = v4[k]
  BY <1>2, <1>3 DEF Skil!SkillsTyped, Skil!None
<1>6. Skil!SkillsTyped'
  BY <1>1, <1>2, <1>3, <1>4 DEF Skil!SkillsTyped, Skil!Stamps, Skil!None
<1>7. ASSUME NEW p \in Skil!Place PROVE Skil!FileOK(p)'
  <2>1. Skil!FileOK(p) /\ v2'[p] = v2[p] /\ v3'[p] = v3[p] /\ p[2] \in Host
    BY <1>1, PlaceParts DEF Skil!SkillsInv
  <2>2. CASE p[2] = h
    <3>1. v3[p] = "suasor" => p \in v10'
      BY <2>2, <1>3
    <3> QED BY <2>1, <2>2, <3>1, <1>5 DEF Skil!FileOK
  <2>3. CASE p[2] # h
    <3>1. v4'[p[2]] = v4[p[2]]
      BY <2>1, <2>3, <1>5
    <3>2. p \in Skil!Mirrored /\ v3[p] = "suasor" => p[1] \in v4[p[2]].names \/ p \in v10'
      BY <1>3, KilledMirror
    <3>3. (p \in v10 => p \in v10') /\ (p \in v9 \/ p \in Skil!Unpruned => p \in v9')
      BY <2>3, <1>3
    <3> QED BY <2>1, <3>1, <3>2, <3>3, <1>4 DEF Skil!FileOK, Skil!Owned
  <2> QED BY <2>2, <2>3
<1> QED BY <1>4, <1>6, <1>7 DEF Skil!SkillsInv

\* The user's edits are his.
LEMMA EditKeeps ==
  ASSUME Skil!SkillsInv,
         NEW p \in Skil!Place, NEW body \in {Skil!Absent, Skil!Mine} \union Skil!Bodies, Skil!Edit(p, body)
  PROVE  Skil!SkillsInv'
<1>1. /\ v5.kind = Skil!Idle /\ v7' = v7 + 1
      /\ v2' = [v2 EXCEPT ![p] = body]
      /\ v3' = [v3 EXCEPT ![p] = IF body = Skil!Absent THEN "nobody"
                                         ELSE IF @ = "suasor" THEN @ ELSE "user"]
      /\ v9' = IF v3[p] = "suasor" /\ body = Skil!Absent /\ p[1] \in v4[p[2]].names
                    THEN v9 \union {p} ELSE v9
      /\ v10' = IF body = Skil!Absent THEN v10 \ {p} ELSE v10
      /\ UNCHANGED <<v1, v4, v5>>
  BY DEF Skil!Edit
<1>2. Skil!SkillsTyped /\ Skil!FileOK(p)
  BY DEF Skil!SkillsInv
<1>3. body \in Skil!Texts
  BY DEF Skil!Texts
<1>4. /\ v2'[p] = body
      /\ v3'[p] = IF body = Skil!Absent THEN "nobody" ELSE IF v3[p] = "suasor" THEN v3[p] ELSE "user"
      /\ \A q \in Skil!Place \ {p} : v2'[q] = v2[q] /\ v3'[q] = v3[q]
  BY <1>1, <1>2 DEF Skil!SkillsTyped
<1>5. Skil!SkillsTyped'
  <2>1. v3' \in [Skil!Place -> {"nobody", "user", "suasor"}]
    BY <1>1, <1>2 DEF Skil!SkillsTyped
  <2> QED BY <1>1, <1>2, <1>3, <2>1 DEF Skil!SkillsTyped
<1>6. Skil!InstallOK' /\ Skil!PruneOK'
  BY <1>1 DEF Skil!InstallOK, Skil!PruneOK, Skil!Idle
<1>7. /\ Skil!Unpruned = {} /\ Skil!Unpruned' = {} /\ Skil!Mirrored = {}
  BY <1>1 DEF Skil!Unpruned, Skil!Mirrored, Skil!Idle
<1>8. \A q : Skil!Owned(q[2])' = Skil!Owned(q[2])
  BY <1>1 DEF Skil!Owned
<1>9. ASSUME NEW q \in Skil!Place PROVE Skil!FileOK(q)'
  <2>1. CASE q = p
    <3>1. CASE body = Skil!Absent
      BY <2>1, <3>1, <1>1, <1>2, <1>4, <1>7 DEF Skil!FileOK
    <3>2. CASE body # Skil!Absent
      BY <2>1, <3>2, <1>1, <1>2, <1>4, <1>7, <1>8 DEF Skil!FileOK
    <3> QED BY <3>1, <3>2
  <2>2. CASE q # p
    <3>1. Skil!FileOK(q)
      BY DEF Skil!SkillsInv
    <3>2. v2'[q] = v2[q] /\ v3'[q] = v3[q] /\ (q \in v10 => q \in v10')
          /\ (q \in v9 => q \in v9')
      BY <2>2, <1>1, <1>4
    <3> QED BY <3>1, <3>2, <1>1, <1>7, <1>8 DEF Skil!FileOK
  <2> QED BY <2>1, <2>2
<1> QED BY <1>5, <1>6, <1>9 DEF Skil!SkillsInv

\* Another version changes no file.
LEMMA UpgradeKeeps ==
  ASSUME Skil!SkillsInv, NEW v \in Skil!Versions, Skil!Upgrade(v)
  PROVE  Skil!SkillsInv'
<1>1. /\ v5.kind = Skil!Idle /\ v1' = v
      /\ UNCHANGED <<v2, v3, v4, v5, v7, v9, v10>>
  BY DEF Skil!Upgrade, Skil!files, Skil!counts
<1>2. Skil!SkillsTyped'
  BY <1>1 DEF Skil!SkillsInv, Skil!SkillsTyped
<1>3. Skil!InstallOK' /\ Skil!PruneOK'
  BY <1>1 DEF Skil!InstallOK, Skil!PruneOK, Skil!Idle
<1>4. /\ Skil!Unpruned = {} /\ Skil!Unpruned' = {} /\ Skil!Mirrored = {}
  BY <1>1 DEF Skil!Unpruned, Skil!Mirrored, Skil!Idle
<1>5. ASSUME NEW p \in Skil!Place PROVE Skil!FileOK(p)'
  BY <1>1, <1>4 DEF Skil!SkillsInv, Skil!FileOK, Skil!Owned
<1> QED BY <1>2, <1>3, <1>5 DEF Skil!SkillsInv

\* Every step of a command or of the user keeps the invariant of the mirrors.
LEMMA SkillsStep == Skil!SkillsInv /\ Skil!Next => Skil!SkillsInv'
<1> SUFFICES ASSUME Skil!SkillsInv, Skil!Next PROVE Skil!SkillsInv'
  OBVIOUS
<1>1. ASSUME NEW hosts \in (SUBSET Host) \ {{}}, Skil!Prune(hosts) PROVE Skil!SkillsInv'
  BY <1>1, PruneKeeps
<1>2. ASSUME NEW hosts \in (SUBSET Host) \ {{}}, NEW force \in BOOLEAN, Skil!Install(hosts, force)
      PROVE  Skil!SkillsInv'
  <2>1. hosts \in SUBSET Host /\ hosts # {}
    OBVIOUS
  <2> QED BY <1>2, <2>1, InstallKeeps
<1>3. ASSUME NEW p \in Skil!Place, NEW body \in {Skil!Absent, Skil!Mine} \union Skil!Bodies,
             Skil!Edit(p, body)
      PROVE  Skil!SkillsInv'
  BY <1>3, EditKeeps
<1>4. ASSUME NEW v \in Skil!Versions, Skil!Upgrade(v) PROVE Skil!SkillsInv'
  BY <1>4, UpgradeKeeps
<1> QED BY <1>1, <1>2, <1>3, <1>4, MirrorKeeps, WriteStampKeeps, RemoveKeeps, UnclaimKeeps,
           CrashKeeps, CrashInMirrorKeeps, CrashInStampKeeps DEF Skil!Next

\* The other parts leave the files alone.
LEMMA SkillsStutters == Skil!SkillsInv /\ UNCHANGED Skil!vars => Skil!SkillsInv'
<1> SUFFICES ASSUME Skil!SkillsInv, UNCHANGED Skil!vars PROVE Skil!SkillsInv'
  OBVIOUS
<1>1. UNCHANGED <<v1, v2, v3, v4, v5, v7, v9, v10>>
  BY DEF Skil!vars, Skil!files, Skil!counts
<1> QED BY <1>1 DEF Skil!SkillsInv, Skil!SkillsTyped, Skil!InstallOK, Skil!PruneOK, Skil!FileOK,
                    Skil!Finished, Skil!Mirrored, Skil!Unpruned, Skil!Owned, Skil!Bundled

\* A place whose name suasor could claim, and which holds a file of the user's, is accounted for.
LEMMA NotHis ==
  ASSUME Skil!SkillsInv, NEW p \in Skil!Place, p[1] \in Skil!Owned(p[2]), v3[p] = "user",
         p \notin Skil!Unpruned
  PROVE  p[1] \in Retired \/ p \in v9
BY DEF Skil!SkillsInv, Skil!FileOK, Skil!Owned

\* An install replaces a file of the user's only where it says.
LEMMA ReplacesItsOwn ==
  ASSUME Skil!SkillsInv, v5.kind = "install", v5.todo # {}, NEW p, p = Skil!First(v5.todo),
         Skil!MayReplace(p), v3[p] = "user"
  PROVE  v5.force \/ p[1] \in Retired \/ p \in v9
<1>1. /\ p \in Skil!Place /\ p[2] \in v5.hosts /\ Skil!Unpruned = {}
  BY Turn
<1>2. v2[p] # Skil!Absent
  BY <1>1 DEF Skil!SkillsInv, Skil!FileOK
<1>3. v5.owned[p[2]] = Skil!Owned(p[2])
  BY <1>1 DEF Skil!SkillsInv, Skil!InstallOK
<1> QED BY <1>1, <1>2, <1>3, NotHis DEF Skil!MayReplace

\* No step takes a skill of the user's, but where it says.
LEMMA SkillsKept == Skil!SkillsInv /\ Skil!Next => Skil!UsersKeptStep
<1> SUFFICES ASSUME Skil!SkillsInv, Skil!Next, NEW p \in Skil!Place,
                    v3[p] = "user", v2'[p] # v2[p], v7' = v7
             PROVE  \/ v5.kind = "install" /\ v5.force
                    \/ p[1] \in Retired
                    \/ p \in v9
  BY DEF Skil!UsersKeptStep
<1>1. v2 \in [Skil!Place -> Skil!Texts] /\ v7 \in Nat
  BY DEF Skil!SkillsInv, Skil!SkillsTyped
<1>2. Skil!Mirror \/ Skil!Remove \/ Skil!CrashInMirror
  <2>1. \A body : ~ Skil!Edit(p, body) /\ \A q : ~ Skil!Edit(q, body)
    BY <1>1 DEF Skil!Edit
  <2>2. ~ Skil!WriteStamp /\ ~ Skil!Unclaim /\ ~ Skil!Crash /\ ~ Skil!CrashInStamp
    BY DEF Skil!WriteStamp, Skil!Unclaim, Skil!Crash, Skil!CrashInStamp, Skil!files
  <2>3. \A hosts : ~ Skil!Prune(hosts) /\ \A force : ~ Skil!Install(hosts, force)
    BY DEF Skil!Prune, Skil!Install, Skil!files
  <2>4. \A v : ~ Skil!Upgrade(v)
    BY DEF Skil!Upgrade, Skil!files
  <2> QED BY <2>1, <2>2, <2>3, <2>4 DEF Skil!Next
<1> DEFINE q == Skil!First(v5.todo)
<1>3. CASE Skil!Mirror \/ Skil!CrashInMirror
  <2>1. v5.kind = "install" /\ v5.todo # {}
    BY <1>3 DEF Skil!Mirror, Skil!CrashInMirror
  <2>2. Skil!MayReplace(q) /\ \E body : v2' = [v2 EXCEPT ![q] = body]
    <3>1. CASE Skil!Mirror
      BY <3>1 DEF Skil!Mirror, Skil!Put, Skil!files
    <3>2. CASE Skil!CrashInMirror
      BY <3>2 DEF Skil!CrashInMirror, Skil!Put
    <3> QED BY <1>3, <3>1, <3>2
  <2> HIDE DEF q
  <2>3. p = q
    BY <1>1, <2>2
  <2> QED BY <2>1, <2>2, <2>3, ReplacesItsOwn DEF q
<1>4. CASE Skil!Remove
  <2>1. v5.kind = "prune" /\ v5.todo # {} /\ v2' = [v2 EXCEPT ![q] = Skil!Absent]
    BY <1>4 DEF Skil!Remove, Skil!Put
  <2>2. v5.todo \in SUBSET Skil!Place /\ \A k \in v5.todo : k[1] \in Skil!Owned(k[2])
    BY <2>1 DEF Skil!SkillsInv, Skil!PruneOK
  <2>3. q \in v5.todo
    BY <2>1, <2>2, FirstOf
  <2> HIDE DEF q
  <2>4. p = q
    BY <1>1, <2>1
  <2>5. p \notin Skil!Unpruned
    BY <2>3, <2>4 DEF Skil!Unpruned
  <2> QED BY <2>2, <2>3, <2>4, <2>5, NotHis
<1> QED BY <1>2, <1>3, <1>4

\* At rest, every mirror is known, or counted as lost.
LEMMA MirrorsOnRecord == Skil!SkillsInv => Skil!MirrorsKnown
BY AtRest DEF Skil!SkillsInv, Skil!FileOK, Skil!MirrorsKnown

(***************************************************************************)
(* Who writes config.toml (Conf!).  v1: the file, v2: the credentials that *)
(* resolve, v3: the channels joined, v4: the wizard, v5: `slack follow`,   *)
(* v6: `config edit`, v7: the crontab, v8: what the wizard read of it,     *)
(* v9, v10: how much of each bound is used.                                *)
(***************************************************************************)

\* What is added to a file is added: nothing that was there goes.
LEMMA SectionAdded ==
  ASSUME NEW f \in Conf!File, NEW c \in Conf!Conn
  PROVE  /\ Conf!AddSection(f, c) \in Conf!File /\ Conf!Within(f, Conf!AddSection(f, c))
         /\ Conf!AddSection(f, c).accts = f.accts
<1>1. CASE f.sec[c] = "none"
  <2>1. Conf!AddSection(f, c) = [f EXCEPT !.sec = [f.sec EXCEPT ![c] = "on"]]
    BY <1>1 DEF Conf!AddSection
  <2>2. f.sec \in [Conf!Conn -> {"none", "on", "off"}]
    BY DEF Conf!File
  <2>3. /\ [f.sec EXCEPT ![c] = "on"] \in [Conf!Conn -> {"none", "on", "off"}]
        /\ \A d \in Conf!Conn : f.sec[d] # "none" => [f.sec EXCEPT ![c] = "on"][d] = f.sec[d]
    BY <1>1, <2>2
  <2> DEFINE t == [f.sec EXCEPT ![c] = "on"]
  <2> HIDE DEF t
  <2>4. Conf!AddSection(f, c) = [f EXCEPT !.sec = t] /\ t \in [Conf!Conn -> {"none", "on", "off"}]
        /\ \A d \in Conf!Conn : f.sec[d] # "none" => t[d] = f.sec[d]
    BY <2>1, <2>3 DEF t
  <2> QED BY <2>4 DEF Conf!File, Conf!Within
<1>2. CASE f.sec[c] # "none"
  BY <1>2 DEF Conf!AddSection, Conf!Within
<1> QED BY <1>1, <1>2

\* So with an account.
LEMMA AccountAdded ==
  ASSUME NEW f \in Conf!File, NEW a \in Conf!Account
  PROVE  /\ Conf!AddAccount(f, a) \in Conf!File /\ Conf!Within(f, Conf!AddAccount(f, a))
         /\ Conf!AddAccount(f, a).accts = f.accts \union {a} /\ Conf!AddAccount(f, a).sec = f.sec
BY DEF Conf!AddAccount, Conf!File, Conf!Within

\* Adding is transitive.
LEMMA Within3 ==
  ASSUME NEW f \in Conf!File, NEW g \in Conf!File, NEW h \in Conf!File,
         Conf!Within(f, g), Conf!Within(g, h)
  PROVE  Conf!Within(f, h)
BY DEF Conf!Within

\* So with channels, and the section they need.
LEMMA ChannelsAdded ==
  ASSUME NEW f \in Conf!File, NEW ids \in SUBSET Channel
  PROVE  Conf!AddChannels(f, ids) \in Conf!File /\ Conf!Within(f, Conf!AddChannels(f, ids))
<1>1. CASE ids \subseteq f.chans
  BY <1>1 DEF Conf!AddChannels, Conf!Within
<1>2. CASE ~(ids \subseteq f.chans)
  <2> DEFINE g == Conf!AddSection(f, "slack")
  <2>1. g \in Conf!File /\ Conf!Within(f, g)
    BY SectionAdded DEF Conf!Conn
  <2>2. Conf!AddChannels(f, ids) = [g EXCEPT !.chans = g.chans \union ids]
    BY <1>2 DEF Conf!AddChannels
  <2> HIDE DEF g
  <2>3. [g EXCEPT !.chans = g.chans \union ids] \in Conf!File
    BY <2>1 DEF Conf!File
  <2>4. Conf!Within(g, [g EXCEPT !.chans = g.chans \union ids])
    BY <2>1 DEF Conf!File, Conf!Within
  <2> QED BY <2>1, <2>2, <2>3, <2>4, Within3
<1> QED BY <1>1, <1>2

\* A human's edit leaves a file that can be read.
LEMMA EditedFile ==
  ASSUME NEW f \in Conf!File
  PROVE  Conf!Edited(f) \subseteq Conf!File /\ \A ch : [f EXCEPT !.chans = @ \ {ch}] \in Conf!File
<1>1. /\ f.sec \in [Conf!Conn -> {"none", "on", "off"}]
      /\ "google" \in Conf!Conn /\ "slack" \in Conf!Conn
  BY DEF Conf!File, Conf!Conn
<1>2. ASSUME NEW t \in [Conf!Conn -> {"none", "on", "off"}], NEW chans \in SUBSET Channel
      PROVE  /\ [f EXCEPT !.sec = t] \in Conf!File
             /\ [[f EXCEPT !.sec = t] EXCEPT !.chans = chans] \in Conf!File
  BY DEF Conf!File
<1>3. ASSUME NEW s \in {"none", "on", "off"} PROVE [f EXCEPT !.sec["google"] = s] \in Conf!File
  <2>1. [f.sec EXCEPT !["google"] = s] \in [Conf!Conn -> {"none", "on", "off"}]
    BY <1>1
  <2> QED BY <1>2, <2>1
<1>4. ASSUME NEW s \in {"none", "on", "off"}
      PROVE  [f EXCEPT !.sec["slack"] = s, !.chans = IF s = "none" THEN {} ELSE @] \in Conf!File
  <2>1. [f.sec EXCEPT !["slack"] = s] \in [Conf!Conn -> {"none", "on", "off"}]
    BY <1>1
  <2>2. (IF s = "none" THEN {} ELSE f.chans) \in SUBSET Channel
    BY DEF Conf!File
  <2>3. [f EXCEPT !.sec["slack"] = s, !.chans = IF s = "none" THEN {} ELSE @]
          = [[f EXCEPT !.sec = [f.sec EXCEPT !["slack"] = s]]
               EXCEPT !.chans = IF s = "none" THEN {} ELSE f.chans]
    BY DEF Conf!File
  <2> QED BY <1>2, <2>1, <2>2, <2>3
<1>5. ASSUME NEW a \in Conf!Account PROVE [f EXCEPT !.accts = @ \union {a}] \in Conf!File
  BY DEF Conf!File
<1>6. \A ch : [f EXCEPT !.chans = @ \ {ch}] \in Conf!File
  BY DEF Conf!File
<1> QED BY <1>3, <1>4, <1>5, <1>6 DEF Conf!Edited

\* Nothing runs at first.
LEMMA SetupStarts == Conf!Init => Conf!SetupInv
<1> SUFFICES ASSUME Conf!Init PROVE Conf!SetupInv
  OBVIOUS
<1>1. Conf!Empty \in Conf!File
  BY DEF Conf!Empty, Conf!File
<1>2. [Conf!Empty EXCEPT !.sec["google"] = "on"] \in Conf!File
  BY DEF Conf!Empty, Conf!File, Conf!Conn
<1> QED BY <1>1, <1>2
           DEF Conf!Init, Conf!SetupInv, Conf!FilesOK, Conf!WizardOK, Conf!WaitingOK, Conf!Idle,
               Conf!Account

\* The other parts leave the files alone.
LEMMA SetupStutters == Conf!SetupInv /\ UNCHANGED Conf!vars => Conf!SetupInv'
BY DEF Conf!SetupInv, Conf!FilesOK, Conf!WizardOK, Conf!WaitingOK, Conf!vars, Conf!TextOK,
       Conf!AddSection, Conf!AddAccount, Conf!Plan, Conf!Configured

\* What the wizard adds before its discovery.
LEMMA BaseAdded ==
  ASSUME NEW f \in Conf!File, NEW base \in {f, Conf!AddSection(f, "google")},
         NEW g \in {base, Conf!AddAccount(base, Conf!Default)}
  PROVE  g \in Conf!File /\ Conf!Within(f, g)
<1>1. base \in Conf!File /\ Conf!Within(f, base)
  BY SectionAdded DEF Conf!Conn, Conf!Within
<1>2. Conf!Default \in Conf!Account
  BY DEF Conf!Account
<1>3. g \in Conf!File /\ Conf!Within(base, g)
  BY <1>1, <1>2, AccountAdded DEF Conf!Within
<1> QED BY <1>1, <1>3, Within3

\* What an account needs beside it is added to the file.
LEMMA PreparedAdds ==
  Conf!FilesOK => Conf!Prepared(v1) \in Conf!File /\ Conf!Within(v1, Conf!Prepared(v1))
<1> SUFFICES ASSUME Conf!FilesOK
             PROVE  Conf!Prepared(v1) \in Conf!File /\ Conf!Within(v1, Conf!Prepared(v1))
  OBVIOUS
<1> DEFINE base == IF v4.plan.configured THEN v1 ELSE Conf!AddSection(v1, "google")
<1>1. base \in {v1, Conf!AddSection(v1, "google")} /\ v1 \in Conf!File
  BY DEF Conf!FilesOK
<1>2. Conf!Prepared(v1) \in {base, Conf!AddAccount(base, Conf!Default)}
  BY DEF Conf!Prepared
<1> HIDE DEF base
<1> QED BY <1>1, <1>2, BaseAdded

\* The wizard's record by where it stands.
LEMMA WizardAt ==
  ASSUME Conf!WizardOK
  PROVE  /\ v4.at = "discover" => v4 \in Conf!Read
         /\ v4.at \in {"token", "append"} => v4 \in Conf!Planned
         /\ v4.at = "idle" <=> v4 = Conf!Idle
BY DEF Conf!WizardOK, Conf!Idle, Conf!Planned, Conf!Read

\* What the wizard writes back has all of what it read.
LEMMA TextAdds ==
  ASSUME Conf!WizardOK, v4.at = "discover"
  PROVE  v4.text \in Conf!File /\ Conf!Within(v4.read, v4.text)
<1>1. v4.read \in Conf!File /\ v4.text \in Conf!File
  BY WizardAt DEF Conf!Read
<1>2. CASE v4.acct = Conf!Flat
  BY <1>1, <1>2 DEF Conf!WizardOK, Conf!TextOK, Conf!Within
<1>3. CASE v4.acct # Conf!Flat
  <2> DEFINE base == IF v4.plan.configured THEN v4.read ELSE Conf!AddSection(v4.read, "google")
  <2>1. base \in {v4.read, Conf!AddSection(v4.read, "google")}
    OBVIOUS
  <2>2. v4.text \in {base, Conf!AddAccount(base, Conf!Default)}
    BY <1>3 DEF Conf!WizardOK, Conf!TextOK
  <2> HIDE DEF base
  <2> QED BY <1>1, <2>1, <2>2, BaseAdded
<1> QED BY <1>2, <1>3

\* What stays as it is stays right.
LEMMA WizardSame == Conf!WizardOK /\ v4' = v4 => Conf!WizardOK'
BY DEF Conf!WizardOK, Conf!TextOK, Conf!AddSection, Conf!AddAccount, Conf!Plan, Conf!Configured

LEMMA WizardIdle == v4' = Conf!Idle => Conf!WizardOK'
BY DEF Conf!WizardOK, Conf!Idle

LEMMA WaitingSame == Conf!WaitingOK /\ UNCHANGED <<v5, v6>> => Conf!WaitingOK'
BY DEF Conf!WaitingOK

\* The wizard starts with a plan of the file.
LEMMA WizardStarts ==
  ASSUME Conf!SetupInv, NEW c \in Conf!Conn, NEW a \in Conf!Account \union {Conf!Flat},
         Conf!Start(c, a)
  PROVE  Conf!SetupInv'
<1>1. Conf!FilesOK'
  BY DEF Conf!SetupInv, Conf!FilesOK, Conf!Start, Conf!files
<1>2. Conf!Plan(v1, a) \in [configured : BOOLEAN, accounts : BOOLEAN, mine : BOOLEAN]
  BY DEF Conf!Plan, Conf!Configured
<1>3. v4' = [at |-> "token", conn |-> c, acct |-> a, plan |-> Conf!Plan(v1, a), start |-> v1]
      /\ (c = "slack" => a = Conf!Flat)
  BY DEF Conf!Start
<1>4. v4' \in Conf!Planned /\ v4'.at # "discover"
  BY <1>2, <1>3 DEF Conf!Planned, Conf!SetupInv, Conf!FilesOK
<1>5. v4'.plan = Conf!Plan(v4'.start, v4'.acct) /\ (v4'.conn = "slack" => v4'.acct = Conf!Flat)
  BY <1>3
<1>6. Conf!WizardOK'
  BY <1>4, <1>5 DEF Conf!WizardOK, Conf!Plan, Conf!Configured
<1> QED BY <1>1, <1>6, WaitingSame DEF Conf!SetupInv, Conf!Start

\* A token is stored, or none is.
LEMMA WizardToken == Conf!SetupInv /\ Conf!Token => Conf!SetupInv'
<1> SUFFICES ASSUME Conf!SetupInv, Conf!Token PROVE Conf!SetupInv'
  OBVIOUS
<1>1. v4 \in Conf!Planned /\ v4 # Conf!Idle
  BY WizardAt DEF Conf!SetupInv, Conf!Token, Conf!Idle
<1>2. Conf!SecretName \in Conf!Account \union {Conf!Pool}
  BY <1>1 DEF Conf!SecretName, Conf!Planned, Conf!Account
<1>3. Conf!FilesOK'
  BY <1>2 DEF Conf!SetupInv, Conf!FilesOK, Conf!Token, Conf!files
<1>4. v4' = [v4 EXCEPT !.at = "append"]
  BY DEF Conf!Token
<1>5. /\ v4' \in Conf!Planned /\ v4'.at # "discover"
      /\ v4'.plan = v4.plan /\ v4'.start = v4.start /\ v4'.acct = v4.acct
      /\ v4'.conn = v4.conn
  BY <1>1, <1>4 DEF Conf!Planned
<1>6. v4.plan = Conf!Plan(v4.start, v4.acct) /\ (v4.conn = "slack" => v4.acct = Conf!Flat)
  BY <1>1 DEF Conf!SetupInv, Conf!WizardOK
<1>7. Conf!WizardOK'
  BY <1>5, <1>6 DEF Conf!WizardOK, Conf!Plan, Conf!Configured
<1> QED BY <1>3, <1>7, WaitingSame DEF Conf!SetupInv, Conf!Token

\* The file is read, and what is to be written after the discovery is made of it.
LEMMA WizardAppends == Conf!SetupInv /\ Conf!Append => Conf!SetupInv'
<1> SUFFICES ASSUME Conf!SetupInv, Conf!Append PROVE Conf!SetupInv'
  OBVIOUS
<1>1. v4 \in Conf!Planned /\ v4 # Conf!Idle
  BY WizardAt DEF Conf!SetupInv, Conf!Append, Conf!Idle
<1>2. Conf!Prepared(v1) \in Conf!File /\ v1 \in Conf!File
  BY PreparedAdds DEF Conf!SetupInv, Conf!FilesOK
<1>3. Conf!FilesOK'
  <2>1. v1' \in Conf!File
    BY <1>2 DEF Conf!Append, Conf!AppendSection, Conf!AppendAccount
  <2> QED BY <2>1 DEF Conf!SetupInv, Conf!FilesOK, Conf!Append
<1>4. Conf!WizardOK'
  <2>1. ASSUME NEW f \in Conf!File, Conf!Discover(f),
               f = IF v4.acct = Conf!Flat THEN v1 ELSE Conf!Prepared(v1)
        PROVE  Conf!WizardOK'
    <3>1. /\ v4' = [at |-> "discover", conn |-> v4.conn, acct |-> v4.acct, plan |-> v4.plan,
                     start |-> v4.start, read |-> v1, text |-> f, keys |-> v2]
          /\ v2 \in SUBSET (Conf!Account \union {Conf!Pool})
      BY <2>1 DEF Conf!Discover, Conf!SetupInv, Conf!FilesOK
    <3>2. v4' \in Conf!Read
      BY <1>1, <1>2, <2>1, <3>1 DEF Conf!Planned, Conf!Read
    <3>3. v4'.plan = Conf!Plan(v4'.start, v4'.acct) /\ (v4'.conn = "slack" => v4'.acct = Conf!Flat)
      BY <1>1, <3>1 DEF Conf!SetupInv, Conf!WizardOK
    <3>4. Conf!TextOK'
      <4>1. CASE v4.acct = Conf!Flat
        BY <2>1, <3>1, <4>1 DEF Conf!TextOK
      <4>2. CASE v4.acct # Conf!Flat
        BY <2>1, <3>1, <4>2
           DEF Conf!TextOK, Conf!Prepared, Conf!Preserves, Conf!defaultAccountCredentialStored,
               Conf!AddSection, Conf!AddAccount
      <4> QED BY <4>1, <4>2
    <3> QED BY <3>2, <3>3, <3>4 DEF Conf!WizardOK, Conf!Plan, Conf!Configured
  <2>2. CASE v4.acct = Conf!Flat
    BY <1>2, <2>1, <2>2, WizardIdle DEF Conf!Append, Conf!AppendSection
  <2>3. CASE v4.acct # Conf!Flat
    BY <1>2, <2>1, <2>3, WizardIdle DEF Conf!Append, Conf!AppendAccount
  <2> QED BY <2>2, <2>3
<1> QED BY <1>3, <1>4, WaitingSame DEF Conf!SetupInv, Conf!Append

\* What the wizard writes at its end has what it read.
LEMMA DiscoveredAdds ==
  ASSUME Conf!SetupInv, Conf!Discovered
  PROVE  v1' \in Conf!File /\ (v1' = v1 \/ Conf!Within(v4.read, v1'))
<1>1. v4 \in Conf!Read /\ v4.at = "discover"
  BY WizardAt DEF Conf!SetupInv, Conf!Discovered
<1>2. v4.text \in Conf!File /\ Conf!Within(v4.read, v4.text) /\ v4.read \in Conf!File
  BY <1>1, TextAdds DEF Conf!SetupInv, Conf!Read
<1>3. CASE Conf!WriteSection
  <2>1. v1' \in Conf!File /\ Conf!Within(v4.text, v1')
    BY <1>1, <1>2, <1>3, SectionAdded DEF Conf!WriteSection, Conf!Read
  <2> QED BY <1>2, <2>1, Within3
<1>4. CASE Conf!WriteAccount
  <2>1. v4.acct \in Conf!Account
    BY <1>1, <1>4 DEF Conf!WriteAccount, Conf!Read
  <2>2. v1' \in Conf!File /\ Conf!Within(v4.text, v1')
    BY <1>2, <1>4, <2>1, AccountAdded DEF Conf!WriteAccount
  <2> QED BY <1>2, <2>2, Within3
<1>5. CASE Conf!WriteChannels
  <2>1. v3 \in SUBSET Channel /\ v1 \in Conf!File
    BY DEF Conf!SetupInv, Conf!FilesOK
  <2>2. /\ Conf!AddChannels(v4.text, v3) \in Conf!File
        /\ Conf!Within(v4.text, Conf!AddChannels(v4.text, v3))
    BY <1>2, <2>1, ChannelsAdded
  <2>3. v1' = v1 \/ v1' = Conf!AddChannels(v4.text, v3)
    BY <1>5 DEF Conf!WriteChannels
  <2> QED BY <1>2, <2>1, <2>2, <2>3, Within3
<1> QED BY <1>3, <1>4, <1>5 DEF Conf!Discovered

\* Every step keeps the invariant of the setup.
LEMMA SetupStep == Conf!SetupInv /\ Conf!Next => Conf!SetupInv'
<1> SUFFICES ASSUME Conf!SetupInv, Conf!Next PROVE Conf!SetupInv'
  OBVIOUS
<1> USE DEF Conf!files
<1>1. CASE \E c \in Conf!Conn, a \in Conf!Account \union {Conf!Flat} : Conf!Start(c, a)
  BY <1>1, WizardStarts
<1>2. CASE Conf!Token \/ Conf!Append
  BY <1>2, WizardToken, WizardAppends
<1>3. CASE Conf!Quit
  BY <1>3, WizardIdle, WaitingSame DEF Conf!Quit, Conf!SetupInv, Conf!FilesOK
<1>4. CASE Conf!Discovered
  <2>1. Conf!FilesOK'
    BY <1>4, DiscoveredAdds DEF Conf!Discovered, Conf!SetupInv, Conf!FilesOK
  <2> QED BY <1>4, <2>1, WizardIdle, WaitingSame DEF Conf!Discovered, Conf!SetupInv
<1>5. CASE Conf!Suggest
  <2>1. v5' \in [at : {"confirm"}, ids : SUBSET Channel, read : Conf!File]
    BY <1>5 DEF Conf!Suggest, Conf!SetupInv, Conf!FilesOK
  <2>2. Conf!FilesOK' /\ Conf!WaitingOK'
    BY <1>5, <2>1 DEF Conf!Suggest, Conf!Count, Conf!SetupInv, Conf!FilesOK, Conf!WaitingOK
  <2> QED BY <1>5, <2>2, WizardSame DEF Conf!Suggest, Conf!SetupInv
<1>6. CASE Conf!Confirm
  <2>1. v5 \in [at : {"confirm"}, ids : SUBSET Channel, read : Conf!File]
    BY <1>6 DEF Conf!Confirm, Conf!SetupInv, Conf!WaitingOK, Conf!Idle
  <2>2. Conf!Follow \in Conf!File
    BY <2>1, ChannelsAdded DEF Conf!Follow, Conf!SetupInv, Conf!FilesOK
  <2>3. Conf!FilesOK' /\ Conf!WaitingOK'
    BY <1>6, <2>2 DEF Conf!Confirm, Conf!SetupInv, Conf!FilesOK, Conf!WaitingOK
  <2> QED BY <1>6, <2>3, WizardSame DEF Conf!Confirm, Conf!SetupInv
<1>7. CASE \E ch \in Channel : Conf!Unfollow(ch)
  <2>1. PICK ch \in Channel : Conf!Unfollow(ch)
    BY <1>7
  <2>2. v1' \in Conf!File
    <3>1. v1 \in Conf!File /\ v1' = [v1 EXCEPT !.chans = @ \ {ch}]
      BY <2>1 DEF Conf!Unfollow, Conf!SetupInv, Conf!FilesOK
    <3> QED BY <3>1, EditedFile
  <2> QED BY <2>1, <2>2, WizardSame, WaitingSame
             DEF Conf!Unfollow, Conf!Count, Conf!SetupInv, Conf!FilesOK
<1>8. CASE \E ch \in Channel : Conf!Join(ch)
  BY <1>8, WizardSame, WaitingSame DEF Conf!Join, Conf!Count, Conf!SetupInv, Conf!FilesOK
<1>9. CASE Conf!Hand
  BY <1>9, EditedFile, WizardSame, WaitingSame
     DEF Conf!Hand, Conf!Count, Conf!SetupInv, Conf!FilesOK
<1>10. CASE Conf!Open
  <2>1. v6' \in [at : {"open"}, orig : Conf!File]
    BY <1>10 DEF Conf!Open, Conf!SetupInv, Conf!FilesOK
  <2>2. Conf!FilesOK' /\ Conf!WaitingOK'
    BY <1>10, <2>1 DEF Conf!Open, Conf!Count, Conf!SetupInv, Conf!FilesOK, Conf!WaitingOK
  <2> QED BY <1>10, <2>2, WizardSame DEF Conf!Open, Conf!SetupInv
<1>11. CASE Conf!Close
  <2>1. v6.orig \in Conf!File
    BY <1>11 DEF Conf!Close, Conf!SetupInv, Conf!WaitingOK, Conf!Idle
  <2>2. v1' \in Conf!File
    BY <1>11, <2>1, EditedFile DEF Conf!Close, Conf!SetupInv, Conf!FilesOK
  <2>3. Conf!FilesOK' /\ Conf!WaitingOK'
    BY <1>11, <2>2 DEF Conf!Close, Conf!SetupInv, Conf!FilesOK, Conf!WaitingOK
  <2> QED BY <1>11, <2>3, WizardSame DEF Conf!Close, Conf!SetupInv
<1>12. CASE \E a \in Conf!Account : Conf!authSet(a)
  <2>1. PICK a \in Conf!Account : Conf!authSet(a)
    BY <1>12
  <2>2. a \in Conf!accountSlices(v1) /\ a \in Conf!Account
    BY <2>1 DEF Conf!authSet
  <2> QED BY <2>1, <2>2, WizardSame, WaitingSame
             DEF Conf!authSet, Conf!Count, Conf!SetupInv, Conf!FilesOK
<1>13. CASE Conf!ListCron \/ Conf!WriteCron \/ Conf!EditCron
  BY <1>13, WizardSame, WaitingSame
     DEF Conf!ListCron, Conf!WriteCron, Conf!EditCron, Conf!Count, Conf!SetupInv, Conf!FilesOK
<1> QED BY <1>1, <1>2, <1>3, <1>4, <1>5, <1>6, <1>7, <1>8, <1>9, <1>10, <1>11, <1>12, <1>13
        DEF Conf!Next

\* What each step takes from config.toml or the crontab it means to take.
LEMMA OthersKeptStep == Conf!SetupInv /\ Conf!Next => Conf!KeepsOthersStep
<1> SUFFICES ASSUME Conf!SetupInv, Conf!Next PROVE Conf!KeepsOthersStep
  OBVIOUS
<1> USE DEF Conf!files
<1>c. Conf!Count => v10' # v10
  BY DEF Conf!Count, Conf!SetupInv, Conf!FilesOK
<1>1. CASE \E c \in Conf!Conn, a \in Conf!Account \union {Conf!Flat} : Conf!Start(c, a)
  BY <1>1 DEF Conf!Start, Conf!KeepsOthersStep
<1>2. CASE Conf!Token \/ Conf!Quit
  BY <1>2 DEF Conf!Token, Conf!Quit, Conf!KeepsOthersStep
<1>3. CASE Conf!Append
  <2>1. v1' = v1 \/ v1' = Conf!Prepared(v1)
    BY <1>3 DEF Conf!Append, Conf!AppendSection, Conf!AppendAccount, Conf!Discover
  <2>2. v1' = v1 \/ Conf!Within(v1, v1')
    BY <2>1, PreparedAdds DEF Conf!SetupInv
  <2> QED BY <1>3, <2>2 DEF Conf!Append, Conf!KeepsOthersStep
<1>4. CASE Conf!Discovered
  <2>1. v1' = v1 \/ Conf!Within(v4.read, v1')
    BY <1>4, DiscoveredAdds
  <2> QED BY <1>4, <2>1 DEF Conf!Discovered, Conf!KeepsOthersStep
<1>5. CASE Conf!Confirm
  <2>1. v5 \in [at : {"confirm"}, ids : SUBSET Channel, read : Conf!File]
    BY <1>5 DEF Conf!Confirm, Conf!SetupInv, Conf!WaitingOK, Conf!Idle
  <2>2. Conf!Within(v1, Conf!Follow)
    BY <2>1, ChannelsAdded DEF Conf!Follow, Conf!SetupInv, Conf!FilesOK
  <2> QED BY <1>5, <2>2 DEF Conf!Confirm, Conf!KeepsOthersStep
<1>6. CASE Conf!Close
  BY <1>6 DEF Conf!Close, Conf!KeepsOthersStep
<1>7. CASE Conf!WriteCron
  BY <1>7 DEF Conf!WriteCron, Conf!KeepsOthersStep
<1>8. CASE \/ Conf!Suggest \/ \E ch \in Channel : Conf!Unfollow(ch) \/ Conf!Join(ch)
           \/ Conf!Hand \/ Conf!Open \/ \E a \in Conf!Account : Conf!authSet(a)
           \/ Conf!ListCron \/ Conf!EditCron
  <2>1. v10' # v10
    BY <1>c, <1>8
       DEF Conf!Suggest, Conf!Unfollow, Conf!Join, Conf!Hand, Conf!Open, Conf!authSet,
           Conf!ListCron, Conf!EditCron
  <2> QED BY <2>1 DEF Conf!KeepsOthersStep
<1> QED BY <1>1, <1>2, <1>3, <1>4, <1>5, <1>6, <1>7, <1>8 DEF Conf!Next

\* What a plan says of its file.
LEMMA PlanFields ==
  ASSUME NEW f, NEW a
  PROVE  /\ Conf!Plan(f, a).configured <=> Conf!Configured(f)
         /\ Conf!Plan(f, a).accounts <=> f.accts # {}
         /\ Conf!Plan(f, a).mine <=> a \in f.accts
BY Zenon DEF Conf!Plan

\* The accounts that sync still do when one is added by a wizard nothing happened around.
LEMMA DeclaredKept ==
  ASSUME Conf!SetupInv, v4 \in Conf!Read, Conf!TextOK, v4.acct # Conf!Flat,
         v4.start = v1, v4.read = v1, v4.keys = v2, v2' = v2,
         v1' = Conf!AddAccount(v4.text, v4.acct)
  PROVE  Conf!Ingesting(v1) \subseteq Conf!Ingesting(v1)'
<1>1. /\ v1 \in Conf!File /\ v4.text \in Conf!File
      /\ Conf!Within(v1, v4.text) /\ v4.acct \in Conf!Account
  <2>1. v4.at = "discover"
    BY DEF Conf!Read
  <2> QED BY <2>1, TextAdds DEF Conf!SetupInv, Conf!FilesOK, Conf!Read
<1>2. /\ v1'.sec = v4.text.sec /\ v1'.accts = v4.text.accts \union {v4.acct}
  BY <1>1, AccountAdded
<1>3. /\ v4.plan.configured <=> Conf!Configured(v1)
      /\ v4.plan.accounts <=> v1.accts # {}
  <2>1. v4.plan = Conf!Plan(v1, v4.acct)
    BY DEF Conf!SetupInv, Conf!WizardOK, Conf!Read, Conf!Idle
  <2> QED BY <2>1, PlanFields
<1>4. /\ Conf!Configured(v1)' = (v1'.sec["google"] # "none" \/ v1'.accts # {})
      /\ Conf!Enabled(v1)' = (Conf!Configured(v1)' /\ v1'.sec["google"] # "off")
      /\ Conf!accountSlices(v1)' = IF v1'.accts = {} THEN {Conf!Default} ELSE v1'.accts
      /\ Conf!Ingesting(v1)' = IF Conf!Enabled(v1)' THEN Conf!accountSlices(v1)' \cap v2' ELSE {}
  BY DEF Conf!Configured, Conf!Enabled, Conf!accountSlices, Conf!Ingesting
<1>5. CASE v1.accts # {}
  <2>1. v4.plan.configured /\ v4.plan.accounts
    BY <1>3, <1>5 DEF Conf!Configured
  <2>2. v4.text = v1
    BY <2>1 DEF Conf!TextOK
  <2>3. v1'.sec = v1.sec /\ v1'.accts = v1.accts \union {v4.acct}
    BY <1>2, <2>2
  <2> QED BY <1>4, <1>5, <2>3 DEF Conf!Ingesting, Conf!Enabled, Conf!Configured, Conf!accountSlices
<1>6. CASE v1.accts = {} /\ Conf!Ingesting(v1) # {}
  <2>1. /\ v1.sec["google"] \notin {"none", "off"} /\ Conf!Default \in v2
        /\ Conf!Ingesting(v1) = {Conf!Default}
    BY <1>6 DEF Conf!Ingesting, Conf!Enabled, Conf!Configured, Conf!accountSlices
  <2>2. v4.plan.configured /\ ~v4.plan.accounts
    BY <1>3, <1>6, <2>1 DEF Conf!Configured
  <2>3. v4.text = IF v4.acct # Conf!Default THEN Conf!AddAccount(v1, Conf!Default) ELSE v1
    BY <2>1, <2>2 DEF Conf!TextOK
  <2>4. v4.text.sec = v1.sec /\ (v4.acct # Conf!Default => Conf!Default \in v4.text.accts)
    BY <1>1, <2>3, AccountAdded DEF Conf!Account
  <2>5. Conf!Default \in v1'.accts /\ v1'.sec = v1.sec
    BY <1>2, <2>4
  <2> QED BY <1>4, <2>1, <2>5
<1> QED BY <1>5, <1>6

\* Adding an account stops none that was syncing.
LEMMA FirstKeptStep == Conf!SetupInv /\ Conf!Next => Conf!FirstAccountKeptStep
<1> SUFFICES ASSUME Conf!SetupInv, Conf!Next,
                    v4 # Conf!Idle, v4.acct # Conf!Flat, v1' # v1, v4' = Conf!Idle, v4.start = v1,
                    v4.at = "discover" => v4.read = v1 /\ v4.keys = v2
             PROVE  Conf!Ingesting(v1) \subseteq Conf!Ingesting(v1)'
  BY DEF Conf!FirstAccountKeptStep
<1> USE DEF Conf!files
<1>1. CASE Conf!Append
  <2>1. Conf!AppendAccount /\ v4.plan = Conf!Plan(v1, v4.acct)
    BY <1>1 DEF Conf!Append, Conf!SetupInv, Conf!WizardOK
  <2>2. /\ v4.plan.configured <=> Conf!Configured(v1)
        /\ v4.plan.accounts <=> v1.accts # {}
        /\ v4.plan.mine <=> v4.acct \in v1.accts
    BY <2>1, PlanFields
  <2>3. v1' = Conf!Prepared(v1) /\ (v4.plan.mine \/ v4.acct \in Conf!Prepared(v1).accts)
    BY <2>1 DEF Conf!AppendAccount
  <2>4. CASE v4.plan.mine
    <3>1. v4.plan.configured /\ v4.plan.accounts
      BY <2>2, <2>4 DEF Conf!Configured
    <3>2. Conf!Prepared(v1) = v1
      BY <3>1 DEF Conf!Prepared, Conf!Preserves
    <3> QED BY <2>3, <3>2
  <2>5. CASE ~v4.plan.mine
    <3> DEFINE base == IF v4.plan.configured THEN v1 ELSE Conf!AddSection(v1, "google")
    <3>1. base \in Conf!File /\ base.accts = v1.accts
      BY SectionAdded DEF Conf!SetupInv, Conf!FilesOK, Conf!Conn
    <3>2. Conf!Prepared(v1) =
            IF Conf!Preserves(v1) THEN Conf!AddAccount(base, Conf!Default) ELSE base
      BY DEF Conf!Prepared
    <3> HIDE DEF base
    <3>3. Conf!Preserves(v1) =>
            /\ v4.acct # Conf!Default
            /\ Conf!AddAccount(base, Conf!Default).accts = v1.accts \union {Conf!Default}
      BY <3>1, AccountAdded DEF Conf!Preserves, Conf!Account
    <3> QED BY <2>2, <2>3, <2>5, <3>1, <3>2, <3>3
  <2> QED BY <2>4, <2>5
<1>2. CASE Conf!Discovered
  <2>1. /\ v4 \in Conf!Read /\ v4.at = "discover" /\ Conf!TextOK
        /\ (v4.conn = "slack" => v4.acct = Conf!Flat)
    BY <1>2, WizardAt DEF Conf!Discovered, Conf!SetupInv, Conf!WizardOK
  <2>2. v1' = Conf!AddAccount(v4.text, v4.acct) /\ v2' = v2
    BY <1>2, <2>1 DEF Conf!Discovered, Conf!WriteSection, Conf!WriteAccount, Conf!WriteChannels
  <2> QED BY <2>1, <2>2, DeclaredKept
<1>3. \/ Conf!Append \/ Conf!Discovered
  <2>1. v4' # v4
    OBVIOUS
  <2>2. /\ ~(\E c \in Conf!Conn, a \in Conf!Account \union {Conf!Flat} : Conf!Start(c, a))
        /\ ~Conf!Token /\ ~Conf!Quit
    <3>1. ~(\E c \in Conf!Conn, a \in Conf!Account \union {Conf!Flat} : Conf!Start(c, a))
      BY DEF Conf!Start
    <3>2. ~Conf!Token /\ ~Conf!Quit
      BY DEF Conf!Token, Conf!Quit
    <3> QED BY <3>1, <3>2
  <2>3. ~(Conf!Suggest \/ Conf!Confirm \/ \E ch \in Channel : Conf!Unfollow(ch) \/ Conf!Join(ch))
    BY <2>1 DEF Conf!Suggest, Conf!Confirm, Conf!Unfollow, Conf!Join
  <2>4. ~(Conf!Hand \/ Conf!Open \/ Conf!Close \/ \E a \in Conf!Account : Conf!authSet(a))
    BY <2>1 DEF Conf!Hand, Conf!Open, Conf!Close, Conf!authSet
  <2>5. ~(Conf!ListCron \/ Conf!WriteCron \/ Conf!EditCron)
    BY <2>1 DEF Conf!ListCron, Conf!WriteCron, Conf!EditCron
  <2> QED BY <2>2, <2>3, <2>4, <2>5 DEF Conf!Next
<1> QED BY <1>1, <1>2, <1>3

(***************************************************************************)
(* The names of Slack's ids (Call!).  v1: the how-manieth name each thing  *)
(* has, v2: the names in the projections, v3: the ingested messages, v4:   *)
(* what each process is doing, v5: how much of each bound is used.         *)
(***************************************************************************)

\* The least of some numbers is one of them.
LEMMA LeastIn ==
  ASSUME NEW S \in SUBSET Nat, S # {}
  PROVE  Call!Least(S) \in S
BY NatMin DEF Call!Least

\* Users, conversations and workspaces are different things.
LEMMA Kinds ==
  /\ User \subseteq Call!Thing /\ Conv \subseteq Call!Thing /\ Team \subseteq Call!Thing
  /\ \A x \in User : x \notin Conv /\ x \notin Team
  /\ \A x \in Conv : x \notin Team /\ MembersOf[x] \subseteq User
  /\ \A x \in Group : x \in Conv /\ MembersOf[x] # {}
  /\ SlackToken \subseteq Nat /\ SlackToken # {}
  /\ \A t \in SlackToken : t # Call!Shared /\ TeamOf[t] \in Team
  /\ \A t \in SlackToken : Reach[t] \subseteq Team
<1>1. SlackToken \subseteq Nat /\ \A t \in SlackToken : t # Call!Shared
  <2>1. PICK n : SlackToken = 1 .. n
    BY DeskAssumption DEF Call!NamesConstants
  <2> QED BY <2>1 DEF Call!Shared
<1> QED BY <1>1, DeskAssumption DEF Call!NamesConstants, Call!Thing

\* There is a token to ask with, whatever the workspace.
LEMMA ResolversThere ==
  ASSUME NEW described \in SUBSET SlackToken, NEW team
  PROVE  /\ Call!resolversFor(described, team) \in Seq(SlackToken)
         /\ Call!resolversFor(described, team) # <<>>
<1> DEFINE matched == {t \in described : TeamOf[t] = team}
           first == IF matched = {} THEN Call!Least(SlackToken) ELSE Call!Least(matched)
           others == SlackToken \ {first}
<1>1. first \in SlackToken
  <2>1. matched \in SUBSET Nat /\ SlackToken \in SUBSET Nat /\ SlackToken # {}
    BY Kinds
  <2> QED BY <2>1, LeastIn
<1>2. others # {} => Call!Least(others) \in SlackToken
  <2>1. others \in SUBSET Nat
    BY Kinds
  <2> QED BY <2>1, LeastIn
<1>3. Call!resolversFor(described, team) = IF others = {} THEN <<first>> ELSE <<first, Call!Least(others)>>
  BY DEF Call!resolversFor
<1> HIDE DEF first, others
<1> QED BY <1>1, <1>2, <1>3

\* What a run that asks has at hand.
LEMMA Asks ==
  ASSUME NEW r, Call!RunOK(r), r.at # "idle", r.cur # Call!None
  PROVE  /\ r \in Call!Run /\ r # Call!Idle /\ r.cur.tokens \in Seq(SlackToken) /\ r.cur.tokens # <<>>
         /\ Head(r.cur.tokens) \in SlackToken
         /\ r.cur.things \in Seq(Call!Thing)
         /\ r.at = "sync" => \A i \in DOMAIN r.cur.things :
              r.cur.things[i] \in Team => r.cur.things[i] = TeamOf[Head(r.cur.tokens)]
<1>1. r # Call!Idle
  BY DEF Call!Idle
<1>2. r \in Call!Run /\ Call!ItemOK(r) /\ Call!IdOK(r) /\ r.at \in {"sync", "fill"}
  BY <1>1 DEF Call!RunOK, Call!Run
<1>3. CASE r.at = "sync"
  <2>1. PICK t \in SlackToken, u \in User, c \in Conv :
               r.cur.tokens = <<t>> /\ r.cur.things \in {<<u, c>>, <<u, c, TeamOf[t]>>}
    BY <1>2, <1>3 DEF Call!ItemOK
  <2>2. r.cur.things \in Seq(Call!Thing)
    BY <1>2, <1>3 DEF Call!ItemOK, Call!Item
  <2>3. u \notin Team /\ c \notin Team
    BY Kinds
  <2>4. Head(r.cur.tokens) = t /\ r.cur.tokens \in Seq(SlackToken) /\ r.cur.tokens # <<>>
    BY <2>1
  <2>5. \A i \in DOMAIN r.cur.things : r.cur.things[i] \in {u, c, TeamOf[t]}
    BY <2>1
  <2> QED BY <1>1, <1>2, <2>2, <2>3, <2>4, <2>5
<1>4. CASE r.at = "fill"
  <2>1. r.cur \in Call!Id /\ r.cur.tokens # <<>>
    BY <1>2, <1>4 DEF Call!IdOK
  <2>2. r.cur.things \in Seq(Call!Thing) /\ r.cur.tokens \in Seq(SlackToken)
    BY <2>1 DEF Call!Id
  <2>3. Head(r.cur.tokens) \in SlackToken
    BY <2>1, <2>2
  <2> QED BY <1>1, <1>2, <1>4, <2>1, <2>2, <2>3
<1> QED BY <1>2, <1>3, <1>4

\* So with a process that asks now.
LEMMA AsksNow ==
  ASSUME Call!NamesInv, NEW q \in Namer, Call!Asking(q)
  PROVE  /\ v4[q] \in Call!Run /\ v4[q] # Call!Idle /\ Call!RunOK(v4[q]) /\ Call!Asker(q) \in SlackToken
         /\ Call!CacheOf(q, Call!Asker(q)) \in Call!Keys(v4[q]) /\ Call!Keys(v4[q]) \subseteq Call!Key
         /\ v4[q].at = "fill" => Call!CacheOf(q, Call!Asker(q)) = Call!Asker(q)
         /\ v4[q].at = "sync" => Call!CacheOf(q, Call!Asker(q)) = Call!Shared
<1>1. Call!RunOK(v4[q]) /\ v4[q].at # "idle" /\ v4[q].cur # Call!None
  BY DEF Call!NamesInv, Call!Asking
<1>2. v4[q] \in Call!Run /\ v4[q] # Call!Idle /\ Call!Asker(q) \in SlackToken
  BY <1>1, Asks DEF Call!Asker
<1>3. v4[q].at \in {"sync", "fill"}
  BY <1>2 DEF Call!Run
<1> QED BY <1>1, <1>2, <1>3 DEF Call!CacheOf, Call!Keys, Call!Key

\* What it asks for is not known yet; a pass asks for the workspace of its token only.
LEMMA AskedNow ==
  ASSUME Call!NamesInv, NEW q \in Namer, Call!Asking(q), ~Call!Resolved(q)
  PROVE  /\ Call!Asked(q) \in Call!Thing /\ Call!Known(q, Call!Asker(q), Call!Asked(q)) = Call!Unasked
         /\ v4[q].at = "sync" /\ Call!Asked(q) \in Team => Call!Asked(q) = TeamOf[Call!Asker(q)]
<1>1. Call!RunOK(v4[q]) /\ v4[q].at # "idle" /\ v4[q].cur # Call!None
  BY DEF Call!NamesInv, Call!Asking
<1>2. /\ v4[q].cur.things \in Seq(Call!Thing)
      /\ v4[q].at = "sync" => \A i \in DOMAIN v4[q].cur.things :
           v4[q].cur.things[i] \in Team => v4[q].cur.things[i] = TeamOf[Call!Asker(q)]
  BY <1>1, Asks DEF Call!Asker
<1>3. Call!Wanted(q) # {}
  BY DEF Call!Resolved
<1>4. Call!Wanted(q) \in SUBSET Nat
  BY <1>2 DEF Call!Wanted
<1>5. Call!Least(Call!Wanted(q)) \in Call!Wanted(q)
  BY <1>3, <1>4, LeastIn
<1>6. /\ Call!Least(Call!Wanted(q)) \in DOMAIN v4[q].cur.things
      /\ Call!Known(q, Call!Asker(q), v4[q].cur.things[Call!Least(Call!Wanted(q))]) = Call!Unasked
  BY <1>5 DEF Call!Wanted
<1> QED BY <1>2, <1>6 DEF Call!Asked

-----------------------------------------------------------------------------
\* What stays right of the caches of a run that goes on, if it is so of the one it fills.
LEMMA RunSame ==
  ASSUME NEW r \in Call!Run, NEW s \in Call!Run, Call!RunOK(r),
         s.at = r.at, s.cur = r.cur, s.ids = r.ids, s.described = r.described,
         s.start = r.start, r.fault => s.fault,
         Call!CacheOwn(s), Call!SweepOK(s), Call!TellsAll(s)
  PROVE  Call!RunOK(s)
<1>1. r # Call!Idle
  BY DEF Call!Run, Call!Idle
<1>2. Call!ItemOK(s)
  BY <1>1 DEF Call!RunOK, Call!ItemOK
<1>3. Call!IdOK(s)
  <2> SUFFICES ASSUME s.at = "fill", s.cur # Call!None
               PROVE  Call!IdOK(s)
    BY DEF Call!IdOK
  <2>1. r.cur \in Call!Id /\ \E x \in DOMAIN r.ids :
              /\ r.cur.things = <<x>> /\ r.cur.tokens # <<>>
              /\ \E team \in r.ids[x] : \A t \in Call!Elements(Call!resolversFor(r.described, team)) :
                    t \in Call!Elements(r.cur.tokens) \/ (~r.fault => ~Call!Tellable(x, t))
    BY <1>1 DEF Call!RunOK, Call!IdOK
  <2>2. PICK x \in DOMAIN s.ids :
              /\ s.cur.things = <<x>> /\ s.cur.tokens # <<>>
              /\ \E team \in s.ids[x] : \A t \in Call!Elements(Call!resolversFor(s.described, team)) :
                    t \in Call!Elements(s.cur.tokens) \/ (~s.fault => ~Call!Tellable(x, t))
    BY <2>1
  <2> QED BY <2>1, <2>2 DEF Call!IdOK
<1> QED BY <1>2, <1>3 DEF Call!RunOK

LEMMA CacheGains ==
  ASSUME NEW r \in Call!Run, NEW s \in Call!Run, Call!RunOK(r),
         NEW k \in Call!Keys(r), NEW x \in Call!Thing,
         NEW name \in Call!NameSet, Call!MadeOf(name, Call!Owners(r, k, x), r.start),
         x \in Team => name # Call!Unasked,
         name = Call!Nameless /\ r.at = "fill" /\ ~s.fault => ~Call!Tellable(x, k),
         s.at = r.at, s.cur = r.cur, s.ids = r.ids, s.described = r.described,
         s.start = r.start, r.fault => s.fault, s.listed = r.listed,
         s.cache = [r.cache EXCEPT ![k] = [r.cache[k] EXCEPT ![x] = name]]
  PROVE  Call!RunOK(s)
<1>1. r # Call!Idle
  BY DEF Call!Run, Call!Idle
<1>2. /\ r.cache \in [Call!Key -> [Call!Thing -> Call!NameSet]]
      /\ Call!Keys(r) \subseteq Call!Key /\ Call!Keys(s) = Call!Keys(r)
  BY DEF Call!Run, Call!Keys, Call!Key
<1>3. \A l \in Call!Key, y \in Call!Thing :
         s.cache[l][y] = IF l = k /\ y = x THEN name ELSE r.cache[l][y]
  BY <1>2
<1>4. Call!CacheOwn(s)
  <2> SUFFICES ASSUME NEW l \in Call!Keys(s), NEW y \in Call!Thing, s.cache[l][y] # Call!Unasked
               PROVE  Call!MadeOf(s.cache[l][y], Call!Owners(s, l, y), s.start)
    BY DEF Call!CacheOwn
  <2>1. Call!MadeOf(s.cache[l][y], Call!Owners(r, l, y), r.start)
    BY <1>1, <1>2, <1>3 DEF Call!RunOK, Call!CacheOwn
  <2>2. Call!Owners(r, l, y) \subseteq Call!Owners(s, l, y)
    BY Kinds DEF Call!Owners
  <2> QED BY <2>1, <2>2 DEF Call!MadeOf
<1>5. Call!SweepOK(s)
  <2> SUFFICES ASSUME s.at = "fill", ~s.fault, NEW l \in s.listed
               PROVE  l \in SlackToken /\ \A y \in Reach[l] : s.cache[l][y] # Call!Unasked
    BY DEF Call!SweepOK
  <2>1. l \in SlackToken /\ \A y \in Reach[l] : r.cache[l][y] # Call!Unasked
    BY <1>1 DEF Call!RunOK, Call!SweepOK
  <2>2. \A y \in Reach[l] : y \in Team /\ y \in Call!Thing
    BY <2>1, Kinds
  <2> QED BY <1>3, <2>1, <2>2 DEF Call!Key
<1>6. Call!TellsAll(s)
  <2> SUFFICES ASSUME s.at = "fill", ~s.fault, NEW l \in SlackToken, NEW y \in Call!Thing,
                      s.cache[l][y] = Call!Nameless
               PROVE  ~Call!Tellable(y, l)
    BY DEF Call!TellsAll
  <2>1. r.cache[l][y] = Call!Nameless => ~Call!Tellable(y, l)
    BY <1>1 DEF Call!RunOK, Call!TellsAll
  <2> QED BY <1>3, <2>1 DEF Call!Key
<1> QED BY <1>4, <1>5, <1>6, RunSame

\* Nothing but one run moves.
LEMMA RunMoves ==
  ASSUME Call!NamesInv, NEW q \in Namer, NEW s, v4' = [v4 EXCEPT ![q] = s], Call!RunOK(s),
         s # Call!Idle => s.start = v1 \/ (s.start = v4[q].start /\ v4[q] # Call!Idle),
         v1' = v1, v2' \in [Call!Thing -> Call!NameSet],
         v3' \in [SlackPost -> Team \union {Call!NoTeam, Call!Absent}]
  PROVE  Call!NamesInv'
<1>1. s \in {Call!Idle} \union Call!Run
  BY DEF Call!RunOK
<1>2. v4' \in [Namer -> {Call!Idle} \union Call!Run]
  BY <1>1 DEF Call!NamesInv
<1>3. /\ \A p \in Namer : v4'[p] = IF p = q THEN s ELSE v4[p]
      /\ \A x \in Call!Thing : v1[x] \in Nat
  BY DEF Call!NamesInv
<1>4. \A p \in Namer : /\ Call!RunOK(v4'[p])
                     /\ v4'[p] # Call!Idle => \A x \in Call!Thing : v4'[p].start[x] <= v1[x]
  BY <1>3 DEF Call!NamesInv
<1> QED BY <1>2, <1>4 DEF Call!NamesInv

\* A name that is told is kept in the cache.
LEMMA Remembered ==
  ASSUME Call!NamesInv, NEW q \in Namer, Call!Asking(q), NEW x \in Call!Thing, NEW name \in Call!NameSet,
         Call!Remember(q, x, name),
         Call!MadeOf(name, Call!Owners(v4[q], Call!CacheOf(q, Call!Asker(q)), x), v4[q].start),
         x \in Team => name # Call!Unasked,
         name = Call!Nameless /\ v4[q].at = "fill" /\ ~v4[q].fault => ~Call!Tellable(x, Call!Asker(q)),
         UNCHANGED <<v1, v2, v3>>
  PROVE  Call!NamesInv'
<1> DEFINE r == v4[q]
           k == Call!CacheOf(q, Call!Asker(q))
           s == [r EXCEPT !.cache = [r.cache EXCEPT ![k] = [r.cache[k] EXCEPT ![x] = name]]]
<1>1. r \in Call!Run /\ Call!RunOK(r) /\ k \in Call!Keys(r) /\ Call!Keys(r) \subseteq Call!Key
      /\ (r.at = "fill" => k = Call!Asker(q)) /\ r # Call!Idle
  BY AsksNow
<1>2. v4' = [v4 EXCEPT ![q] = s]
  BY DEF Call!Remember
<1>3. [r.cache EXCEPT ![k] = [r.cache[k] EXCEPT ![x] = name]]
        \in [Call!Key -> [Call!Thing -> Call!NameSet]]
  BY <1>1 DEF Call!Run
<1>4. /\ s \in Call!Run
      /\ s.at = r.at /\ s.cur = r.cur /\ s.ids = r.ids /\ s.described = r.described
      /\ s.start = r.start /\ s.fault = r.fault /\ s.listed = r.listed
      /\ s.cache = [r.cache EXCEPT ![k] = [r.cache[k] EXCEPT ![x] = name]]
  BY <1>1, <1>3 DEF Call!Run
<1>5. Call!RunOK(s)
  <2>1. /\ Call!MadeOf(name, Call!Owners(r, k, x), r.start)
        /\ name = Call!Nameless /\ r.at = "fill" /\ ~s.fault => ~Call!Tellable(x, k)
    BY <1>1, <1>4
  <2> HIDE DEF s, k
  <2> QED BY <1>1, <1>4, <2>1, CacheGains
<1> HIDE DEF s
<1> QED BY <1>1, <1>2, <1>4, <1>5, RunMoves DEF Call!NamesInv

\* Today's name of a thing is a name since the start of a run.
LEMMA PartOwn ==
  ASSUME Call!NamesInv, NEW q \in Namer, v4[q] # Call!Idle, NEW x \in Call!Thing
  PROVE  /\ Call!Part(x) \in Call!NameSet /\ Call!Part(x) # Call!Nameless /\ Call!Part(x) # Call!Unasked
         /\ \A owners : x \in owners => Call!MadeOf(Call!Part(x), owners, v4[q].start)
<1>1. v1[x] \in Nat /\ v1[x] # 0 /\ v4[q].start[x] <= v1[x]
  BY DEF Call!NamesInv
<1>2. Call!Part(x) = {<<x, v1[x]>>}
  BY DEF Call!Part
<1>3. Call!Part(x) # Call!Unasked
  <2>1. <<x, v1[x]>> # <<"unasked", 0>>
    BY <1>1
  <2> QED BY <1>2, <2>1 DEF Call!Unasked
<1> QED BY <1>1, <1>2, <1>3 DEF Call!NameSet, Call!MadeOf, Call!Nameless

\* A user has a name of its own, or none.
LEMMA UserTold ==
  ASSUME Call!NamesInv, NEW q \in Namer, Call!Asking(q), NEW u \in User, Call!resolveUserName(q, u),
         UNCHANGED <<v1, v2, v3>>
  PROVE  Call!NamesInv'
<1> DEFINE name == IF u \in Sees[Call!Asker(q)] THEN Call!Part(u) ELSE Call!Nameless
           owners == Call!Owners(v4[q], Call!CacheOf(q, Call!Asker(q)), u)
<1>1. u \in Call!Thing /\ u \notin Team /\ u \notin Conv
  BY Kinds
<1>2. v4[q] # Call!Idle
  BY AsksNow
<1>3. u \in owners
  BY <1>1 DEF Call!Owners
<1>4. Call!Nameless \in Call!NameSet /\ Call!MadeOf(Call!Nameless, owners, v4[q].start)
  BY DEF Call!NameSet, Call!Nameless, Call!MadeOf
<1> HIDE DEF owners
<1>5. name \in Call!NameSet /\ Call!MadeOf(name, owners, v4[q].start)
  BY <1>1, <1>2, <1>3, <1>4, PartOwn
<1>6. name = Call!Nameless => ~Call!Tellable(u, Call!Asker(q))
  <2>1. name = Call!Nameless => u \notin Sees[Call!Asker(q)]
    BY <1>1, <1>2, PartOwn
  <2> QED BY <1>1, <2>1 DEF Call!Tellable
<1>7. Call!Remember(q, u, name)
  BY DEF Call!resolveUserName
<1> HIDE DEF name
<1> QED BY <1>1, <1>5, <1>6, <1>7, Remembered DEF owners

\* The name of a conversation is made of its own, or of its members'.
LEMMA ConvTold ==
  ASSUME Call!NamesInv, NEW q \in Namer, Call!Asking(q), NEW c \in Conv, Call!resolveChannel(q, c),
         UNCHANGED <<v1, v2, v3>>
  PROVE  Call!NamesInv'
<1> DEFINE t == Call!Asker(q)
           r == v4[q]
           k == Call!CacheOf(q, t)
           open == {u \in Call!Members(q, t, c) : Call!Known(q, t, u) = Call!Unasked}
<1>1. /\ r \in Call!Run /\ Call!RunOK(r) /\ k \in Call!Keys(r) /\ k \in Call!Key
      /\ r # Call!Idle /\ t \in SlackToken
      /\ r.at = "fill" => k = t
  BY AsksNow
<1>2. c \in Call!Thing /\ c \notin Team /\ MembersOf[c] \subseteq User
  BY Kinds
<1>3. /\ Call!Members(q, t, c) \subseteq MembersOf[c]
      /\ r.at = "fill" => Call!Members(q, t, c) = MembersOf[c]
  BY DEF Call!Members, Call!Self
<1>4. Call!Owners(r, k, c) = {c} \union MembersOf[c]
  BY DEF Call!Owners
<1>5. CASE c \notin Sees[t]
  <2>1. Call!Remember(q, c, Call!Nameless)
    BY <1>5 DEF Call!resolveChannel
  <2>2. ~Call!Tellable(c, t)
    BY <1>2, <1>5 DEF Call!Tellable
  <2>3. Call!Nameless \in Call!NameSet /\ Call!MadeOf(Call!Nameless, Call!Owners(r, k, c), r.start)
    BY DEF Call!NameSet, Call!Nameless, Call!MadeOf
  <2> QED BY <1>2, <2>1, <2>2, <2>3, Remembered
<1>6. CASE c \in Sees[t] /\ open = {}
  <2> DEFINE name == Call!ConvName(q, t, c)
  <2>1. Call!Remember(q, c, name)
    BY <1>6 DEF Call!resolveChannel
  <2>2. ASSUME NEW u \in MembersOf[c]
        PROVE  /\ Call!Known(q, t, u) \in Call!NameSet /\ u \in Call!Thing
               /\ Call!Known(q, t, u) # Call!Unasked => Call!MadeOf(Call!Known(q, t, u), {u}, r.start)
               /\ Call!Known(q, t, u) = Call!Nameless /\ r.at = "fill" /\ ~r.fault => u \notin Sees[t]
    <3>1. u \in User /\ u \in Call!Thing /\ u \notin Conv /\ u \notin Team
      BY <1>2, Kinds
    <3>2. Call!Known(q, t, u) = r.cache[k][u] /\ Call!Owners(r, k, u) = {u}
      BY <3>1 DEF Call!Known, Call!Owners
    <3>3. r.cache[k][u] \in Call!NameSet
      BY <1>1, <3>1 DEF Call!Run
    <3>4. r.cache[k][u] = Call!Unasked \/ Call!MadeOf(r.cache[k][u], {u}, r.start)
      BY <1>1, <3>1, <3>2 DEF Call!RunOK, Call!CacheOwn
    <3>5. r.cache[k][u] = Call!Nameless /\ r.at = "fill" /\ ~r.fault => ~Call!Tellable(u, t)
      BY <1>1, <3>1 DEF Call!RunOK, Call!TellsAll
    <3> QED BY <3>1, <3>2, <3>3, <3>4, <3>5 DEF Call!Tellable
  <2>3. \A u \in Call!Members(q, t, c) : Call!Known(q, t, u) # Call!Unasked
    BY <1>6
  <2>4. /\ name \in Call!NameSet /\ Call!MadeOf(name, {c} \union MembersOf[c], r.start)
        /\ name = Call!Nameless /\ r.at = "fill" /\ ~r.fault => ~Call!Tellable(c, t)
    <3>1. CASE c \in Group
      <4>1. name = UNION {IF Call!Known(q, t, u) = Call!Nameless THEN {<<u, 0>>} ELSE Call!Known(q, t, u) :
                            u \in Call!Members(q, t, c)}
        BY <3>1 DEF Call!ConvName, Call!GroupName
      <4>2. ASSUME NEW u \in Call!Members(q, t, c)
            PROVE  LET mine == IF Call!Known(q, t, u) = Call!Nameless THEN {<<u, 0>>}
                               ELSE Call!Known(q, t, u) IN
                   /\ mine \in Call!NameSet /\ mine # Call!Nameless
                   /\ Call!MadeOf(mine, {c} \union MembersOf[c], r.start)
        <5>1. u \in MembersOf[c] /\ Call!Known(q, t, u) # Call!Unasked
          BY <1>3, <2>3
        <5>2. /\ Call!Known(q, t, u) \in Call!NameSet /\ u \in Call!Thing
              /\ Call!MadeOf(Call!Known(q, t, u), {u}, r.start)
          BY <2>2, <5>1
        <5> QED BY <5>1, <5>2 DEF Call!NameSet, Call!MadeOf, Call!Nameless
      <4>3. name \in Call!NameSet
        BY <4>1, <4>2 DEF Call!NameSet
      <4>4. Call!MadeOf(name, {c} \union MembersOf[c], r.start)
        BY <4>1, <4>2 DEF Call!MadeOf
      <4>5. r.at = "fill" => name # Call!Nameless
        <5>1. MembersOf[c] # {}
          BY <3>1, Kinds
        <5> QED BY <1>3, <4>1, <4>2, <5>1 DEF Call!Nameless
      <4> QED BY <4>3, <4>4, <4>5
    <3>2. CASE c \notin Group /\ MembersOf[c] # {}
      <4>1. /\ name = UNION {Call!Known(q, t, u) : u \in MembersOf[c]}
            /\ Call!Members(q, t, c) = MembersOf[c]
        BY <3>2 DEF Call!ConvName, Call!Members
      <4>2. name \in Call!NameSet
        BY <2>2, <4>1 DEF Call!NameSet
      <4>3. Call!MadeOf(name, {c} \union MembersOf[c], r.start)
        BY <2>2, <2>3, <4>1 DEF Call!MadeOf
      <4>4. ASSUME name = Call!Nameless, r.at = "fill", ~r.fault PROVE ~Call!Tellable(c, t)
        <5>1. PICK u \in MembersOf[c] : TRUE
          BY <3>2
        <5>2. Call!Known(q, t, u) = Call!Nameless
          BY <4>1, <4>4 DEF Call!Nameless
        <5>3. u \notin Sees[t]
          BY <2>2, <4>4, <5>2
        <5> QED BY <1>2, <3>2, <5>3 DEF Call!Tellable
      <4> QED BY <4>2, <4>3, <4>4
    <3>3. CASE c \notin Group /\ MembersOf[c] = {}
      <4>1. name = Call!Part(c)
        BY <3>3 DEF Call!ConvName
      <4> HIDE DEF name
      <4> QED BY <1>1, <1>2, <4>1, PartOwn
    <3> QED BY <3>1, <3>2, <3>3
  <2> HIDE DEF name
  <2> QED BY <1>2, <1>4, <2>1, <2>4, Remembered
<1>7. CASE c \in Sees[t] /\ open # {}
  <2>1. PICK u \in open : Call!resolveUserName(q, u)
    BY <1>7 DEF Call!resolveChannel
  <2>2. u \in User
    BY <1>2, <1>3
  <2> QED BY <2>1, <2>2, UserTold
<1> QED BY <1>5, <1>6, <1>7

\* The sweep of a token names the workspaces it lists.
LEMMA SweepKeeps ==
  ASSUME Call!NamesInv, NEW q \in Namer, Call!Asking(q), Call!enumerateTeams(q),
         UNCHANGED <<v1, v2, v3>>
  PROVE  Call!NamesInv'
<1> DEFINE t == Call!Asker(q)
           r == v4[q]
           k == Call!CacheOf(q, t)
<1>1. /\ r \in Call!Run /\ Call!RunOK(r) /\ k \in Call!Keys(r) /\ k \in Call!Key
      /\ r # Call!Idle /\ t \in SlackToken
      /\ r.at = "fill" => k = t
  BY AsksNow
<1>2. PICK listed \in SUBSET Reach[t] :
             v4' = [v4 EXCEPT
                ![q].cache[k] = [x \in Call!Thing |-> IF x \in listed THEN Call!Part(x) ELSE @[x]],
                ![q].listed = @ \union {k},
                ![q].fault = @ \/ listed # Reach[t]]
  BY DEF Call!enumerateTeams
<1>3. \A x \in listed : x \in Team /\ x \in Call!Thing
  BY <1>1, Kinds
<1> DEFINE mine == [x \in Call!Thing |-> IF x \in listed THEN Call!Part(x) ELSE r.cache[k][x]]
           s == [r EXCEPT !.cache = [r.cache EXCEPT ![k] = mine],
                          !.listed = r.listed \union {k},
                          !.fault = r.fault \/ listed # Reach[t]]
<1>4. v4' = [v4 EXCEPT ![q] = s]
  BY <1>1, <1>2 DEF Call!NamesInv, Call!Run
<1>5. \A x \in listed : /\ Call!Part(x) \in Call!NameSet
                        /\ Call!Part(x) # Call!Nameless /\ Call!Part(x) # Call!Unasked
                        /\ \A owners : x \in owners => Call!MadeOf(Call!Part(x), owners, r.start)
  BY <1>1, <1>3, PartOwn
<1>6. [r.cache EXCEPT ![k] = mine] \in [Call!Key -> [Call!Thing -> Call!NameSet]]
  BY <1>1, <1>5 DEF Call!Run
<1>7. /\ s \in Call!Run
      /\ s.at = r.at /\ s.cur = r.cur /\ s.ids = r.ids /\ s.described = r.described
      /\ s.start = r.start /\ s.listed = r.listed \union {k}
      /\ s.fault <=> r.fault \/ listed # Reach[t]
      /\ s.cache = [r.cache EXCEPT ![k] = mine]
  BY <1>1, <1>6 DEF Call!Run
<1>8. \A l \in Call!Key, y \in Call!Thing :
          s.cache[l][y] = IF l = k /\ y \in listed THEN Call!Part(y) ELSE r.cache[l][y]
  BY <1>1, <1>7 DEF Call!Run
<1>9. Call!Keys(s) = Call!Keys(r) /\ Call!Keys(r) \subseteq Call!Key
  BY <1>7 DEF Call!Keys, Call!Key
<1> HIDE DEF s, mine, k
<1>10. Call!CacheOwn(s)
  <2> SUFFICES ASSUME NEW l \in Call!Keys(s), NEW y \in Call!Thing, s.cache[l][y] # Call!Unasked
               PROVE  Call!MadeOf(s.cache[l][y], Call!Owners(s, l, y), s.start)
    BY DEF Call!CacheOwn
  <2>1. CASE l = k /\ y \in listed
    <3>1. y \in Call!Owners(s, l, y)
      BY <1>3, <2>1, Kinds DEF Call!Owners
    <3> QED BY <1>5, <1>7, <1>8, <1>9, <2>1, <3>1
  <2>2. CASE ~(l = k /\ y \in listed)
    <3>1. Call!MadeOf(s.cache[l][y], Call!Owners(r, l, y), r.start)
      BY <1>1, <1>8, <1>9, <2>2 DEF Call!RunOK, Call!CacheOwn
    <3>2. Call!Owners(r, l, y) \subseteq Call!Owners(s, l, y)
      BY <1>7, Kinds DEF Call!Owners
    <3> QED BY <1>7, <3>1, <3>2 DEF Call!MadeOf
  <2> QED BY <2>1, <2>2
<1>11. Call!SweepOK(s)
  <2> SUFFICES ASSUME s.at = "fill", ~s.fault, NEW l \in s.listed
               PROVE  l \in SlackToken /\ \A y \in Reach[l] : s.cache[l][y] # Call!Unasked
    BY DEF Call!SweepOK
  <2>1. CASE l = k
    <3>1. l = t /\ listed = Reach[t]
      BY <1>1, <1>7, <2>1
    <3> QED BY <1>1, <1>3, <1>5, <1>8, <2>1, <3>1
  <2>2. CASE l # k
    <3>1. l \in SlackToken /\ \A y \in Reach[l] : r.cache[l][y] # Call!Unasked
      BY <1>1, <1>7, <2>2 DEF Call!RunOK, Call!SweepOK
    <3>2. \A y \in Reach[l] : y \in Call!Thing
      BY <3>1, Kinds
    <3> QED BY <1>8, <2>2, <3>1, <3>2 DEF Call!Key
  <2> QED BY <2>1, <2>2
<1>12. Call!TellsAll(s)
  <2> SUFFICES ASSUME s.at = "fill", ~s.fault, NEW l \in SlackToken, NEW y \in Call!Thing,
                      s.cache[l][y] = Call!Nameless
               PROVE  ~Call!Tellable(y, l)
    BY DEF Call!TellsAll
  <2>1. s.cache[l][y] = r.cache[l][y]
    BY <1>5, <1>8 DEF Call!Key
  <2> QED BY <1>1, <1>7, <2>1 DEF Call!RunOK, Call!TellsAll
<1>13. Call!RunOK(s)
  BY <1>1, <1>7, <1>10, <1>11, <1>12, RunSame
<1> QED BY <1>1, <1>4, <1>7, <1>13, RunMoves DEF Call!NamesInv

\* A token answers for a workspace that is not in its sweep with its own.
LEMMA TeamTold ==
  ASSUME Call!NamesInv, NEW q \in Namer, Call!Asking(q), NEW x \in Team, Call!resolveTeamName(q, x),
         Call!Known(q, Call!Asker(q), x) = Call!Unasked,
         v4[q].at = "sync" => x = TeamOf[Call!Asker(q)],
         UNCHANGED <<v1, v2, v3>>
  PROVE  Call!NamesInv'
<1> DEFINE t == Call!Asker(q)
           r == v4[q]
           k == Call!CacheOf(q, t)
<1>1. /\ r \in Call!Run /\ Call!RunOK(r) /\ k \in Call!Keys(r) /\ r # Call!Idle /\ t \in SlackToken
      /\ r.at = "fill" => k = t
      /\ x \in Call!Thing /\ x \notin Conv /\ TeamOf[t] \in Team /\ TeamOf[t] \in Call!Thing
  BY AsksNow, Kinds
<1>2. CASE k \notin r.listed
  BY <1>2, SweepKeeps DEF Call!resolveTeamName
<1>3. CASE k \in r.listed
  <2>1. Call!Remember(q, x, Call!Part(TeamOf[t]))
    BY <1>3 DEF Call!resolveTeamName
  <2>2. TeamOf[t] \in Call!Owners(r, k, x)
    <3>1. CASE r.at = "fill"
      <4>1. r.cache[k][x] = Call!Unasked
        BY DEF Call!Known
      <4>2. x \notin Reach[k] \/ r.fault
        BY <1>1, <1>3, <3>1, <4>1 DEF Call!RunOK, Call!SweepOK
      <4> QED BY <1>1, <3>1, <4>2 DEF Call!Owners
    <3>2. CASE r.at = "sync"
      BY <1>1, <3>2 DEF Call!Owners
    <3> QED BY <1>1, <3>1, <3>2 DEF Call!Run
  <2>3. /\ Call!Part(TeamOf[t]) \in Call!NameSet /\ Call!Part(TeamOf[t]) # Call!Nameless
        /\ Call!Part(TeamOf[t]) # Call!Unasked
        /\ Call!MadeOf(Call!Part(TeamOf[t]), Call!Owners(r, k, x), r.start)
    BY <1>1, <2>2, PartOwn
  <2> QED BY <1>1, <2>1, <2>3, Remembered
<1> QED BY <1>2, <1>3

\* Every request keeps the invariant.
LEMMA NameAskKeeps ==
  ASSUME Call!NamesInv, NEW q \in Namer, Call!Ask(q)
  PROVE  Call!NamesInv'
<1>1. Call!Asking(q) /\ ~Call!Resolved(q) /\ UNCHANGED <<v1, v2, v3>>
  BY DEF Call!Ask
<1>2. /\ Call!Known(q, Call!Asker(q), Call!Asked(q)) = Call!Unasked
      /\ v4[q].at = "sync" /\ Call!Asked(q) \in Team => Call!Asked(q) = TeamOf[Call!Asker(q)]
  BY <1>1, AskedNow
<1>3. \/ Call!Asked(q) \in User /\ Call!resolveUserName(q, Call!Asked(q))
      \/ Call!Asked(q) \in Conv /\ Call!resolveChannel(q, Call!Asked(q))
      \/ Call!Asked(q) \in Team /\ Call!resolveTeamName(q, Call!Asked(q))
  BY DEF Call!Ask
<1>4. CASE Call!Asked(q) \in User /\ Call!resolveUserName(q, Call!Asked(q))
  BY <1>1, <1>4, UserTold
<1>5. CASE Call!Asked(q) \in Conv /\ Call!resolveChannel(q, Call!Asked(q))
  BY <1>1, <1>5, ConvTold
<1>6. CASE Call!Asked(q) \in Team /\ Call!resolveTeamName(q, Call!Asked(q))
  <2>1. v4[q].at = "sync" => Call!Asked(q) = TeamOf[Call!Asker(q)]
    BY <1>2, <1>6
  <2> QED BY <1>1, <1>2, <1>6, <2>1, TeamTold
<1> QED BY <1>3, <1>4, <1>5, <1>6

\* A request that failed leaves no name.
LEMMA DegradeKeeps ==
  ASSUME Call!NamesInv, NEW q \in Namer, Call!Degrade(q)
  PROVE  Call!NamesInv'
<1> DEFINE t == Call!Asker(q)
           r == v4[q]
           k == Call!CacheOf(q, t)
<1>1. Call!Asking(q) /\ ~Call!Resolved(q) /\ UNCHANGED <<v1, v2, v3>>
  BY DEF Call!Degrade
<1>2. /\ r \in Call!Run /\ Call!RunOK(r) /\ k \in Call!Keys(r) /\ k \in Call!Key
      /\ r # Call!Idle /\ t \in SlackToken
      /\ Call!Asked(q) \in Call!Thing
  BY <1>1, AsksNow, AskedNow
<1>3. PICK x \in {Call!Asked(q)} \union
                   (IF Call!Asked(q) \in Conv THEN Call!Members(q, t, Call!Asked(q)) ELSE {}) :
             v4' = [v4 EXCEPT ![q].cache[k][x] = Call!Nameless, ![q].fault = TRUE]
  BY DEF Call!Degrade
<1>4. x \in Call!Thing
  <2>1. ASSUME Call!Asked(q) \in Conv PROVE Call!Members(q, t, Call!Asked(q)) \subseteq Call!Thing
    BY <2>1, Kinds DEF Call!Members
  <2> QED BY <1>2, <1>3, <2>1
<1> DEFINE c == [r.cache EXCEPT ![k] = [r.cache[k] EXCEPT ![x] = Call!Nameless]]
           s == [r EXCEPT !.cache = c, !.fault = TRUE]
<1>5. v4' = [v4 EXCEPT ![q] = s]
  BY <1>2, <1>3 DEF Call!NamesInv, Call!Run
<1>6. /\ Call!Nameless \in Call!NameSet /\ Call!Nameless # Call!Unasked
      /\ Call!MadeOf(Call!Nameless, Call!Owners(r, k, x), r.start)
  BY DEF Call!NameSet, Call!Nameless, Call!MadeOf, Call!Unasked
<1>7. c \in [Call!Key -> [Call!Thing -> Call!NameSet]]
  BY <1>2, <1>4, <1>6 DEF Call!Run
<1>8. /\ s \in Call!Run
      /\ s.at = r.at /\ s.cur = r.cur /\ s.ids = r.ids /\ s.described = r.described
      /\ s.start = r.start /\ s.fault /\ s.listed = r.listed /\ s.cache = c
  BY <1>2, <1>7 DEF Call!Run
<1>9. Call!RunOK(s)
  <2> HIDE DEF s
  <2> QED BY <1>2, <1>4, <1>6, <1>8, CacheGains
<1> HIDE DEF s, c
<1> QED BY <1>1, <1>2, <1>5, <1>8, <1>9, RunMoves DEF Call!NamesInv
-----------------------------------------------------------------------------
\* A run asks for something else, or for nothing.
LEMMA RunAsks ==
  ASSUME NEW r \in Call!Run, NEW s \in Call!Run, Call!RunOK(r), s.at = r.at, s.cache = r.cache,
         s.listed = r.listed, s.fault = r.fault, s.start = r.start, Call!ItemOK(s), Call!IdOK(s)
  PROVE  Call!RunOK(s)
<1>1. r # Call!Idle
  BY DEF Call!Run, Call!Idle
<1>2. Call!CacheOwn(s) /\ Call!SweepOK(s) /\ Call!TellsAll(s)
  BY <1>1 DEF Call!RunOK, Call!CacheOwn, Call!SweepOK, Call!TellsAll, Call!Keys, Call!Owners
<1> QED BY <1>2 DEF Call!RunOK

\* A run begins with nothing in its caches.
LEMMA RunBegins ==
  ASSUME Call!NamesInv, NEW q \in Namer, NEW kind \in {"sync", "fill"},
         NEW described \in SUBSET SlackToken, NEW s \in Call!Run, v4' = [v4 EXCEPT ![q] = s],
         s.at = kind, s.cur = Call!None, s.start = v1, s.listed = {},
         s.cache = Call!NewRun(kind, described).cache,
         UNCHANGED <<v1, v2, v3>>
  PROVE  Call!NamesInv'
<1>1. s.cache = [k \in SlackToken \union {Call!Shared} |-> [x \in Call!Thing |-> Call!Unasked]]
  BY DEF Call!NewRun
<1>2. \A k \in Call!Keys(s), x \in Call!Thing : s.cache[k][x] = Call!Unasked
  BY <1>1 DEF Call!Keys
<1>3. Call!CacheOwn(s) /\ Call!SweepOK(s)
  BY <1>2 DEF Call!CacheOwn, Call!SweepOK
<1>4. Call!TellsAll(s)
  <2>1. Call!Unasked # Call!Nameless
    BY DEF Call!Unasked, Call!Nameless
  <2>2. \A k \in SlackToken, x \in Call!Thing : s.cache[k][x] = Call!Unasked
    BY <1>1
  <2> QED BY <2>1, <2>2 DEF Call!TellsAll
<1>5. Call!RunOK(s)
  BY <1>3, <1>4 DEF Call!RunOK, Call!ItemOK, Call!IdOK
<1> QED BY <1>5, RunMoves DEF Call!NamesInv

LEMMA NewRunTyped ==
  ASSUME Call!NamesInv, NEW kind \in {"sync", "fill"}, NEW described \in SUBSET SlackToken
  PROVE  /\ Call!NewRun(kind, described) \in Call!Run
         /\ Call!NewRun(kind, described).at = kind /\ Call!NewRun(kind, described).cur = Call!None
         /\ Call!NewRun(kind, described).start = v1 /\ Call!NewRun(kind, described).listed = {}
<1>1. Call!NoIds \in UNION {[D -> SUBSET (Team \union {Call!NoTeam})] : D \in SUBSET Call!Thing}
  BY DEF Call!NoIds
<1>2. Call!Unasked \in Call!NameSet
  BY DEF Call!Unasked, Call!NameSet
<1>3. [k \in SlackToken \union {Call!Shared} |-> [x \in Call!Thing |-> Call!Unasked]]
        \in [Call!Key -> [Call!Thing -> Call!NameSet]]
  BY <1>2 DEF Call!Key
<1>4. v1 \in [Call!Thing -> Nat]
  BY DEF Call!NamesInv
<1> QED BY <1>1, <1>3, <1>4 DEF Call!NewRun, Call!Run

\* A pass begins.
LEMMA BeginSyncKeeps ==
  ASSUME Call!NamesInv, NEW q \in Namer, Call!BeginSync(q)
  PROVE  Call!NamesInv'
<1>1. PICK described \in Described : v4' = [v4 EXCEPT ![q] = Call!NewRun("sync", described)]
  BY DEF Call!BeginSync
<1>2. described \in SUBSET SlackToken
  BY DeskAssumption DEF Call!NamesConstants
<1> DEFINE s == Call!NewRun("sync", described)
<1>3. s \in Call!Run /\ s.at = "sync" /\ s.cur = Call!None /\ s.start = v1 /\ s.listed = {}
  BY <1>2, NewRunTyped
<1>4. s.cache = Call!NewRun("sync", described).cache
  OBVIOUS
<1>5. v4' = [v4 EXCEPT ![q] = s]
  BY <1>1
<1> HIDE DEF s
<1> QED BY <1>2, <1>3, <1>4, <1>5, RunBegins DEF Call!BeginSync

\* The backfill begins with the ids it finds.
LEMMA FillKeeps ==
  ASSUME Call!NamesInv, NEW q \in Namer, NEW force \in BOOLEAN, Call!backfillSlackNames(q, force)
  PROVE  Call!NamesInv'
<1>1. PICK described \in Described :
         v4' = [v4 EXCEPT ![q] = [Call!NewRun("fill", described) EXCEPT
              !.force = force,
              !.ids = [x \in Call!IdsToName(described) |->
                         IF x \in Team THEN {x} ELSE Call!distinctByTeam(x)]]]
  BY DEF Call!backfillSlackNames
<1>2. described \in SUBSET SlackToken
  BY DeskAssumption DEF Call!NamesConstants
<1> DEFINE D == Call!IdsToName(described)
           ids == [x \in D |-> IF x \in Team THEN {x} ELSE Call!distinctByTeam(x)]
           n == Call!NewRun("fill", described)
           s == [n EXCEPT !.force = force, !.ids = ids]
<1>3. D \in SUBSET Call!Thing
  BY <1>2, Kinds DEF Call!IdsToName, Call!NamesInv
<1>4. \A x : Call!distinctByTeam(x) \subseteq Team \union {Call!NoTeam}
  BY DEF Call!distinctByTeam, Call!NamesInv
<1>5. ids \in [D -> SUBSET (Team \union {Call!NoTeam})]
  BY <1>4
<1>6. ids \in UNION {[E -> SUBSET (Team \union {Call!NoTeam})] : E \in SUBSET Call!Thing}
  BY <1>3, <1>5
<1>7. n \in Call!Run /\ n.at = "fill" /\ n.cur = Call!None /\ n.start = v1 /\ n.listed = {}
  BY <1>2, NewRunTyped
<1> HIDE DEF ids, n
<1>8. /\ s \in Call!Run /\ s.at = "fill" /\ s.cur = Call!None /\ s.start = v1 /\ s.listed = {}
      /\ s.cache = n.cache
  BY <1>6, <1>7 DEF Call!Run
<1>9. v4' = [v4 EXCEPT ![q] = s]
  BY <1>1 DEF ids, n
<1>10. s.cache = Call!NewRun("fill", described).cache
  BY <1>8 DEF n
<1> HIDE DEF s
<1> QED BY <1>2, <1>8, <1>9, <1>10, RunBegins DEF Call!backfillSlackNames

\* A message is listed.
LEMMA FetchKeeps ==
  ASSUME Call!NamesInv, NEW q \in Namer, Call!FetchItem(q)
  PROVE  Call!NamesInv'
<1> DEFINE r == v4[q]
<1>1. PICK p \in r.left, t \in SlackToken :
          v4' = [v4 EXCEPT ![q].cur =
              [at |-> "item", post |-> p, tokens |-> <<t>>,
               things |-> IF t \in r.described
                          THEN <<p.user, p.conv, TeamOf[t]>> ELSE <<p.user, p.conv>>]]
  BY DEF Call!FetchItem
<1>2. r.at = "sync" /\ r # Call!Idle /\ Call!RunOK(r) /\ r \in Call!Run
  BY DEF Call!FetchItem, Call!NamesInv, Call!RunOK, Call!Idle
<1>3. p \in SlackPost /\ p.user \in User /\ p.conv \in Conv
  <2>1. p \in SlackPost
    BY <1>2 DEF Call!Run
  <2> QED BY <2>1, DeskAssumption DEF Call!NamesConstants
<1> DEFINE things == IF t \in r.described THEN <<p.user, p.conv, TeamOf[t]>> ELSE <<p.user, p.conv>>
           cur == [at |-> "item", post |-> p, tokens |-> <<t>>, things |-> things]
           s == [r EXCEPT !.cur = cur]
<1>5. v4' = [v4 EXCEPT ![q] = s]
  BY <1>1
<1>6. things \in Seq(Call!Thing) /\ things \in {<<p.user, p.conv>>, <<p.user, p.conv, TeamOf[t]>>}
  BY <1>3, Kinds
<1> HIDE DEF things
<1>7. cur \in Call!Item /\ cur.tokens = <<t>> /\ cur.things = things
  BY <1>3, <1>6 DEF Call!Item
<1> HIDE DEF cur
<1>8. s \in Call!Run /\ s.at = r.at /\ s.cache = r.cache /\ s.listed = r.listed
      /\ s.fault = r.fault /\ s.start = r.start /\ s.cur = cur
  BY <1>2, <1>7 DEF Call!Run
<1> HIDE DEF s
<1>9. Call!ItemOK(s) /\ Call!IdOK(s)
  BY <1>2, <1>3, <1>6, <1>7, <1>8 DEF Call!ItemOK, Call!IdOK
<1>10. Call!RunOK(s)
  BY <1>2, <1>8, <1>9, RunAsks
<1> QED BY <1>2, <1>5, <1>8, <1>10, RunMoves DEF Call!NamesInv, Call!FetchItem

\* What a cache has of the thing asked for.
LEMMA KnownTyped ==
  ASSUME Call!NamesInv, NEW q \in Namer, Call!Asking(q), NEW x \in Call!Thing
  PROVE  Call!Known(q, Call!Asker(q), x) \in Call!NameSet
BY AsksNow DEF Call!Known, Call!Run

\* A message is recorded with the names it has.
LEMMA RecordItemKeeps ==
  ASSUME Call!NamesInv, NEW q \in Namer, NEW edited \in BOOLEAN, Call!RecordItem(q, edited)
  PROVE  Call!NamesInv'
<1> DEFINE r == v4[q]
           observed == {x \in Call!Elements(r.cur.things) : x \in User \/ x \notin r.seen}
           new == v3[r.cur.post] = Call!Absent \/ edited
           s == [r EXCEPT !.cur = Call!None, !.left = @ \ {r.cur.post},
                          !.seen = IF new THEN @ \union observed ELSE @]
<1>1. r.at = "sync" /\ Call!Asking(q) /\ v1' = v1
  BY DEF Call!RecordItem, Call!Resolved
<1>2. r \in Call!Run /\ r # Call!Idle /\ Call!RunOK(r) /\ Call!Asker(q) \in SlackToken
  BY <1>1, AsksNow
<1>3. v4' = [v4 EXCEPT ![q] = s]
  BY DEF Call!RecordItem
<1>4. r.cur \in Call!Item /\ r.cur.things \in Seq(Call!Thing) /\ r.cur.post \in SlackPost
  BY <1>1, <1>2 DEF Call!RunOK, Call!ItemOK, Call!Item, Call!Asking
<1>5. observed \in SUBSET Call!Thing
  BY <1>4 DEF Call!Elements
<1>6. s \in Call!Run /\ s.at = r.at /\ s.cache = r.cache /\ s.listed = r.listed
      /\ s.fault = r.fault /\ s.start = r.start /\ s.cur = Call!None
  <2> HIDE DEF observed, new
  <2> QED BY <1>2, <1>5 DEF Call!Run
<1>7. Call!RunOK(s)
  <2> HIDE DEF s
  <2> QED BY <1>2, <1>6, RunAsks DEF Call!ItemOK, Call!IdOK
<1>8. v2' \in [Call!Thing -> Call!NameSet]
  BY <1>1, KnownTyped DEF Call!RecordItem, Call!Observed, Call!NamesInv
<1>9. v3' \in [SlackPost -> Team \union {Call!NoTeam, Call!Absent}]
  BY <1>2, Kinds DEF Call!RecordItem, Call!NamesInv
<1> HIDE DEF s
<1> QED BY <1>1, <1>2, <1>3, <1>6, <1>7, <1>8, <1>9, RunMoves

\* The ids left are fewer, and stay what they were.
LEMMA WithoutTyped ==
  ASSUME NEW r \in Call!Run, NEW x
  PROVE  /\ Call!Without(r.ids, x)
              \in UNION {[D -> SUBSET (Team \union {Call!NoTeam})] : D \in SUBSET Call!Thing}
         /\ DOMAIN Call!Without(r.ids, x) = DOMAIN r.ids \ {x} /\ DOMAIN r.ids \subseteq Call!Thing
<1>1. PICK D \in SUBSET Call!Thing : r.ids \in [D -> SUBSET (Team \union {Call!NoTeam})]
  BY DEF Call!Run
<1>2. Call!Without(r.ids, x) \in [D \ {x} -> SUBSET (Team \union {Call!NoTeam})]
  BY <1>1 DEF Call!Without
<1>3. D \ {x} \in SUBSET Call!Thing
  OBVIOUS
<1> QED BY <1>1, <1>2, <1>3

\* An id is passed over, or asked for.
LEMMA NextIdKeeps ==
  ASSUME Call!NamesInv, NEW q \in Namer, Call!NextId(q)
  PROVE  Call!NamesInv'
<1> DEFINE r == v4[q]
<1>1. r.at = "fill" /\ r # Call!Idle /\ Call!RunOK(r) /\ r \in Call!Run /\ r.cur = Call!None
      /\ UNCHANGED <<v1, v2, v3>>
  BY DEF Call!NextId, Call!NamesInv, Call!RunOK, Call!Idle
<1>2. PICK x \in Call!Due(q) :
         \/ v4' = [v4 EXCEPT ![q].ids = Call!Without(@, x)]
         \/ \E team \in r.ids[x] :
               v4' = [v4 EXCEPT ![q].cur = [at |-> "id", things |-> <<x>>,
                                              tokens |-> Call!resolversFor(r.described, team)]]
  BY DEF Call!NextId
<1>3. x \in DOMAIN r.ids /\ x \in Call!Thing
  BY <1>1, <1>2, WithoutTyped DEF Call!Due
<1>4. CASE v4' = [v4 EXCEPT ![q].ids = Call!Without(@, x)]
  <2> DEFINE s == [r EXCEPT !.ids = Call!Without(r.ids, x)]
  <2>1. v4' = [v4 EXCEPT ![q] = s]
    BY <1>4
  <2>2. s \in Call!Run /\ s.at = r.at /\ s.cache = r.cache /\ s.listed = r.listed
        /\ s.fault = r.fault /\ s.start = r.start /\ s.cur = Call!None
    BY <1>1, WithoutTyped DEF Call!Run
  <2> HIDE DEF s
  <2>3. Call!RunOK(s)
    BY <1>1, <2>2, RunAsks DEF Call!ItemOK, Call!IdOK
  <2> QED BY <1>1, <2>1, <2>2, <2>3, RunMoves DEF Call!NamesInv
<1>5. ASSUME NEW team \in r.ids[x],
             v4' = [v4 EXCEPT ![q].cur = [at |-> "id", things |-> <<x>>,
                                              tokens |-> Call!resolversFor(r.described, team)]]
      PROVE  Call!NamesInv'
  <2> DEFINE tokens == Call!resolversFor(r.described, team)
             cur == [at |-> "id", things |-> <<x>>, tokens |-> tokens]
             s == [r EXCEPT !.cur = cur]
  <2>1. v4' = [v4 EXCEPT ![q] = s]
    BY <1>5
  <2>2. tokens \in Seq(SlackToken) /\ tokens # <<>>
    BY <1>1, ResolversThere DEF Call!Run
  <2>3. cur \in Call!Id /\ cur.things = <<x>> /\ cur.tokens = tokens
    <3> HIDE DEF tokens
    <3> QED BY <1>3, <2>2 DEF Call!Id
  <2>4. s \in Call!Run /\ s.at = r.at /\ s.cache = r.cache /\ s.listed = r.listed
        /\ s.fault = r.fault /\ s.start = r.start /\ s.cur = cur /\ s.ids = r.ids
        /\ s.described = r.described
    <3> HIDE DEF cur
    <3> QED BY <1>1, <2>3 DEF Call!Run
  <2>5. Call!ItemOK(s) /\ Call!IdOK(s)
    <3> HIDE DEF cur, s
    <3>1. \A t \in Call!Elements(Call!resolversFor(s.described, team)) : t \in Call!Elements(s.cur.tokens)
      BY <2>3, <2>4
    <3>2. s.cur \in Call!Id /\ s.cur.things = <<x>> /\ s.cur.tokens # <<>> /\ x \in DOMAIN s.ids
          /\ team \in s.ids[x]
      BY <1>3, <1>5, <2>2, <2>3, <2>4
    <3> QED BY <1>1, <2>4, <3>1, <3>2 DEF Call!ItemOK, Call!IdOK
  <2> HIDE DEF s
  <2>6. Call!RunOK(s)
    BY <1>1, <2>4, <2>5, RunAsks
  <2> QED BY <1>1, <2>1, <2>4, <2>6, RunMoves DEF Call!NamesInv
<1> QED BY <1>2, <1>4, <1>5

\* A run that goes on to its next token, or is through with an id.
LEMMA RecordIdKeeps ==
  ASSUME Call!NamesInv, NEW q \in Namer, Call!RecordId(q)
  PROVE  Call!NamesInv'
<1> DEFINE r == v4[q]
           x == r.cur.things[1]
           name == Call!Known(q, Call!Asker(q), x)
<1>1. r.at = "fill" /\ Call!Asking(q) /\ r.cur # Call!None /\ UNCHANGED <<v1, v3>>
  BY DEF Call!RecordId, Call!Resolved, Call!Asking
<1>2. /\ r \in Call!Run /\ r # Call!Idle /\ Call!RunOK(r) /\ Call!Asker(q) \in SlackToken
      /\ Call!CacheOf(q, Call!Asker(q)) = Call!Asker(q)
  BY <1>1, AsksNow
<1>3. PICK y \in DOMAIN r.ids :
         /\ r.cur \in Call!Id /\ r.cur.things = <<y>> /\ r.cur.tokens # <<>>
         /\ \E team \in r.ids[y] : \A t \in Call!Elements(Call!resolversFor(r.described, team)) :
               t \in Call!Elements(r.cur.tokens) \/ (~r.fault => ~Call!Tellable(y, t))
  BY <1>1, <1>2 DEF Call!RunOK, Call!IdOK
<1>4. x = y /\ x \in Call!Thing
  <2>1. r.cur.things[1] = y
    BY <1>3
  <2>2. DOMAIN r.ids \subseteq Call!Thing
    BY <1>2, WithoutTyped
  <2> QED BY <1>3, <2>1, <2>2
<1>5. CASE name = Call!Nameless /\ Len(r.cur.tokens) > 1
  <2> DEFINE cur == [r.cur EXCEPT !.tokens = Tail(r.cur.tokens)]
             s == [r EXCEPT !.cur = cur]
  <2>1. v2' = v2 /\ v4' = [v4 EXCEPT ![q].cur.tokens = Tail(@)]
    BY <1>5 DEF Call!RecordId
  <2>2. v4' = [v4 EXCEPT ![q] = s]
    BY <1>2, <2>1 DEF Call!NamesInv, Call!Run
  <2>3. /\ cur \in Call!Id /\ cur.things = <<y>> /\ cur.tokens # <<>>
        /\ cur.tokens = Tail(r.cur.tokens) /\ r.cur.tokens \in Seq(SlackToken)
    <3>1. r.cur.tokens \in Seq(SlackToken)
      BY <1>3 DEF Call!Id
    <3>2. Tail(r.cur.tokens) \in Seq(SlackToken) /\ Tail(r.cur.tokens) # <<>>
      <4> DEFINE tokens == r.cur.tokens
      <4>1. tokens \in Seq(SlackToken) /\ Len(tokens) > 1
        BY <1>5, <3>1
      <4> HIDE DEF tokens
      <4>2. Tail(tokens) \in Seq(SlackToken) /\ Tail(tokens) # <<>>
        <5>1. Tail(tokens) \in Seq(SlackToken)
          BY <4>1
        <5>2. Len(Tail(tokens)) = Len(tokens) - 1 /\ Len(tokens) \in Nat
          BY <4>1
        <5>3. Len(Tail(tokens)) # 0
          <6>1. \A n \in Nat : n > 1 => n - 1 # 0
            OBVIOUS
          <6> QED BY <4>1, <5>2, <6>1
        <5>4. Len(<<>>) = 0
          OBVIOUS
        <5> QED BY <5>1, <5>3, <5>4
      <4> QED BY <4>2 DEF tokens
    <3> QED BY <1>3, <3>1, <3>2 DEF Call!Id
  <2>4. s \in Call!Run /\ s.at = r.at /\ s.cache = r.cache /\ s.listed = r.listed
        /\ s.fault = r.fault /\ s.start = r.start /\ s.cur = cur /\ s.ids = r.ids
        /\ s.described = r.described
    <3> HIDE DEF cur
    <3> QED BY <1>2, <2>3 DEF Call!Run
  <2>5. \A t \in Call!Elements(r.cur.tokens) : t \in Call!Elements(cur.tokens) \/ t = Call!Asker(q)
    <3> SUFFICES ASSUME NEW i \in DOMAIN r.cur.tokens
                 PROVE  \/ r.cur.tokens[i] \in Call!Elements(cur.tokens)
                        \/ r.cur.tokens[i] = Call!Asker(q)
      BY DEF Call!Elements
    <3> HIDE DEF cur
    <3>1. CASE i = 1
      BY <2>3, <3>1 DEF Call!Asker
    <3>2. CASE i # 1
      <4> DEFINE tokens == r.cur.tokens
      <4>1. /\ tokens \in Seq(SlackToken) /\ i \in DOMAIN tokens /\ i # 1
            /\ cur.tokens = Tail(tokens)
        BY <2>3, <3>2
      <4>2. i - 1 \in DOMAIN Tail(tokens) /\ Tail(tokens)[i - 1] = tokens[i]
        <5> HIDE DEF tokens
        <5> QED BY <4>1
      <4>3. i - 1 \in DOMAIN cur.tokens /\ cur.tokens[i - 1] = r.cur.tokens[i]
        BY <4>1, <4>2
      <4> QED BY <4>3 DEF Call!Elements
    <3> QED BY <3>1, <3>2
  <2>6. ~r.fault => ~Call!Tellable(y, Call!Asker(q))
    <3>1. r.cache[Call!Asker(q)][y] = Call!Nameless
      BY <1>2, <1>4, <1>5 DEF Call!Known
    <3> QED BY <1>1, <1>2, <1>4, <3>1 DEF Call!RunOK, Call!TellsAll
  <2> HIDE DEF cur, s
  <2>7. Call!ItemOK(s) /\ Call!IdOK(s)
    <3>1. \E team \in s.ids[y] : \A t \in Call!Elements(Call!resolversFor(s.described, team)) :
               t \in Call!Elements(s.cur.tokens) \/ (~s.fault => ~Call!Tellable(y, t))
      BY <1>3, <2>4, <2>5, <2>6
    <3>2. s.cur \in Call!Id /\ s.cur.things = <<y>> /\ s.cur.tokens # <<>> /\ y \in DOMAIN s.ids
      BY <2>3, <2>4
    <3> QED BY <1>1, <2>4, <3>1, <3>2 DEF Call!ItemOK, Call!IdOK
  <2>8. Call!RunOK(s)
    BY <1>2, <2>4, <2>7, RunAsks
  <2> QED BY <1>1, <1>2, <2>1, <2>2, <2>4, <2>8, RunMoves DEF Call!NamesInv
<1>6. CASE ~(name = Call!Nameless /\ Len(r.cur.tokens) > 1)
  <2> DEFINE s == [r EXCEPT !.cur = Call!None, !.ids = Call!Without(r.ids, x)]
  <2>1. /\ v2' = [v2 EXCEPT ![x] = Call!Observed(x, name)]
        /\ v4' = [v4 EXCEPT ![q].cur = Call!None, ![q].ids = Call!Without(@, x)]
    BY <1>6 DEF Call!RecordId
  <2>2. v4' = [v4 EXCEPT ![q] = s]
    BY <2>1 DEF Call!NamesInv
  <2>3. s \in Call!Run /\ s.at = r.at /\ s.cache = r.cache /\ s.listed = r.listed
        /\ s.fault = r.fault /\ s.start = r.start /\ s.cur = Call!None
    BY <1>2, WithoutTyped DEF Call!Run
  <2>4. v2' \in [Call!Thing -> Call!NameSet]
    BY <1>1, <1>4, <2>1, KnownTyped DEF Call!Observed, Call!NamesInv
  <2> HIDE DEF s
  <2>5. Call!RunOK(s)
    BY <1>2, <2>3, RunAsks DEF Call!ItemOK, Call!IdOK
  <2> QED BY <1>1, <1>2, <2>2, <2>3, <2>4, <2>5, RunMoves DEF Call!NamesInv
<1> QED BY <1>5, <1>6

\* A run ends.
LEMMA RunEnds ==
  ASSUME Call!NamesInv, NEW q \in Namer, Call!End(q)
  PROVE  Call!NamesInv'
BY RunMoves DEF Call!End, Call!RunOK, Call!NamesInv

\* A renaming is later than every run.
LEMMA RenameKeeps ==
  ASSUME Call!NamesInv, NEW x \in Renamed, Call!Rename(x)
  PROVE  Call!NamesInv'
<1>1. x \in Call!Thing
  BY DeskAssumption DEF Call!NamesConstants, Call!Thing
<1>2. v1' = [v1 EXCEPT ![x] = @ + 1] /\ UNCHANGED <<v2, v3, v4>>
  BY DEF Call!Rename
<1>3. v1' \in [Call!Thing -> Nat \ {0}] /\ \A y \in Call!Thing : v1[y] <= v1'[y]
  BY <1>1, <1>2 DEF Call!NamesInv
<1>4. \A p \in Namer : v4[p] # Call!Idle => v4[p].start \in [Call!Thing -> Nat]
  BY DEF Call!NamesInv, Call!Run
<1>5. \A p \in Namer : v4[p] # Call!Idle => \A y \in Call!Thing : v4[p].start[y] <= v1'[y]
  <2> SUFFICES ASSUME NEW p \in Namer, v4[p] # Call!Idle, NEW y \in Call!Thing
               PROVE  v4[p].start[y] <= v1'[y]
    OBVIOUS
  <2>1. v4[p].start[y] <= v1[y] /\ v4[p].start[y] \in Nat
        /\ v1[y] \in Nat /\ v1'[y] \in Nat
    BY <1>3, <1>4 DEF Call!NamesInv
  <2> QED BY <1>3, <2>1
<1> QED BY <1>2, <1>3, <1>5 DEF Call!NamesInv

\* Nobody asks for anything at first.
LEMMA NamesStarts ==
  ASSUME Call!Init
  PROVE  Call!NamesInv
<1>1. Call!Nameless \in Call!NameSet
  BY DEF Call!Nameless, Call!NameSet
<1> QED BY <1>1 DEF Call!Init, Call!NamesInv, Call!RunOK

\* The other parts leave the names alone.
LEMMA NamesStutters ==
  ASSUME Call!NamesInv, UNCHANGED Call!vars
  PROVE  Call!NamesInv'
BY DEF Call!NamesInv, Call!vars

\* Every step of a process keeps the invariant of the names.
LEMMA NamesStep ==
  ASSUME Call!NamesInv, Call!Next
  PROVE  Call!NamesInv'
<1>1. ASSUME NEW q \in Namer,
             \/ Call!BeginSync(q) \/ Call!FetchItem(q) \/ Call!Ask(q) \/ Call!Degrade(q)
             \/ \E edited \in BOOLEAN : Call!RecordItem(q, edited)
             \/ \E force \in BOOLEAN : Call!backfillSlackNames(q, force)
             \/ Call!NextId(q) \/ Call!RecordId(q) \/ Call!End(q)
      PROVE  Call!NamesInv'
  <2>1. CASE Call!BeginSync(q) BY <2>1, BeginSyncKeeps
  <2>2. CASE Call!FetchItem(q) BY <2>2, FetchKeeps
  <2>3. CASE Call!Ask(q)       BY <2>3, NameAskKeeps
  <2>4. CASE Call!Degrade(q)   BY <2>4, DegradeKeeps
  <2>5. ASSUME NEW edited \in BOOLEAN, Call!RecordItem(q, edited) PROVE Call!NamesInv'
    BY <2>5, RecordItemKeeps
  <2>6. ASSUME NEW force \in BOOLEAN, Call!backfillSlackNames(q, force) PROVE Call!NamesInv'
    BY <2>6, FillKeeps
  <2>7. CASE Call!NextId(q)    BY <2>7, NextIdKeeps
  <2>8. CASE Call!RecordId(q)  BY <2>8, RecordIdKeeps
  <2>9. CASE Call!End(q)       BY <2>9, RunEnds
  <2> QED BY <1>1, <2>1, <2>2, <2>3, <2>4, <2>5, <2>6, <2>7, <2>8, <2>9
<1>2. ASSUME NEW x \in Renamed, Call!Rename(x) PROVE Call!NamesInv'
  BY <1>2, RenameKeeps
<1> QED BY <1>1, <1>2 DEF Call!Next
-----------------------------------------------------------------------------
\* The property, which the names in the caches give.
LEMMA OwnNameRecorded ==
  ASSUME Call!NamesInv, NEW q \in Namer, Call!Asking(q), NEW x \in Call!Thing,
         Call!Known(q, Call!Asker(q), x) # Call!Unasked
  PROVE  Call!OwnName(q, x, Call!Known(q, Call!Asker(q), x))
<1> DEFINE r == v4[q]
           k == Call!CacheOf(q, Call!Asker(q))
           name == Call!Known(q, Call!Asker(q), x)
<1>1. /\ r \in Call!Run /\ Call!RunOK(r) /\ k \in Call!Keys(r) /\ r # Call!Idle
      /\ r.at = "fill" => k = Call!Asker(q)
  BY AsksNow
<1>2. name = r.cache[k][x]
  BY DEF Call!Known
<1>3. Call!MadeOf(name, Call!Owners(r, k, x), r.start)
  BY <1>1, <1>2 DEF Call!RunOK, Call!CacheOwn
<1>4. Call!Owners(r, k, x) = Call!Nameable(q, x)
  BY <1>1, Kinds DEF Call!Owners, Call!Nameable
<1> HIDE DEF name
<1>5. Call!OwnName(q, x, name)
  BY <1>3, <1>4 DEF Call!MadeOf, Call!OwnName
<1> QED BY <1>5 DEF name

\* When nothing is left to ask for, the name of each thing asked for is known.
LEMMA AllKnown ==
  ASSUME Call!NamesInv, NEW q \in Namer, Call!Resolved(q), NEW x \in Call!Elements(v4[q].cur.things)
  PROVE  x \in Call!Thing /\ Call!Asking(q) /\ Call!Known(q, Call!Asker(q), x) # Call!Unasked
<1>1. Call!Asking(q) /\ Call!Wanted(q) = {}
  BY DEF Call!Resolved
<1>2. Call!RunOK(v4[q]) /\ v4[q].at # "idle" /\ v4[q].cur # Call!None
  BY <1>1 DEF Call!NamesInv, Call!Asking
<1>3. v4[q].cur.things \in Seq(Call!Thing)
  BY <1>2, Asks
<1>4. PICK i \in DOMAIN v4[q].cur.things : x = v4[q].cur.things[i]
  BY DEF Call!Elements
<1> QED BY <1>1, <1>3, <1>4 DEF Call!Wanted

\* The id that is recorded is one of those left.
LEMMA IdAsked ==
  ASSUME Call!NamesInv, NEW q \in Namer, v4[q].at = "fill", Call!Resolved(q)
  PROVE  \E x \in DOMAIN v4[q].ids :
            /\ v4[q].cur.things = <<x>> /\ v4[q].cur.things[1] = x /\ x \in Call!Thing
            /\ x \in Call!Elements(v4[q].cur.things) /\ v4[q].cur.tokens # <<>>
            /\ v4[q].cur.tokens \in Seq(SlackToken)
            /\ \E team \in v4[q].ids[x] :
                  \A t \in Call!Elements(Call!resolversFor(v4[q].described, team)) :
                     t \in Call!Elements(v4[q].cur.tokens) \/ (~v4[q].fault => ~Call!Tellable(x, t))
<1> DEFINE r == v4[q]
<1>1. Call!Asking(q) /\ r.cur # Call!None
  BY DEF Call!Resolved, Call!Asking
<1>2. r \in Call!Run /\ r # Call!Idle /\ Call!RunOK(r)
  BY <1>1, AsksNow
<1>3. PICK x \in DOMAIN r.ids :
         /\ r.cur \in Call!Id /\ r.cur.things = <<x>> /\ r.cur.tokens # <<>>
         /\ \E team \in r.ids[x] : \A t \in Call!Elements(Call!resolversFor(r.described, team)) :
               t \in Call!Elements(r.cur.tokens) \/ (~r.fault => ~Call!Tellable(x, t))
  BY <1>1, <1>2 DEF Call!RunOK, Call!IdOK
<1>4. r.cur.things[1] = x /\ 1 \in DOMAIN r.cur.things
  BY <1>3
<1>5. x \in Call!Elements(r.cur.things)
  BY <1>4 DEF Call!Elements
<1>6. x \in Call!Thing /\ r.cur.tokens \in Seq(SlackToken)
  BY <1>2, <1>3, WithoutTyped DEF Call!Id
<1> QED BY <1>3, <1>4, <1>5, <1>6

\* A message brings names of its own things.
LEMMA ItemNames ==
  ASSUME Call!NamesInv, NEW q \in Namer, NEW edited \in BOOLEAN, Call!RecordItem(q, edited)
  PROVE  Call!NamesKeptStep
<1> SUFFICES ASSUME NEW x \in Call!Thing, v2'[x] # v2[x]
             PROVE  v2'[x] # Call!Nameless /\ Call!Asking(q) /\ Call!OwnName(q, x, v2'[x])
  BY DEF Call!NamesKeptStep
<1>1. Call!Resolved(q)
  BY DEF Call!RecordItem
<1> DEFINE observed == {y \in Call!Elements(v4[q].cur.things) : y \in User \/ y \notin v4[q].seen}
           name == Call!Known(q, Call!Asker(q), x)
<1>2. v2' = v2 \/ v2' = [y \in Call!Thing |-> IF y \notin observed THEN v2[y]
                                              ELSE Call!Observed(y, Call!Known(q, Call!Asker(q), y))]
  BY DEF Call!RecordItem
<1>3. v2'[x] = IF x \notin observed THEN v2[x] ELSE Call!Observed(x, name)
  BY <1>2
<1>4. x \in observed /\ v2'[x] = Call!Observed(x, name)
  BY <1>3
<1>5. x \in Call!Elements(v4[q].cur.things)
  BY <1>4
<1> HIDE DEF name
<1>6. v2'[x] = name /\ name # Call!Nameless
  BY <1>4 DEF Call!Observed
<1>7. Call!Asking(q) /\ Call!OwnName(q, x, name)
  BY <1>1, <1>5, AllKnown, OwnNameRecorded DEF name
<1> QED BY <1>6, <1>7

\* So does an id of the backfill.
LEMMA IdNames ==
  ASSUME Call!NamesInv, NEW q \in Namer, Call!RecordId(q)
  PROVE  Call!NamesKeptStep
<1> SUFFICES ASSUME NEW y \in Call!Thing, v2'[y] # v2[y]
             PROVE  v2'[y] # Call!Nameless /\ Call!Asking(q) /\ Call!OwnName(q, y, v2'[y])
  BY DEF Call!NamesKeptStep
<1>1. Call!Resolved(q) /\ v4[q].at = "fill"
  BY DEF Call!RecordId
<1>2. PICK x \in Call!Thing : v4[q].cur.things[1] = x /\ x \in Call!Elements(v4[q].cur.things)
  BY <1>1, IdAsked
<1> DEFINE name == Call!Known(q, Call!Asker(q), x)
<1>3. v2' = v2 \/ v2' = [v2 EXCEPT ![x] = Call!Observed(x, name)]
  BY <1>2 DEF Call!RecordId
<1> HIDE DEF name
<1>4. v2'[y] = IF y = x THEN Call!Observed(x, name) ELSE v2[y]
  BY <1>3 DEF Call!NamesInv
<1>5. y = x /\ v2'[x] = name /\ name # Call!Nameless
  BY <1>4 DEF Call!Observed
<1>6. Call!Asking(q) /\ Call!OwnName(q, x, name)
  BY <1>1, <1>2, AllKnown, OwnNameRecorded DEF name
<1> QED BY <1>5, <1>6

\* Nothing else records a name.
LEMMA RowsStay ==
  ASSUME Call!NamesInv, Call!Next
  PROVE  \/ v2' = v2
         \/ \E q \in Namer : Call!RecordId(q) \/ \E edited \in BOOLEAN : Call!RecordItem(q, edited)
<1>1. ASSUME NEW q \in Namer,
             \/ Call!BeginSync(q) \/ Call!FetchItem(q) \/ Call!Ask(q) \/ Call!Degrade(q)
             \/ \E force \in BOOLEAN : Call!backfillSlackNames(q, force)
             \/ Call!NextId(q) \/ Call!End(q)
      PROVE  v2' = v2
  BY <1>1
     DEF Call!BeginSync, Call!FetchItem, Call!Ask, Call!Degrade, Call!backfillSlackNames,
         Call!NextId, Call!End
<1>2. ASSUME NEW x \in Renamed, Call!Rename(x) PROVE v2' = v2
  BY <1>2 DEF Call!Rename
<1> QED BY <1>1, <1>2 DEF Call!Next

\* What is passed over has a name; what is recorded has one, or no token could tell it.
LEMMA NextIdFills ==
  ASSUME Call!NamesInv, NEW q \in Namer, Call!NextId(q),
         NEW x \in DOMAIN v4[q].ids \ DOMAIN v4'[q].ids
  PROVE  v2'[x] # Call!Nameless
<1> DEFINE r == v4[q]
<1>1. r.at = "fill" /\ r # Call!Idle /\ r \in Call!Run /\ v2' = v2
  BY DEF Call!NextId, Call!NamesInv, Call!Idle
<1>2. PICK y \in Call!Due(q) :
         \/ v2[y] # Call!Nameless /\ v4' = [v4 EXCEPT ![q].ids = Call!Without(@, y)]
         \/ \E team \in r.ids[y] :
               v4' = [v4 EXCEPT ![q].cur = [at |-> "id", things |-> <<y>>,
                                              tokens |-> Call!resolversFor(r.described, team)]]
  BY DEF Call!NextId
<1>3. CASE v2[y] # Call!Nameless /\ v4' = [v4 EXCEPT ![q].ids = Call!Without(@, y)]
  <2>1. v4'[q].ids = Call!Without(r.ids, y)
    BY <1>1, <1>3 DEF Call!NamesInv, Call!Run
  <2>2. x = y
    BY <1>1, <2>1, WithoutTyped
  <2> QED BY <1>1, <1>3, <2>2
<1>4. ASSUME NEW team \in r.ids[y],
             v4' = [v4 EXCEPT ![q].cur = [at |-> "id", things |-> <<y>>,
                                            tokens |-> Call!resolversFor(r.described, team)]]
      PROVE  FALSE
  <2>1. v4'[q].ids = r.ids
    BY <1>1, <1>4 DEF Call!NamesInv, Call!Run
  <2> QED BY <2>1
<1> QED BY <1>2, <1>3, <1>4

LEMMA RecordIdFills ==
  ASSUME Call!NamesInv, NEW q \in Namer, Call!RecordId(q), ~v4[q].fault,
         NEW x \in DOMAIN v4[q].ids \ DOMAIN v4'[q].ids
  PROVE  \/ \E team \in v4[q].ids[x] :
               \A t \in Call!Elements(Call!resolversFor(v4[q].described, team)) :
                  ~Call!Tellable(x, t)
         \/ v2'[x] # Call!Nameless
<1> DEFINE r == v4[q]
<1>1. r.at = "fill" /\ Call!Resolved(q) /\ Call!Asking(q)
  BY DEF Call!RecordId, Call!Resolved
<1>2. /\ r \in Call!Run /\ r # Call!Idle /\ Call!RunOK(r) /\ Call!Asker(q) \in SlackToken
      /\ Call!CacheOf(q, Call!Asker(q)) = Call!Asker(q)
  BY <1>1, AsksNow
<1>3. PICK y \in DOMAIN r.ids :
         /\ r.cur.things[1] = y /\ y \in Call!Thing
         /\ r.cur.tokens # <<>> /\ r.cur.tokens \in Seq(SlackToken)
         /\ \E team \in r.ids[y] : \A t \in Call!Elements(Call!resolversFor(r.described, team)) :
               t \in Call!Elements(r.cur.tokens) \/ (~r.fault => ~Call!Tellable(y, t))
  BY <1>1, IdAsked
<1> DEFINE name == Call!Known(q, Call!Asker(q), y)
<1>4. CASE name = Call!Nameless /\ Len(r.cur.tokens) > 1
  <2>1. v4' = [v4 EXCEPT ![q].cur.tokens = Tail(@)]
    BY <1>3, <1>4 DEF Call!RecordId
  <2>2. v4'[q].ids = r.ids
    BY <1>2, <2>1 DEF Call!NamesInv, Call!Run
  <2> QED BY <2>2
<1>5. CASE ~(name = Call!Nameless /\ Len(r.cur.tokens) > 1)
  <2>1. /\ v2' = [v2 EXCEPT ![y] = Call!Observed(y, name)]
        /\ v4' = [v4 EXCEPT ![q].cur = Call!None, ![q].ids = Call!Without(@, y)]
    BY <1>3, <1>5 DEF Call!RecordId
  <2>2. v4'[q].ids = Call!Without(r.ids, y)
    BY <1>2, <2>1 DEF Call!NamesInv, Call!Run
  <2>3. x = y
    BY <1>2, <2>2, WithoutTyped
  <2>4. CASE name # Call!Nameless
    <3>1. v2'[y] = name
      BY <1>3, <2>1, <2>4 DEF Call!Observed, Call!NamesInv
    <3> QED BY <2>3, <2>4, <3>1
  <2>5. CASE name = Call!Nameless
    <3>1. ~Call!Tellable(y, Call!Asker(q))
      <4>1. r.cache[Call!Asker(q)][y] = Call!Nameless
        BY <1>2, <2>5 DEF Call!Known
      <4> QED BY <1>1, <1>2, <1>3, <4>1 DEF Call!RunOK, Call!TellsAll
    <3>2. \A t \in Call!Elements(r.cur.tokens) : t = Call!Asker(q)
      <4>1. Len(r.cur.tokens) \in Nat /\ ~(Len(r.cur.tokens) > 1)
            /\ DOMAIN r.cur.tokens = 1 .. Len(r.cur.tokens)
        BY <1>3, <1>5, <2>5
      <4>2. \A i \in DOMAIN r.cur.tokens : i = 1
        BY <4>1
      <4> QED BY <1>3, <4>2 DEF Call!Elements, Call!Asker
    <3> QED BY <1>3, <2>3, <3>1, <3>2
  <2> QED BY <2>4, <2>5
<1> QED BY <1>4, <1>5

\* Nothing else takes an id from a run.
LEMMA AskIds ==
  ASSUME Call!NamesInv, NEW q \in Namer, Call!Ask(q) \/ Call!Degrade(q)
  PROVE  \A p \in Namer : v4[p].at = "fill" => v4'[p].ids = v4[p].ids
<1> SUFFICES ASSUME NEW p \in Namer, v4[p].at = "fill"
             PROVE  v4'[p].ids = v4[p].ids
  OBVIOUS
<1>1. v4[p] \in Call!Run
  BY DEF Call!NamesInv, Call!Idle
<1>2. ASSUME NEW x, NEW name, Call!Remember(q, x, name) PROVE v4'[p].ids = v4[p].ids
  BY <1>1, <1>2 DEF Call!Remember, Call!NamesInv, Call!Run
<1>3. ASSUME Call!enumerateTeams(q) PROVE v4'[p].ids = v4[p].ids
  <2>1. PICK listed \in SUBSET Reach[Call!Asker(q)] :
           v4' = [v4 EXCEPT
             ![q].cache[Call!CacheOf(q, Call!Asker(q))] =
               [x \in Call!Thing |-> IF x \in listed THEN Call!Part(x) ELSE @[x]],
             ![q].listed = @ \union {Call!CacheOf(q, Call!Asker(q))},
             ![q].fault = @ \/ listed # Reach[Call!Asker(q)]]
    BY <1>3 DEF Call!enumerateTeams
  <2> QED BY <1>1, <2>1 DEF Call!NamesInv, Call!Run
<1>4. CASE Call!Ask(q)
  <2>1. ASSUME NEW x, Call!resolveUserName(q, x) PROVE v4'[p].ids = v4[p].ids
    BY <1>2, <2>1 DEF Call!resolveUserName
  <2>2. ASSUME NEW x, Call!resolveChannel(q, x) PROVE v4'[p].ids = v4[p].ids
    <3>1. \/ Call!Remember(q, x, Call!Nameless) \/ Call!Remember(q, x, Call!ConvName(q, Call!Asker(q), x))
          \/ \E u : Call!resolveUserName(q, u)
      BY <2>2 DEF Call!resolveChannel
    <3> QED BY <1>2, <2>1, <3>1
  <2>3. ASSUME NEW x, Call!resolveTeamName(q, x) PROVE v4'[p].ids = v4[p].ids
    <3>1. Call!enumerateTeams(q) \/ Call!Remember(q, x, Call!Part(TeamOf[Call!Asker(q)]))
      BY <2>3 DEF Call!resolveTeamName
    <3> QED BY <1>2, <1>3, <3>1
  <2>4. \E x : Call!resolveUserName(q, x) \/ Call!resolveChannel(q, x) \/ Call!resolveTeamName(q, x)
    BY <1>4 DEF Call!Ask
  <2> QED BY <2>1, <2>2, <2>3, <2>4
<1>5. CASE Call!Degrade(q)
  <2>1. PICK x : v4' = [v4 EXCEPT ![q].cache[Call!CacheOf(q, Call!Asker(q))][x] = Call!Nameless,
                                    ![q].fault = TRUE]
    BY <1>5 DEF Call!Degrade
  <2> QED BY <1>1, <2>1 DEF Call!NamesInv, Call!Run
<1> QED BY <1>4, <1>5

LEMMA IdsStay ==
  ASSUME Call!NamesInv, NEW q \in Namer, v4[q].at = "fill", v4'[q].at = "fill",
         NEW p \in Namer,
         \/ Call!BeginSync(p) \/ Call!FetchItem(p) \/ Call!Ask(p) \/ Call!Degrade(p)
         \/ \E edited \in BOOLEAN : Call!RecordItem(p, edited)
         \/ \E force \in BOOLEAN : Call!backfillSlackNames(p, force)
         \/ p # q /\ (Call!NextId(p) \/ Call!RecordId(p))
         \/ Call!End(p)
  PROVE  v4'[q].ids = v4[q].ids
<1>1. v4[q] \in Call!Run /\ v4[q] # Call!Idle
  BY DEF Call!NamesInv, Call!Idle
<1>2. p = q => ~Call!BeginSync(p) /\ \A force \in BOOLEAN : ~Call!backfillSlackNames(p, force)
  BY <1>1 DEF Call!BeginSync, Call!backfillSlackNames, Call!Start
<1>3. p = q => ~Call!FetchItem(p) /\ \A edited \in BOOLEAN : ~Call!RecordItem(p, edited)
  BY DEF Call!FetchItem, Call!RecordItem
<1>4. p = q => ~Call!End(p)
  BY DEF Call!End, Call!NamesInv, Call!Idle
<1>5. CASE Call!Ask(p) \/ Call!Degrade(p)
  BY <1>5, AskIds
<1>6. ASSUME p # q, \/ Call!BeginSync(p) \/ Call!FetchItem(p)
                   \/ \E edited \in BOOLEAN : Call!RecordItem(p, edited)
                   \/ \E force \in BOOLEAN : Call!backfillSlackNames(p, force)
                   \/ Call!NextId(p) \/ Call!RecordId(p) \/ Call!End(p)
      PROVE  v4'[q] = v4[q]
  BY <1>6
     DEF Call!NamesInv, Call!BeginSync, Call!FetchItem, Call!RecordItem, Call!backfillSlackNames,
         Call!NextId,
              Call!RecordId, Call!End
<1> QED BY <1>2, <1>3, <1>4, <1>5, <1>6

\* An id is not done before it is told, if it can be.
LEMMA Backfilled ==
  ASSUME Call!NamesInv, Call!Next
  PROVE  Call!BackfilledStep
<1> SUFFICES ASSUME NEW q \in Namer, v4[q].at = "fill", v4'[q].at = "fill", ~v4[q].fault,
                    NEW x \in DOMAIN v4[q].ids \ DOMAIN v4'[q].ids
             PROVE  \/ \E team \in v4[q].ids[x] :
                          \A t \in Call!Elements(Call!resolversFor(v4[q].described, team)) :
                             ~Call!Tellable(x, t)
                    \/ v2'[x] # Call!Nameless
  BY DEF Call!BackfilledStep
<1>1. ASSUME NEW y \in Renamed, Call!Rename(y) PROVE FALSE
  BY <1>1 DEF Call!Rename
<1>2. PICK p \in Namer :
         \/ Call!BeginSync(p) \/ Call!FetchItem(p) \/ Call!Ask(p) \/ Call!Degrade(p)
         \/ \E edited \in BOOLEAN : Call!RecordItem(p, edited)
         \/ \E force \in BOOLEAN : Call!backfillSlackNames(p, force)
         \/ Call!NextId(p) \/ Call!RecordId(p) \/ Call!End(p)
  BY <1>1 DEF Call!Next
<1>3. p = q /\ (Call!NextId(q) \/ Call!RecordId(q))
  <2>1. v4'[q].ids # v4[q].ids
    OBVIOUS
  <2> QED BY <1>2, <2>1, IdsStay
<1> QED BY <1>3, NextIdFills, RecordIdFills

\* The invariant of the names has both of their properties in it.
LEMMA NamesSafe ==
  ASSUME Call!NamesInv, Call!Next
  PROVE  Call!NamesKeptStep /\ Call!BackfilledStep
<1>1. ASSUME v2' = v2 PROVE Call!NamesKeptStep
  BY <1>1 DEF Call!NamesKeptStep
<1> QED BY <1>1, RowsStay, ItemNames, IdNames, Backfilled

(***************************************************************************)
(* The composition: a step of the desk is a step of the part it is one of. *)
(***************************************************************************)

\* No other part makes a step.
LEMMA PartSteps ==
  ASSUME DeskNext
  PROVE  /\ part' = part
         /\ part = "digest" => Push!Next
         /\ part = "tools" => Tool!Next
         /\ part = "embed" => Embd!Next
         /\ part = "vault" => Keep!Next
         /\ part = "skills" => Skil!Next
         /\ part = "setup" => Conf!Next
         /\ part = "names" => Call!Next
<1>1. CascadeSteps => part = "cascade" /\ part' = part
  BY DEF CascadeSteps, Of
<1>2. SkillsSteps => part = "skills" /\ part' = part /\ Skil!Next
  <2>1. \A body \in {"absent", "mine"} \union Placed :
            body \in {Skil!Absent, Skil!Mine} \union Skil!Bodies
    BY DeskAssumption DEF Skil!Absent, Skil!Mine
  <2> QED BY <2>1 DEF SkillsSteps, Of, Hosts, Skil!Next, Skil!Place
<1>3. SetupSteps => part = "setup" /\ part' = part /\ Conf!Next
  BY DEF SetupSteps, Of, Conf!Next
<1>4. DigestSteps => part = "digest" /\ part' = part /\ Push!Next
  BY DEF DigestSteps, Of, Push!Next
<1>5. SearchSteps => part = "search" /\ part' = part
  BY DEF SearchSteps, Of
<1>6. EmbedSteps => part = "embed" /\ part' = part /\ Embd!Next
  BY DEF EmbedSteps, Of, Embd!Next
<1>7. ScanSteps => part = "scan" /\ part' = part
  BY DEF ScanSteps, Of
<1>8. DiscoverySteps => part = "discovery" /\ part' = part
  BY DEF DiscoverySteps, Of
<1>9. VaultSteps => part = "vault" /\ part' = part /\ Keep!Next
  BY DEF VaultSteps, Of, Keep!Next
<1>10. ToolsSteps => part = "tools" /\ part' = part /\ Tool!Next
  BY DEF ToolsSteps, Of, Tool!Next
<1>11. NamesSteps => part = "names" /\ part' = part /\ Call!Next
  BY DEF NamesSteps, Of, Call!Next
<1>12. GraphSteps => part = "graph" /\ part' = part
  BY DEF GraphSteps, Of
<1>13. \/ CascadeSteps \/ SkillsSteps \/ SetupSteps \/ DigestSteps \/ SearchSteps \/ EmbedSteps
       \/ ScanSteps \/ DiscoverySteps \/ VaultSteps \/ ToolsSteps \/ NamesSteps \/ GraphSteps
  BY DEF DeskNext
<1>14. part' = part
  BY <1>1, <1>2, <1>3, <1>4, <1>5, <1>6, <1>7, <1>8, <1>9, <1>10, <1>11, <1>12, <1>13
<1>15. part = "digest" => DigestSteps
  BY <1>1, <1>2, <1>3, <1>5, <1>6, <1>7, <1>8, <1>9, <1>10, <1>11, <1>12, <1>13
<1>16. part = "tools" => ToolsSteps
  BY <1>1, <1>2, <1>3, <1>4, <1>5, <1>6, <1>7, <1>8, <1>9, <1>11, <1>12, <1>13
<1>17. part = "vault" => VaultSteps
  BY <1>1, <1>2, <1>3, <1>4, <1>5, <1>6, <1>7, <1>8, <1>10, <1>11, <1>12, <1>13
<1>18. part = "embed" => EmbedSteps
  BY <1>1, <1>2, <1>3, <1>4, <1>5, <1>7, <1>8, <1>9, <1>10, <1>11, <1>12, <1>13
<1>19. part = "skills" => SkillsSteps
  BY <1>1, <1>3, <1>4, <1>5, <1>6, <1>7, <1>8, <1>9, <1>10, <1>11, <1>12, <1>13
<1>20. part = "setup" => SetupSteps
  BY <1>1, <1>2, <1>4, <1>5, <1>6, <1>7, <1>8, <1>9, <1>10, <1>11, <1>12, <1>13
<1>21. part = "names" => NamesSteps
  BY <1>1, <1>2, <1>3, <1>4, <1>5, <1>6, <1>7, <1>8, <1>9, <1>10, <1>12, <1>13
<1> QED BY <1>2, <1>3, <1>4, <1>6, <1>9, <1>10, <1>11, <1>14, <1>15, <1>16, <1>17, <1>18, <1>19,
           <1>20, <1>21

DigestHolds == part = "digest" => Push!DigestInv
ToolsHold == part = "tools" => Tool!ToolsInv
EmbedHolds == part = "embed" => Embd!EmbedInv
VaultHolds == part = "vault" => Keep!VaultInv
SkillsHold == part = "skills" => Skil!SkillsInv
SetupHolds == part = "setup" => Conf!SetupInv
NamesHold == part = "names" => Call!NamesInv

PartsHold == /\ DigestHolds /\ ToolsHold /\ EmbedHolds /\ VaultHolds /\ SkillsHold
             /\ SetupHolds /\ NamesHold

\* The invariants hold at first ...
LEMMA DeskStarts == DeskInit => PartsHold
<1> SUFFICES ASSUME DeskInit PROVE PartsHold
  OBVIOUS
<1>1. part = "digest" => Push!Init
  BY DEF DeskInit
<1>2. part = "tools" => Tool!Init
  BY DEF DeskInit
<1>3. part = "embed" => Embd!Init
  BY DEF DeskInit
<1>4. part = "vault" => Keep!Init
  BY DEF DeskInit
<1>5. part = "skills" => Skil!Init
  BY DEF DeskInit
<1>6. part = "setup" => Conf!Init
  BY DEF DeskInit
<1>7. part = "names" => Call!Init
  BY DEF DeskInit
<1> QED BY <1>1, <1>2, <1>3, <1>4, <1>5, <1>6, <1>7, DigestStarts, ToolsStarts, EmbedStarts,
           VaultStarts, SkillsStarts, SetupStarts, NamesStarts
        DEF PartsHold, DigestHolds, ToolsHold, EmbedHolds, VaultHolds, SkillsHold, SetupHolds,
            NamesHold

\* ... and every step keeps them.
LEMMA DeskStep == PartsHold /\ [DeskNext]_deskVars => PartsHold'
<1> SUFFICES ASSUME PartsHold, [DeskNext]_deskVars PROVE PartsHold'
  OBVIOUS
<1>1. CASE DeskNext
  BY <1>1, PartSteps, DigestStep, ToolsStep, EmbedStep, VaultStep, SkillsStep,
     SetupStep, NamesStep
     DEF PartsHold, DigestHolds, ToolsHold, EmbedHolds, VaultHolds, SkillsHold, SetupHolds,
         NamesHold
<1>2. CASE UNCHANGED deskVars
  <2>1. /\ part' = part /\ UNCHANGED Push!vars /\ UNCHANGED Tool!vars
        /\ UNCHANGED Embd!vars /\ UNCHANGED Keep!vars /\ UNCHANGED Skil!vars
        /\ UNCHANGED Conf!vars /\ UNCHANGED Call!vars
    BY <1>2 DEF deskVars, from7, Push!vars, Tool!vars, Embd!vars, Embd!request, Keep!vars,
                Skil!vars, Skil!counts, Conf!vars, Conf!files, Call!vars
  <2> QED BY <2>1, DigestStutters, ToolsStutters, EmbedStutters, VaultStutters, SkillsStutters,
             SetupStutters, NamesStutters
          DEF PartsHold, DigestHolds, ToolsHold, EmbedHolds, VaultHolds, SkillsHold, SetupHolds,
            NamesHold
<1> QED BY <1>1, <1>2

\* The inductive invariants of the digest, the write tools, the embedder calls, the file of
\* the store, the skills installer, the writers of config.toml and the names of Slack's ids.
THEOREM DeskInvariant == DeskSpec => []PartsHold
<1>1. DeskInit => PartsHold
  BY DeskStarts
<1>2. PartsHold /\ [DeskNext]_deskVars => PartsHold'
  BY DeskStep
<1> QED BY <1>1, <1>2, PTL DEF DeskSpec

\* Whatever the jobs, tokens and answers, a digest's results are what the user got, but for
\* a notifier that a signal killed, and a message to oneself arrives once, or twice where
\* Slack's answer was lost.
THEOREM DigestResultsHonest == DeskSpec => []ResultsHonest
<1>1. PartsHold => ResultsHonest
  BY DEF PartsHold, DigestHolds, ResultsHonest, Push!DigestInv
<1> QED BY <1>1, DeskInvariant, PTL

\* Whatever calls a session serves, in whatever order their awaits end, nothing gated
\* happens without consent, and drafts replace no file and are on record.
THEOREM ToolWritesHonest == DeskSpec => []WritesHonest
<1>1. PartsHold => WritesHonest
  BY ToolsHonest DEF PartsHold, ToolsHold, WritesHonest
<1> QED BY <1>1, DeskInvariant, PTL

\* Whatever chunks, retries and answers a call of an embedder goes through, a slot holds
\* the vector of its own text or none, and a text is not lost for its neighbours' sake.
THEOREM EmbedSlotsAligned == DeskSpec => []SlotsAligned
<1>1. PartsHold => SlotsAligned
  BY DEF PartsHold, EmbedHolds, SlotsAligned, Embd!EmbedInv
<1> QED BY <1>1, DeskInvariant, PTL

\* However many processes open, migrate, are killed or back up the store, one that is open
\* is complete and a backup is what it says, and both are their owner's alone unless their
\* chmod did nothing.
THEOREM VaultStoreKept == DeskSpec => []StoreKept
<1>1. PartsHold => StoreKept
  BY VaultHonest DEF PartsHold, VaultHolds, StoreKept
<1> QED BY <1>1, DeskInvariant, PTL

\* However often suasor is upgraded, downgraded, run, killed and run again, a skill of the
\* user's is left alone without `--force`, but where the step says, and a mirror is known as
\* suasor's, but where a kill took its record.
THEOREM SkillsKeptApart == DeskSpec => SkillsApart
<1>1. PartsHold /\ PartsHold' /\ [DeskNext]_deskVars
        => [part = "skills" => Skil!UsersKeptStep /\ Skil!MirrorsKnown']_deskVars
  <2> SUFFICES ASSUME PartsHold, PartsHold', DeskNext, part = "skills"
               PROVE  Skil!UsersKeptStep /\ Skil!MirrorsKnown'
    OBVIOUS
  <2>1. Skil!SkillsInv /\ Skil!Next /\ part' = "skills"
    BY PartSteps DEF PartsHold, SkillsHold
  <2>2. Skil!SkillsInv'
    BY <2>1, SkillsStep
  <2>3. Skil!MirrorsKnown'
    BY <2>2, MirrorsOnRecord, PTL
  <2> QED BY <2>1, <2>3, SkillsKept
<1> QED BY <1>1, DeskInvariant, PTL DEF SkillsApart, DeskSpec

\* Whoever writes config.toml and the crontab, in whatever order their prompts end, takes
\* from them only what it means to take, but where the step says, and no account that syncs
\* stops because another one is added.
THEOREM SetupKeepsOthers == DeskSpec => KeepsOthers
<1>1. PartsHold /\ [DeskNext]_deskVars
        => [part = "setup" => Conf!KeepsOthersStep /\ Conf!FirstAccountKeptStep]_deskVars
  <2> SUFFICES ASSUME PartsHold, DeskNext, part = "setup"
               PROVE  Conf!KeepsOthersStep /\ Conf!FirstAccountKeptStep
    OBVIOUS
  <2>1. Conf!SetupInv /\ Conf!Next
    BY PartSteps DEF PartsHold, SetupHolds
  <2> QED BY <2>1, OthersKeptStep, FirstKeptStep
<1> QED BY <1>1, DeskInvariant, PTL DEF KeepsOthers, DeskSpec

\* Whatever passes and backfills run at once, and whatever is renamed or fails meanwhile, a
\* name that is shown was the thing's own during the run that recorded it, but where
\* Nameable says, a known one is never lost, and no id is left nameless that a token tried
\* may ask for.
THEOREM SlackNamesKept == DeskSpec => NamesKept
<1>1. PartsHold /\ [DeskNext]_deskVars
        => [part = "names" => Call!NamesKeptStep /\ Call!BackfilledStep]_deskVars
  <2> SUFFICES ASSUME PartsHold, DeskNext, part = "names"
               PROVE  Call!NamesKeptStep /\ Call!BackfilledStep
    OBVIOUS
  <2>1. Call!NamesInv /\ Call!Next
    BY PartSteps DEF PartsHold, NamesHold
  <2> QED BY <2>1, NamesSafe
<1> QED BY <1>1, DeskInvariant, PTL DEF NamesKept, DeskSpec
=============================================================================
