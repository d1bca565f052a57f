------------------------------- MODULE Digest -------------------------------
(***************************************************************************)
(* One run of `suasor digest`: the configured jobs in their order, each    *)
(* delivered to a file, to the desktop or as a Slack message to oneself.   *)
(* A job that fails does not stop the ones after it.  The message is sent  *)
(* with two calls, and with a second token when a call is refused; a call  *)
(* is repeated while Slack answers that the rate is limited.  What a lost  *)
(* or unreadable answer did at the other end is not known.                 *)
(***************************************************************************)
EXTENDS Naturals, Sequences

CONSTANTS
    JobLists,   \* the lists of [digest.jobs]; a job is [name, channel, filename]
    MaxTokens,  \* bound: tokens in the pool
    MaxAttempts \* slackFetch's attempts

Channels == {"file", "os-notification", "slack-dm"}

Unnamed == "any"        \* no --job
BadName == "a/b"        \* a filename that is no basename

\* What the constants are.
DigestConstants ==
    /\ JobLists \subseteq Seq([name : STRING, channel : Channels, filename : STRING])
    /\ MaxTokens \in Nat /\ MaxAttempts \in Nat \ {0}

VARIABLES
    jobs,       \* the jobs selected
    dryRun,
    env,        \* the machine: export dir, notifier, tokens, own Slack id
    dm,         \* the message in flight
    files,      \* files[filename]: which job's digest it holds
    shown,      \* jobs whose notification was shown
    posts,      \* posts[n]: how often job n's message arrived
    unsure,     \* jobs of which nobody knows: a post without readable answer, a killed notifier
    results     \* one per job, in order

vars == <<jobs, dryRun, env, dm, files, shown, posts, unsure, results>>

None == 0
Idle == [at |-> "idle"]

Filenames == UNION {{l[i].filename : i \in DOMAIN l} : l \in JobLists}

\* The jobs of a name, or all, in their order (one member).
Selected(l, name) ==
    LET Picked == {i \in DOMAIN l : name \in {Unnamed, l[i].name}}
        Orders == {f \in UNION {[1..n -> Picked] : n \in 0..Len(l)} :
                      /\ \A i, k \in DOMAIN f : i < k => f[i] < f[k]
                      /\ {f[k] : k \in DOMAIN f} = Picked}
    IN  {[k \in DOMAIN f |-> l[f[k]]] : f \in Orders}

Init ==
    /\ \E l \in JobLists : \E name \in {Unnamed} \union {l[i].name : i \in DOMAIN l} :
          jobs \in Selected(l, name)
    /\ dryRun \in BOOLEAN
    /\ env \in [reingests : BOOLEAN, notifier : BOOLEAN, tokens : 0..MaxTokens, self : BOOLEAN]
    /\ dm = Idle
    /\ files = [f \in Filenames |-> None]
    /\ shown = {} /\ unsure = {}
    /\ posts = [n \in DOMAIN jobs |-> 0]
    /\ results = <<>>

\* The job at hand.
Current == Len(results) + 1

At(channel) ==
    /\ Current \in DOMAIN jobs /\ dm = Idle
    /\ ~dryRun /\ jobs[Current].channel = channel

Finish(status, code) == results' = Append(results, [status |-> status, code |-> code])

Delivered == Finish("delivered", "")
Failed(code) == Finish("failed", code)

Skip ==
    /\ dryRun /\ Current \in DOMAIN jobs
    /\ Finish("skipped", "")
    /\ UNCHANGED <<jobs, dryRun, env, dm, files, shown, posts, unsure>>

\* A basename, outside every root of the local connector; the write itself may fail.
deliverToFile ==
    /\ At("file")
    /\ LET name == jobs[Current].filename IN
       \/ name = BadName /\ Failed("INVALID_FILENAME") /\ UNCHANGED files
       \/ /\ name # BadName /\ env.reingests
          /\ Failed("EXPORT_DIR_IN_LOCAL_ROOT") /\ UNCHANGED files
       \/ /\ name # BadName /\ ~env.reingests
          /\ \/ Delivered /\ files' = [files EXCEPT ![name] = Current]
             \/ Failed("UNKNOWN") /\ files' \in {files, [files EXCEPT ![name] = None]}
    /\ UNCHANGED <<jobs, dryRun, env, dm, shown, posts, unsure>>

\* The notifier exits, with zero if it has shown it, or a signal kills it: it has no exit
\* code then, and defaultSpawn takes zero for it, shown or not.
Exited ==
    /\ \/ Delivered /\ shown' = shown \union {Current}
       \/ Failed("OS_NOTIFICATION_FAILED") /\ UNCHANGED shown
    /\ UNCHANGED unsure

Signalled ==
    /\ Delivered
    /\ shown' \in {shown, shown \union {Current}}
    /\ unsure' = unsure \union {Current}

deliverToOsNotification ==
    /\ At("os-notification")
    /\ \/ ~env.notifier /\ Failed("OS_NOTIFICATION_UNSUPPORTED") /\ UNCHANGED <<shown, unsure>>
       \/ env.notifier /\ (Exited \/ Signalled)
    /\ UNCHANGED <<jobs, dryRun, env, dm, files, posts>>

\* deliverToSlackDm begins; the keychain may be unreadable.
StartDm ==
    /\ At("slack-dm")
    /\ \/ env.tokens = 0 /\ Failed("SLACK_TOKEN_NOT_CONFIGURED") /\ UNCHANGED dm
       \/ env.tokens > 0 /\ ~env.self /\ Failed("SLACK_SELF_ID_NOT_CONFIGURED") /\ UNCHANGED dm
       \/ Failed("UNKNOWN") /\ UNCHANGED dm
       \/ env.tokens > 0 /\ env.self /\ dm' = [at |-> "open", token |-> 1, attempt |-> 1]
          /\ UNCHANGED results
    /\ UNCHANGED <<jobs, dryRun, env, files, shown, posts, unsure>>

\* The second token is tried, and no third.
Refused ==
    IF dm.token = 1 /\ env.tokens > 1
    THEN /\ dm' = [at |-> "open", token |-> 2, attempt |-> 1]
         /\ UNCHANGED results
    ELSE dm' = Idle /\ Failed("SLACK_API_ERROR")

Limited ==
    IF dm.attempt < MaxAttempts
    THEN dm' = [dm EXCEPT !.attempt = @ + 1] /\ UNCHANGED results
    ELSE Refused

\* A call that throws is not a DigestChannelError: no second token.
Thrown == dm' = Idle /\ Failed("UNKNOWN")

\* conversations.open
Open ==
    /\ dm.at = "open"
    /\ \/ dm' = [dm EXCEPT !.at = "post", !.attempt = 1] /\ UNCHANGED results
       \/ Limited \/ Refused \/ Thrown
    /\ UNCHANGED <<jobs, dryRun, env, files, shown, posts, unsure>>

Arrives == posts' = [posts EXCEPT ![Current] = @ + 1]
Unsure  == unsure' = unsure \union {Current}

\* Mutant: whatever is not a refusal is a success.
PostUnread ==
    /\ Arrives \/ UNCHANGED posts
    /\ Unsure
    /\ Thrown \/ (dm' = Idle /\ Delivered)

\* No answer, or none that is JSON: the message may have arrived.
PostLost == (Arrives \/ UNCHANGED posts) /\ Unsure /\ (Thrown \/ Refused)

\* chat.postMessage
Post ==
    /\ dm.at = "post"
    /\ \/ Arrives /\ dm' = Idle /\ Delivered /\ UNCHANGED unsure
       \/ (Limited \/ Refused) /\ UNCHANGED <<posts, unsure>>
       \/ PostLost
    /\ UNCHANGED <<jobs, dryRun, env, files, shown>>

Next ==
    \/ Skip \/ deliverToFile \/ deliverToOsNotification
    \/ StartDm \/ Open \/ Post

Spec == Init /\ [][Next]_vars
-----------------------------------------------------------------------------
(***************************************************************************)
(* Properties.                                                             *)
(***************************************************************************)

Answered(n, status) == n <= Len(results) /\ results[n].status = status

\* What a result says is what the user got.  "delivered": the message arrived, the
\* notification was shown, unless a signal killed the notifier (its missing exit code
\* counts as zero), the file holds this digest, unless a later job of the same filename was
\* run (the names are not checked to differ).  "failed": no message came, unless the answer
\* to a post was lost.  A dry run, and a run without jobs, sends nothing.
ResultsHonest ==
    /\ dryRun \/ jobs = <<>> =>
          shown = {} /\ (\A f \in Filenames : files[f] = None) /\ \A n \in DOMAIN jobs : posts[n] = 0
    /\ \A n \in DOMAIN jobs :
          /\ Answered(n, "delivered") =>
                /\ jobs[n].channel = "slack-dm" => posts[n] > 0
                /\ jobs[n].channel = "os-notification" => n \in shown \union unsure
                /\ jobs[n].channel = "file" =>
                      \/ files[jobs[n].filename] = n
                      \/ \E m \in (n + 1)..Len(results) : jobs[m].filename = jobs[n].filename
          /\ Answered(n, "failed") /\ posts[n] > 0 => n \in unsure

\* A message to oneself arrives once, however the calls are limited, refused or retried
\* with the second token; twice only where a post arrived without a readable answer
\* and the second token sent it again.
OneMessage ==
    \A n \in DOMAIN jobs : posts[n] <= 1 + (IF n \in unsure /\ env.tokens > 1 THEN 1 ELSE 0)

(***************************************************************************)
(* The inductive invariant of both.                                        *)
(***************************************************************************)

Codes == {"", "UNKNOWN", "INVALID_FILENAME", "EXPORT_DIR_IN_LOCAL_ROOT",
          "OS_NOTIFICATION_UNSUPPORTED", "OS_NOTIFICATION_FAILED",
          "SLACK_TOKEN_NOT_CONFIGURED", "SLACK_SELF_ID_NOT_CONFIGURED", "SLACK_API_ERROR"}

Result == [status : {"delivered", "failed", "skipped"}, code : Codes]

RunOK ==
    /\ DOMAIN jobs \subseteq Nat \ {0}
    /\ \A n \in DOMAIN jobs : jobs[n].filename \in Filenames /\ jobs[n].channel \in Channels
    /\ env.tokens \in Nat /\ files \in [Filenames -> Nat] /\ posts \in [DOMAIN jobs -> Nat]
    /\ results \in Seq(Result)

\* The message in flight is the current job's; it has arrived at most once for each token it
\* was sent with before, and nobody read the answer.  No later job's has arrived.
InFlight ==
    /\ dm = Idle \/ dm \in [at : {"open", "post"}, token : 1..2, attempt : Nat]
    /\ dm # Idle =>
          /\ Current \in DOMAIN jobs /\ jobs[Current].channel = "slack-dm" /\ ~dryRun
          /\ posts[Current] < dm.token /\ (posts[Current] > 0 => Current \in unsure)
          /\ dm.token > 1 => env.tokens > 1
    /\ \A n \in DOMAIN jobs : n > Current \/ (n = Current /\ dm = Idle) => posts[n] = 0

DigestInv == RunOK /\ InFlight /\ ResultsHonest /\ OneMessage
=============================================================================
