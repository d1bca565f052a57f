----------------------------- MODULE WriteTools -----------------------------
(***************************************************************************)
(* One session of `suasor mcp serve` (mcp/serve.ts): the write tools       *)
(* (mcp/server-write.ts), the confirmation asked of the human before those *)
(* that cannot be taken back or send data away (mcp/elicit.ts), and the    *)
(* drafts (export/draft-export.ts).                                        *)
(*                                                                         *)
(* Calls run concurrently up to their awaits: the confirmation, loading    *)
(* the actuator, its request and the composition sidecar.  What a call     *)
(* does between two awaits is one step, except where the process may be    *)
(* killed or another program write a file in between.                      *)
(***************************************************************************)
EXTENDS Naturals

CONSTANTS
    Calls,   \* how many calls the session serves
    Tools,   \* the tools that are called
    Task,    \* tasks that calls publish
    Suffix   \* the names a draft may get: name, name-1, name-2, ...

VARIABLES
    elicits,  \* whether the client can ask the human
    session,  \* "boot", "open", "over" (hung up, or never connected) or "killed"
    tool,     \* the tool of each call
    said,     \* what came of the confirmation of each call
    call,     \* where each call is, the tasks it has left, and the task or suffix it is at
    events,   \* what calls recorded: pairs of a call and a task, a suffix or "local"
    sent,     \* requests that left: pairs of a call and a task
    files     \* the writers of each name of the export directory, calls, Other or Late

vars == <<elicits, session, tool, said, call, events, sent, files>>

\* The tools that are confirmed, and those of them that send data away.
Egress == {"task.publish", "task.act", "propose.apply publish"}

Gated == Egress \union {"source.forget", "person.merge"}

\* A service call on the store without an await, as most write tools are.
Plain == {"task.create"}

Drafts == {"draft md", "draft docx"}

AllTools == Gated \union Plain \union Drafts

WriteToolsConstants ==
    /\ Calls \in Nat /\ Tools \subseteq AllTools
    /\ Suffix \subseteq Nat /\ \A n \in Suffix : 0 .. n \subseteq Suffix

Call == 1 .. Calls

\* Another program, whose file was there before a draft got its name, or came after that.
Other == 0

Late == Calls + 1

Init ==
    /\ elicits \in BOOLEAN
    /\ session = "boot"
    /\ tool = [c \in Call |-> "none"]
    /\ said = [c \in Call |-> "unasked"]
    /\ call = [c \in Call |-> [at |-> "idle", todo |-> {}, on |-> 0]]
    /\ events = {}
    /\ sent = {}
    /\ files = [n \in Suffix |-> {}]

\* A draft is named, written and recorded without an await.
Awaits == \A c \in Call : call[c].at \notin {"named", "written"}

Goes(c, at) == call' = [call EXCEPT ![c].at = at]
-----------------------------------------------------------------------------
(***************************************************************************)
(* serveMcp.                                                               *)
(***************************************************************************)

\* Without a usable configuration, or when the transport does not connect, nothing opens.
Boot ==
    /\ session = "boot"
    /\ session' \in {"open", "over"}
    /\ UNCHANGED <<elicits, tool, said, call, events, sent, files>>

\* The host goes away while calls run: the store is closed before the pending
\* confirmations fail.
HangUp ==
    /\ session = "open"
    /\ Awaits
    /\ \E c \in Call : call[c].at \notin {"idle", "done"}
    /\ session' = "over"
    /\ UNCHANGED <<elicits, tool, said, call, events, sent, files>>

\* Elsewhere a kill is as if nothing more happened.
Kill ==
    /\ session \in {"open", "over"}
    /\ ~Awaits
    /\ session' = "killed"
    /\ UNCHANGED <<elicits, tool, said, call, events, sent, files>>
-----------------------------------------------------------------------------
(***************************************************************************)
(* The handlers of the tools that write to the store or send.              *)
(***************************************************************************)

Publishing == {"task.publish", "propose.apply publish"}

\* The tasks with a recorded home, once `new` is recorded as well.
Published(new) ==
    {x \in Task : \E c \in Call : tool[c] \in Publishing /\ <<c, x>> \in events \union new}

Ready(name, todo, new) ==
    IF name \in Publishing THEN todo \ Published(new) ELSE todo \intersect Published(new)

\* The call goes on to the next of its tasks that may be sent, skipping the others; after
\* the last, and at a closed store, it returns.
Onward(c, name, todo, new) ==
    IF session # "open" \/ Ready(name, todo, new) = {}
    THEN Goes(c, "done")
    ELSE \E x \in Ready(name, todo, new) :
            call' = [call EXCEPT ![c] = [at |-> "loading", todo |-> todo \ {x}, on |-> x]]

\* A closed store takes no event: the call throws.
Record(new) == events' = IF session = "open" THEN events \union new ELSE events

\* A local service records at once, unless it refuses the input.
Local(c) == \E new \in {{}, {<<c, "local">>}} : Record(new) /\ Goes(c, "done")

\* `propose.apply` applies its candidates, unless one was rejected, before it sends any.
Apply(c, name) ==
    \/ Record({<<c, "local">>}) /\ Onward(c, name, Task, {})
    \/ UNCHANGED events /\ Goes(c, "done")

One(c, name) == UNCHANGED events /\ \E x \in Task : Onward(c, name, {x}, {})

Proceed(c, name) ==
    \/ name = "propose.apply publish" /\ Apply(c, name)
    \/ name \in {"task.publish", "task.act"} /\ One(c, name)
    \/ name \notin Egress /\ Local(c)

\* Calls are numbered as they come.
Arrives(c, name) ==
    /\ call[c].at = "idle"
    /\ \A k \in Call : k < c => call[k].at # "idle"
    /\ session = "open"
    /\ Awaits
    /\ tool' = [tool EXCEPT ![c] = name]
    /\ UNCHANGED <<elicits, session, said, sent, files>>

Asks(name) == name \in Gated /\ elicits

Ask(c, name) ==
    /\ Arrives(c, name)
    /\ Asks(name)
    /\ Goes(c, "asked")
    /\ UNCHANGED events

\* A client that cannot ask the human is not asked: the tool runs.
Run(c, name) ==
    /\ Arrives(c, name)
    /\ name \notin Drafts
    /\ ~Asks(name)
    /\ Proceed(c, name)

\* Accepted with the box ticked or not, declined or dismissed.
Answers == {"accepted", "unticked", "declined", "cancelled"}

\* Mutant of Accepts: the box is not looked at.
AcceptsUnticked(answer) == answer \in {"accepted", "unticked"}

Accepts(answer) == answer = "accepted"

Working(c, at) ==
    /\ session \in {"open", "over"}
    /\ Awaits
    /\ call[c].at = at
    /\ UNCHANGED <<elicits, session, tool>>

Answer(c, answer) ==
    /\ session = "open"
    /\ Working(c, "asked")
    /\ said' = [said EXCEPT ![c] = answer]
    /\ IF Accepts(answer) THEN Proceed(c, tool[c]) ELSE Goes(c, "done") /\ UNCHANGED events
    /\ UNCHANGED <<sent, files>>

\* The round trip is unusable, times out or ends with the connection: the tool runs, and a
\* later answer is ignored.
NoAnswer(c) ==
    /\ Working(c, "asked")
    /\ said' = [said EXCEPT ![c] = IF session = "open" THEN "lost" ELSE "hung up"]
    /\ Proceed(c, tool[c])
    /\ UNCHANGED <<sent, files>>

\* The actuator is loaded and its request leaves, whether or not the host is still there.
Send(c) ==
    /\ Working(c, "loading")
    /\ sent' = sent \union {<<c, call[c].on>>}
    /\ Goes(c, "sending")
    /\ UNCHANGED <<said, events, files>>

\* The request is recorded after it went out.
Succeed(c) ==
    /\ Working(c, "sending")
    /\ LET new == {<<c, call[c].on>>}
       IN  Record(new) /\ Onward(c, tool[c], call[c].todo, new)
    /\ UNCHANGED <<said, sent, files>>

\* A task that fails does not keep `propose.apply` from the next.
Fail(c) ==
    /\ Working(c, "loading") \/ Working(c, "sending")
    /\ Onward(c, tool[c], call[c].todo, {})
    /\ UNCHANGED <<said, events, sent, files>>
-----------------------------------------------------------------------------
(***************************************************************************)
(* draft.export.                                                           *)
(***************************************************************************)

\* The first name that nothing has.
Target == CHOOSE n \in Suffix : files[n] = {} /\ \A k \in Suffix : k < n => files[k] # {}

HasName == \E n \in Suffix : files[n] = {}

Named(c) == HasName /\ call' = [call EXCEPT ![c].at = "named", ![c].on = Target]

\* Refused without a directory, in one that a local connector reads, with a name that is a
\* path, and as a document without a composer.
draftExport(c, name) ==
    /\ Arrives(c, name)
    /\ name \in Drafts
    /\ \/ Goes(c, "done")
       \/ name = "draft md" /\ Named(c)
       \/ name = "draft docx" /\ Goes(c, "composing")
    /\ UNCHANGED events

Composed(c) ==
    /\ Working(c, "composing")
    /\ Named(c) \/ Goes(c, "done")
    /\ UNCHANGED <<said, events, sent, files>>

Writing(c, at) ==
    /\ session \in {"open", "over"}
    /\ call[c].at = at
    /\ UNCHANGED <<elicits, session, tool, said, sent>>

writeFile(c) ==
    /\ Writing(c, "named")
    /\ files' = [files EXCEPT ![call[c].on] = @ \union {c}]
    /\ Goes(c, "written")
    /\ UNCHANGED events

recordDraft(c) ==
    /\ Writing(c, "written")
    /\ Record({<<c, call[c].on>>})
    /\ Goes(c, "done")
    /\ UNCHANGED files

\* Another program puts a file into the directory, before the session or while a draft is
\* made.
Appear(n) ==
    /\ files[n] = {}
    /\ \A k \in Suffix : files[k] \intersect {Other, Late} = {}
    /\ LET named == \E c \in Call : call[c].at = "named" /\ call[c].on = n
       IN  /\ named \/ session = "boot" \/ \E c \in Call : call[c].at = "composing"
           /\ files' = [files EXCEPT ![n] = {IF named THEN Late ELSE Other}]
    /\ UNCHANGED <<elicits, session, tool, said, call, events, sent>>

Next ==
    \/ Boot
    \/ HangUp
    \/ Kill
    \/ \E c \in Call, name \in Tools : Ask(c, name) \/ Run(c, name) \/ draftExport(c, name)
    \/ \E c \in Call, answer \in Answers : Answer(c, answer)
    \/ \E c \in Call : \/ NoAnswer(c) \/ Send(c) \/ Succeed(c) \/ Fail(c)
                       \/ Composed(c) \/ writeFile(c) \/ recordDraft(c)
    \/ \E n \in Suffix : Appear(n)

Spec == Init /\ [][Next]_vars
-----------------------------------------------------------------------------
Effects(c) == {e \in events \union sent : e[1] = c}

\* A gated tool does something only if the human accepted, could not be asked or could not
\* be reached: a decline in time stops it, and one that was still asking when the host went
\* away does nothing (mcp/elicit.ts, mcp/serve.ts).
ConsentKept ==
    \A c \in Call :
        tool[c] \in Gated /\ Effects(c) # {} => ~elicits \/ said[c] \in {"accepted", "lost"}

\* A draft never replaces another one, nor another program's file unless that came between
\* the choice of the name and the write; what is on record was written; and what was
\* written is on record, unless the session ended in between (export/draft-export.ts).
DraftsKept ==
    \A n \in Suffix :
        LET mine == files[n] \intersect Call
        IN  /\ \A c, d \in mine : c = d
            /\ Other \in files[n] => mine = {}
            /\ \A c \in mine : <<c, n>> \in events \/ session # "open" \/ call[c].at = "written"
            /\ \A c \in Call : tool[c] \in Drafts /\ <<c, n>> \in events => c \in mine

(***************************************************************************)
(* The inductive invariant of both.                                        *)
(***************************************************************************)

Stages == {"idle", "asked", "loading", "sending", "composing", "named", "written", "done"}

Consented(c) == ~elicits \/ said[c] \in {"accepted", "lost"}

CallOK(c) ==
    /\ call[c].at \in {"idle", "asked", "composing", "named"} =>
          Effects(c) = {} /\ \A n \in Suffix : c \notin files[n]
    /\ call[c].at = "asked" => tool[c] \in Gated
    /\ call[c].at \in {"loading", "sending"} => tool[c] \in Egress /\ Consented(c)
    /\ call[c].at \in {"composing", "named", "written"} => tool[c] \in Drafts
    /\ call[c].at \in {"named", "written"} => call[c].on \in Suffix
    /\ call[c].at = "named" => files[call[c].on] \intersect (Call \union {Other}) = {}
    /\ call[c].at = "written" => c \in files[call[c].on]
    /\ tool[c] \in Gated /\ Effects(c) # {} => Consented(c)

\* The files of a call are its drafts.
DraftOK(c) ==
    \A n \in Suffix :
        /\ c \in files[n] =>
              /\ tool[c] \in Drafts /\ call[c].at \in {"written", "done"}
              /\ call[c].at = "written" => n = call[c].on
              /\ call[c].at = "done" => <<c, n>> \in events \/ session # "open"
        /\ tool[c] \in Drafts /\ <<c, n>> \in events => c \in files[n]

\* No two calls have the same file, or are between two awaits.
Exclusive ==
    /\ \A n \in Suffix : \A c, d \in files[n] \intersect Call : c = d
    /\ \A n \in Suffix : Other \in files[n] => files[n] \intersect Call = {}
    /\ \A c, d \in Call :
          call[c].at \in {"named", "written"} /\ call[d].at \in {"named", "written"} => c = d

ToolsInv ==
    /\ tool \in [Call -> AllTools \union {"none"}]
    /\ said \in [Call -> {"unasked", "lost", "hung up"} \union Answers]
    /\ call \in [Call -> [at : Stages, todo : SUBSET Task, on : Task \union Suffix \union {0}]]
    /\ files \in [Suffix -> SUBSET (0 .. Late)]
    /\ session = "boot" => \A c \in Call : call[c].at = "idle"
    /\ \A c \in Call : CallOK(c) /\ DraftOK(c)
    /\ Exclusive
=============================================================================
