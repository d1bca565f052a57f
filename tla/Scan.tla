-------------------------------- MODULE Scan --------------------------------
(***************************************************************************)
(* The connectors without a cursor: what each of them reads of an item,    *)
(* what it takes for the item's fingerprint, and what the sync pass does   *)
(* with it, while the items change at their service between any two reads. *)
(* The sidecar turns office files into text, when it can.                  *)
(* Times: an edit makes every field it touches a value never seen before;  *)
(* Notion tells when an item was edited to the minute.                     *)
(***************************************************************************)
EXTENDS Naturals, Sequences

CONSTANTS
    Kinds,      \* the kinds of connector and item a behaviour may be of
    Pages,      \* the items, page by page, as the service lists them
    MaxEdits,   \* bound: edits at the service
    MaxPasses,  \* bound: sync passes
    MaxSwitches \* bound: changes of [extraction] in the configuration

Files  == {"driveFile", "driveNative", "graphFile", "box", "office"}
Hashed == {"driveFile", "graphFile", "box"}
Events == {"event", "graphEvent"}
Mails  == {"gmail", "graphMail"}

\* What the constants are.
ScanConstants ==
    /\ Kinds \subseteq Files \union Events \union Mails \union {"notion", "note", "web"}
    /\ {MaxEdits, MaxPasses, MaxSwitches} \subseteq Nat

VARIABLES
    kind,
    remote,     \* the items at their service
    minute,     \* the clock, in minutes
    sidecar,    \* version of the extractor configured, 0 without one
    rows,       \* the sources, with the minute they were listed in
    meta,       \* extraction_meta
    bare,       \* items whose row may lack the text that their meta vouch for
    pass,       \* the sync pass
    used        \* how much of each bound is used

world == <<remote, minute>>
vars == <<kind, world, sidecar, rows, meta, bare, pass, used>>

Items == UNION {{Pages[n][m] : m \in DOMAIN Pages[n]} : n \in DOMAIN Pages}

Absent == [name |-> 0]
NoMeta == [version |-> 0, state |-> "none"]
NoText == 0
Off == [at |-> "off"]

Init ==
    /\ kind \in Kinds
    /\ remote = [i \in Items |-> [name |-> 1, text |-> 1, attrs |-> 1, changed |-> 1, minute |-> 1]]
    /\ minute = 1 /\ sidecar \in {0, 1}
    /\ rows = [i \in Items |-> Absent] /\ meta = [i \in Items |-> NoMeta] /\ bare = {}
    /\ pass = Off /\ used = [edits |-> 0, passes |-> 0, switches |-> 0]
-----------------------------------------------------------------------------
(***************************************************************************)
(* The records of the connectors: `seen` is the item on the page it was    *)
(* listed on, `text` its text when it was read.                            *)
(***************************************************************************)

BodyHash(name, text) == <<name, text>>

\* Drive: the body is the name, the fingerprint the file's hash or, for Docs, Sheets
\* and Slides, which have none, the version, that any change advances.
DriveRecord(seen) ==
    [name |-> seen.name, text |-> NoText, attrs |-> seen.attrs,
     fp |-> IF kind = "driveNative" THEN seen.changed ELSE seen.text]

\* Events and mail: no fingerprint of their own, the pass hashes the body.  What else
\* is said of them, the answer to an invitation or the unread mark, is not part of it.
EventRecord(seen) ==
    [name |-> seen.name, text |-> seen.text, attrs |-> seen.attrs,
     fp |-> BodyHash(seen.name, seen.text)]

MailRecord(seen) == EventRecord(seen)

GraphRecord(seen) ==
    IF kind = "graphFile" THEN [DriveRecord(seen) EXCEPT !.fp = seen.text]
    ELSE EventRecord(seen)

BoxRecord(seen) ==
    [name |-> seen.name, text |-> NoText, attrs |-> seen.attrs, fp |-> seen.text]

\* Notion: the blocks are read after the listing that says when they were edited.
NotionRecord(seen, text) ==
    [name |-> seen.name, text |-> text, attrs |-> seen.attrs, fp |-> seen.minute]

\* Local files: stat, then the content of text files, whose hash joins the fingerprint.
LocalRecord(seen, text) ==
    [name |-> seen.name, text |-> IF kind = "note" THEN text ELSE NoText,
     attrs |-> seen.attrs, fp |-> <<seen.changed, IF kind = "note" THEN text ELSE NoText>>]

\* A page of the web: its title, then its text.
WebRecord(seen, text) ==
    [name |-> seen.name, text |-> text, attrs |-> seen.attrs, fp |-> BodyHash(seen.name, text)]

Record(seen, text) ==
    CASE kind \in {"driveFile", "driveNative"} -> DriveRecord(seen)
      [] kind = "event"                        -> EventRecord(seen)
      [] kind = "gmail"                        -> MailRecord(seen)
      [] kind \in {"graphFile", "graphEvent", "graphMail"} -> GraphRecord(seen)
      [] kind = "box"                          -> BoxRecord(seen)
      [] kind = "notion"                       -> NotionRecord(seen, text)
      [] kind \in {"note", "office"}           -> LocalRecord(seen, text)
      [] kind = "web"                          -> WebRecord(seen, text)
-----------------------------------------------------------------------------
(***************************************************************************)
(* The service.                                                            *)
(***************************************************************************)

\* What can be changed of an item; another path is another local file.
Fields ==
    CASE kind \in Mails             -> {"attrs"}
      [] kind \in Events            -> {"name", "text", "attrs"}
      [] kind \in {"note", "office"} -> {"text"}
      [] OTHER                      -> {"name", "text"}

Edit(i, field) ==
    /\ used.edits < MaxEdits /\ field \in Fields
    /\ used' = [used EXCEPT !.edits = @ + 1]
    /\ remote' = [remote EXCEPT ![i] =
                     [@ EXCEPT ![field] = used.edits + 2, !.changed = used.edits + 2, !.minute = minute]]
    /\ UNCHANGED <<kind, minute, sidecar, rows, meta, bare, pass>>

\* A minute begins; bounded by the edits, as two without an edit are like one.
Tick ==
    /\ kind = "notion" /\ minute <= used.edits
    /\ minute' = minute + 1
    /\ UNCHANGED <<kind, remote, sidecar, rows, meta, bare, pass, used>>

\* [extraction] is turned on or off, or its version bumped, between passes.
Switch(v) ==
    /\ kind \in Files /\ pass = Off /\ used.switches < MaxSwitches /\ v # sidecar
    /\ used' = [used EXCEPT !.switches = @ + 1] /\ sidecar' = v
    /\ UNCHANGED <<kind, world, rows, meta, bare, pass>>
-----------------------------------------------------------------------------
(***************************************************************************)
(* The pass.                                                               *)
(***************************************************************************)

Begin ==
    /\ pass = Off /\ used.passes < MaxPasses
    /\ used' = [used EXCEPT !.passes = @ + 1]
    /\ pass' = [at |-> "list", next |-> 1, page |-> <<>>]
    /\ UNCHANGED <<kind, world, sidecar, rows, meta, bare>>

\* The next page, by its token, link or marker.
ListPage ==
    /\ pass.at = "list"
    /\ pass' = [at |-> "items", next |-> pass.next + 1,
                page |-> [m \in DOMAIN Pages[pass.next] |->
                             [item |-> Pages[pass.next][m], seen |-> remote[Pages[pass.next][m]],
                              listed |-> minute]]]
    /\ UNCHANGED <<kind, world, sidecar, rows, meta, bare, used>>

\* The page cannot be read: the resource ends here, for this pass.
ListFails ==
    /\ pass.at = "list"
    /\ pass' = Off
    /\ UNCHANGED <<kind, world, sidecar, rows, meta, bare, used>>

At == Head(pass.page).item

\* The item becomes a record; what its page did not have of it is read now.
ReadItem ==
    /\ pass.at = "items"
    /\ pass' = [at |-> "record", next |-> pass.next, page |-> pass.page,
                rec |-> Record(Head(pass.page).seen, remote[At].text)]
    /\ UNCHANGED <<kind, world, sidecar, rows, meta, bare, used>>

Advance ==
    pass' = IF Len(pass.page) > 1
            THEN [at |-> "items", next |-> pass.next, page |-> Tail(pass.page)]
            ELSE IF pass.next <= Len(Pages)
            THEN [at |-> "list", next |-> pass.next, page |-> <<>>]
            ELSE Off

Extracting == kind \in Files /\ sidecar # 0

\* Mutant: a file that was never extracted is no drift.
DriftedStale(i) == Extracting /\ meta[i] # NoMeta /\ meta[i].version # sidecar

\* The file's text is not from the extractor there is, or was never extracted.
Drifted(i) == Extracting /\ meta[i].version # sidecar

Known(i, rec) == rows[i] # Absent /\ rows[i].fp = rec.fp

Row(rec, text) ==
    [name |-> rec.name, text |-> text, attrs |-> rec.attrs, fp |-> rec.fp,
     listed |-> Head(pass.page).listed]

\* Unchanged and not drifted.
Skip ==
    /\ pass.at = "record" /\ Known(At, pass.rec) /\ ~Drifted(At)
    /\ Advance
    /\ UNCHANGED <<kind, world, sidecar, rows, meta, bare, used>>

\* New or changed, and nothing to extract.
Store ==
    /\ pass.at = "record" /\ ~Known(At, pass.rec) /\ ~Extracting
    /\ rows' = [rows EXCEPT ![At] = Row(pass.rec, pass.rec.text)]
    /\ bare' = IF meta[At] = NoMeta THEN bare ELSE bare \union {At}
    /\ Advance
    /\ UNCHANGED <<kind, world, sidecar, meta, used>>

\* What markitdown may come to, and what the sidecar answers and the client takes it for.
runExtraction == {"text", "unsupported", "failed", "not-installed"}

createExtractHandler(outcome) ==
    [ok |-> outcome \in {"text", "unsupported"}, text |-> outcome = "text"]

extract(response) ==
    IF ~response.ok THEN "failed" ELSE IF response.text THEN "extracted" ELSE "unsupported"

\* What extractBody makes of a file; a document of Google's own has no size beforehand.
extractBody ==
    {extract(createExtractHandler(o)) : o \in runExtraction}
        \union (IF kind = "driveNative" THEN {} ELSE {"too_large"})

\* The file, as it is when it is downloaded.
readBytes(i) == remote[i].text

\* New, changed or drifted, and a file: its bytes are read and extracted, and the meta are
\* written, by a statement of their own, unless this failed.
Extract(state) ==
    /\ pass.at = "record" /\ Extracting /\ (~Known(At, pass.rec) \/ Drifted(At))
    /\ state \in extractBody
    /\ meta' = IF state = "failed" THEN meta
               ELSE [meta EXCEPT ![At] = [version |-> sidecar, state |-> state]]
    /\ bare' = IF state = "extracted" THEN bare \union {At} ELSE bare
    /\ pass' = [at |-> "row", next |-> pass.next, page |-> pass.page, rec |-> pass.rec,
                text |-> IF state = "extracted" THEN readBytes(At) ELSE NoText, state |-> state]
    /\ UNCHANGED <<kind, world, sidecar, rows, used>>

\* Then the row is recorded, unless the file is only drifted and its body the same.
RecordRow ==
    /\ pass.at = "row"
    /\ LET row == Row(pass.rec, pass.text) IN
       rows' = IF /\ Known(At, pass.rec)
                  /\ rows[At].name = row.name /\ rows[At].text = row.text
               THEN rows ELSE [rows EXCEPT ![At] = row]
    /\ bare' = IF pass.state = "failed" /\ meta[At] # NoMeta THEN bare \union {At}
               ELSE bare \ {At}
    /\ Advance
    /\ UNCHANGED <<kind, world, sidecar, meta, used>>

\* The pass is killed.  Between the two statements the meta of a drifted file are new, and
\* its row stays: the next pass takes it for unchanged.
Kill ==
    /\ pass # Off
    /\ pass' = Off
    /\ UNCHANGED <<kind, world, sidecar, rows, meta, bare, used>>

Next ==
    \/ \E i \in Items, field \in {"name", "text", "attrs"} : Edit(i, field)
    \/ Tick
    \/ \E v \in 0..2 : Switch(v)
    \/ Begin \/ ListPage \/ ListFails \/ ReadItem \/ Skip \/ Store \/ RecordRow \/ Kill
    \/ \E state \in {"extracted", "unsupported", "too_large", "failed"} : Extract(state)

Spec == Init /\ [][Next]_vars
-----------------------------------------------------------------------------
(***************************************************************************)
(* Properties.                                                             *)
(***************************************************************************)

\* The next pass, if nothing happens before it, passes the item over.
Settled(i) == rows[i] # Absent /\ Known(i, Record(remote[i], remote[i].text)) /\ ~Drifted(i)

\* A row that passes skip from now on is what the service has.  The exceptions: a file
\* renamed at a service whose fingerprint is the hash keeps its old name; the answer to
\* an invitation and the unread mark stay as first read; Notion's edits in the minute
\* the page was listed in go unseen; a file has no text when it was found unsupported or
\* too large, or without an extractor; and it has none, for good, when it changed while
\* extraction was failing or off after it had worked, the old meta still vouching for it,
\* and when a pass was killed between the new meta of a drifted file and its row.
SkippedIsCurrent ==
    \A i \in Items : Settled(i) =>
        \/ /\ rows[i].name = remote[i].name \/ kind \in Hashed
           /\ rows[i].attrs = remote[i].attrs \/ kind \in Events \union Mails
           /\ \/ rows[i].text = remote[i].text
              \/ /\ kind \in Files /\ rows[i].text = NoText
                 /\ \/ sidecar = 0 \/ i \in bare
                    \/ meta[i].state \in {"unsupported", "too_large"}
        \/ kind = "notion" /\ rows[i].listed = remote[i].minute
=============================================================================
