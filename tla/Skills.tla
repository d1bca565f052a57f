------------------------------- MODULE Skills -------------------------------
(***************************************************************************)
(* The skills installer.  `skills install` mirrors the skills bundled with *)
(* the running version into the directories of the agent hosts, where the  *)
(* user and other tools keep skills of their own; `skills prune` deletes   *)
(* the mirrors of skills no longer bundled.  Which files suasor may touch  *)
(* is known only from a stamp per host, the names it has written, and a    *)
(* list of retired names.  Files are written one by one, the stamps last,  *)
(* in place: a killed command leaves a cut file or stamp behind.           *)
(***************************************************************************)
EXTENDS Naturals, FiniteSets

CONSTANTS
    Name,       \* skill names, in the catalog's order
    Host,       \* the host directories, in the order of `scope=all`
    Catalogs,   \* Catalogs[v]: the bundled names of version v, and their bodies
    Retired,    \* RETIRED_SKILLS
    MaxRuns,    \* bound: commands run
    MaxEdits,   \* bound: files the user places, edits or deletes
    MaxCrashes  \* bound: commands killed

Absent == "absent"
Mine   == "mine"        \* a body the user wrote
Cut    == "cut"         \* what a killed write leaves
Idle   == "idle"

Versions == DOMAIN Catalogs
Bundled(v) == DOMAIN Catalogs[v]

\* What the constants are.
SkillsConstants ==
    /\ Name \subseteq Nat /\ Host \subseteq Nat /\ Retired \subseteq Name
    /\ \A v \in Versions : Bundled(v) \subseteq Name
    /\ \A v \in Versions : \A n \in Bundled(v) : Catalogs[v][n] \notin {Absent, Mine, Cut}

Place == Name \X Host

VARIABLES
    version,    \* of the suasor that is installed
    text,       \* text[<<n, h>>]: the body of <h>/<n>/SKILL.md
    author,     \* who put the file there
    stamp,      \* stamp[h]: the version and the names, None without a stamp
    job,        \* the running command
    runs, edits, crashes,   \* how much of each bound is used
    blurred,    \* places where the stamp names a file that is not suasor's
    lost        \* places where a kill took the evidence of a mirror

files == <<text, author>>
counts == <<runs, edits, crashes>>
vars == <<version, text, author, stamp, job, counts, blurred, lost>>

None == [version |-> 0, names |-> {}]

Init ==
    /\ version \in Versions
    /\ text = [p \in Place |-> Absent]
    /\ author = [p \in Place |-> "nobody"]
    /\ stamp = [h \in Host |-> None]
    /\ job = [kind |-> Idle]
    /\ runs = 0 /\ edits = 0 /\ crashes = 0 /\ blurred = {} /\ lost = {}

\* What suasor can show it wrote into a host directory.
Owned(h) == stamp[h].names \union Retired

Put(p, body, who) ==
    /\ text' = [text EXCEPT ![p] = body]
    /\ author' = [author EXCEPT ![p] = who]

\* In the order of the catalog, and of the hosts.
First(places) ==
    CHOOSE p \in places : \A q \in places : p[1] < q[1] \/ (p[1] = q[1] /\ p[2] <= q[2])

Earliest(hosts) == CHOOSE h \in hosts : \A k \in hosts : h <= k
-----------------------------------------------------------------------------
\* installSkills reads the evidence of every host before it writes anything.
Install(hosts, force) ==
    /\ job.kind = Idle /\ runs < MaxRuns
    /\ runs' = runs + 1
    /\ job' = [kind |-> "install", todo |-> Bundled(version) \X hosts, hosts |-> hosts,
               force |-> force, owned |-> [h \in hosts |-> Owned(h)], skipped |-> {}]
    /\ UNCHANGED <<version, files, stamp, edits, crashes, blurred, lost>>

\* A file that differs is replaced when it is known to be suasor's, or by force.
MayReplace(p) == text[p] = Absent \/ job.force \/ p[1] \in job.owned[p[2]]

\* One turn of the loop over skills and hosts.
Mirror ==
    /\ job.kind = "install" /\ job.todo # {}
    /\ LET p == First(job.todo)
           source == Catalogs[version][p[1]]
           rest == [job EXCEPT !.todo = @ \ {p}] IN
       \/ /\ text[p] = source
          /\ job' = rest
          /\ blurred' = IF author[p] = "user" THEN blurred \union {p} ELSE blurred
          /\ UNCHANGED files
       \/ /\ text[p] # source /\ MayReplace(p)
          /\ Put(p, source, "suasor")
          /\ job' = rest
          /\ blurred' = blurred \ {p}
       \/ /\ text[p] # source /\ ~MayReplace(p)
          /\ job' = [rest EXCEPT !.skipped = @ \union {p}]
          /\ UNCHANGED <<files, blurred>>
    /\ UNCHANGED <<version, stamp, counts, lost>>

\* Mutant: the names skipped are recorded with the others.
ClaimAll(h) == Bundled(version)

Claimed(h) == {n \in Bundled(version) : <<n, h>> \notin job.skipped}

\* Names recorded before, of mirrors that are still there.
Carried(h) == {n \in stamp[h].names \ Claimed(h) : text[<<n, h>>] # Absent}

Stamp(h, s) ==
    /\ stamp' = [stamp EXCEPT ![h] = s]
    /\ blurred' = {p \in blurred : p[2] = h => p[1] \in s.names}
    /\ lost' = {p \in lost : p[2] = h => p[1] \notin s.names}

\* The stamps, host by host, after the last mirror.
WriteStamp ==
    /\ job.kind = "install" /\ job.todo = {} /\ job.hosts # {}
    /\ LET h == Earliest(job.hosts) IN
       /\ Stamp(h, [version |-> version, names |-> Claimed(h) \union Carried(h)])
       /\ job' = IF job.hosts = {h} THEN [kind |-> Idle] ELSE [job EXCEPT !.hosts = @ \ {h}]
    /\ UNCHANGED <<version, files, counts>>
-----------------------------------------------------------------------------
orphanStatuses(hosts) ==
    {p \in Name \X hosts : /\ p[1] \notin Bundled(version) /\ p[1] \in Owned(p[2])
                           /\ text[p] # Absent}

\* pruneSkills lists the orphans, deletes their directories and then drops their names.
Prune(hosts) ==
    /\ job.kind = Idle /\ runs < MaxRuns
    /\ runs' = runs + 1
    /\ LET orphans == orphanStatuses(hosts) IN
       job' = IF orphans = {} THEN job
              ELSE [kind |-> "prune", todo |-> orphans, gone |-> orphans]
    /\ UNCHANGED <<version, files, stamp, edits, crashes, blurred, lost>>

Remove ==
    /\ job.kind = "prune" /\ job.todo # {}
    /\ LET p == First(job.todo) IN
       /\ Put(p, Absent, "nobody")
       /\ job' = [job EXCEPT !.todo = @ \ {p}]
    /\ UNCHANGED <<version, stamp, counts, blurred, lost>>

DropNames(h) == [stamp[h] EXCEPT !.names = {n \in @ : <<n, h>> \notin job.gone}]

Unclaim ==
    /\ job.kind = "prune" /\ job.todo = {}
    /\ LET hosts == {p[2] : p \in job.gone}
           h == Earliest(hosts) IN
       /\ IF stamp[h] = None THEN UNCHANGED <<stamp, blurred, lost>> ELSE Stamp(h, DropNames(h))
       /\ job' = IF hosts = {h} THEN [kind |-> Idle]
                 ELSE [job EXCEPT !.gone = {p \in @ : p[2] # h}]
    /\ UNCHANGED <<version, files, counts>>
-----------------------------------------------------------------------------
\* Where a kill in this state leaves the stamp behind the files.
Unstamped ==
    IF job.kind = "install"
    THEN {p \in Place : p[2] \in job.hosts /\ author[p] = "suasor" /\ p[1] \notin stamp[p[2]].names}
    ELSE {}

Unpruned == IF job.kind = "prune" THEN job.gone \ job.todo ELSE {}

\* A kill between two writes.
Crash ==
    /\ job.kind # Idle /\ crashes < MaxCrashes
    /\ crashes' = crashes + 1
    /\ job' = [kind |-> Idle]
    /\ lost' = lost \union Unstamped
    /\ blurred' = blurred \union Unpruned
    /\ UNCHANGED <<version, files, stamp, runs, edits>>

\* A kill within the write of a mirror.
CrashInMirror ==
    /\ job.kind = "install" /\ job.todo # {} /\ crashes < MaxCrashes
    /\ crashes' = crashes + 1
    /\ LET p == First(job.todo) IN
       /\ text[p] # Catalogs[version][p[1]] /\ MayReplace(p)
       /\ Put(p, Cut, "suasor")
       /\ lost' = lost \union Unstamped
                       \union (IF p[1] \in stamp[p[2]].names THEN {} ELSE {p})
    /\ job' = [kind |-> Idle]
    /\ UNCHANGED <<version, stamp, runs, edits, blurred>>

\* A kill within the write of a stamp: readStamp takes what is left for no stamp.
CrashInStamp ==
    /\ job.kind # Idle /\ job.todo = {} /\ crashes < MaxCrashes
    /\ crashes' = crashes + 1
    /\ LET h == Earliest(IF job.kind = "install" THEN job.hosts ELSE {p[2] : p \in job.gone}) IN
       /\ job.kind = "prune" => stamp[h] # None
       /\ stamp' = [stamp EXCEPT ![h] = None]
       /\ lost' = lost \union Unstamped
                       \union {p \in Place : p[2] = h /\ author[p] = "suasor"}
       /\ blurred' = {p \in blurred \union Unpruned : p[2] # h}
    /\ job' = [kind |-> Idle]
    /\ UNCHANGED <<version, files, runs, edits>>

\* The user writes a skill of his own, edits a mirror in place, or deletes.
Edit(p, body) ==
    /\ job.kind = Idle /\ edits < MaxEdits
    /\ edits' = edits + 1
    /\ text[p] # body
    /\ text' = [text EXCEPT ![p] = body]
    /\ author' = [author EXCEPT ![p] = IF body = Absent THEN "nobody"
                                       ELSE IF @ = "suasor" THEN @ ELSE "user"]
    /\ blurred' = IF author[p] = "suasor" /\ body = Absent /\ p[1] \in stamp[p[2]].names
                  THEN blurred \union {p} ELSE blurred
    /\ lost' = IF body = Absent THEN lost \ {p} ELSE lost
    /\ UNCHANGED <<version, stamp, job, runs, crashes>>

\* Another version is installed, newer or older.
Upgrade(v) ==
    /\ job.kind = Idle /\ v # version
    /\ version' = v
    /\ UNCHANGED <<files, stamp, job, counts, blurred, lost>>

Bodies == UNION {{Catalogs[v][n] : n \in Bundled(v)} : v \in Versions}

Next ==
    \/ \E hosts \in (SUBSET Host) \ {{}} :
          Prune(hosts) \/ \E force \in BOOLEAN : Install(hosts, force)
    \/ Mirror \/ WriteStamp \/ Remove \/ Unclaim
    \/ Crash \/ CrashInMirror \/ CrashInStamp
    \/ \E p \in Place : \E body \in {Absent, Mine} \union Bodies : Edit(p, body)
    \/ \E v \in Versions : Upgrade(v)

Spec == Init /\ [][Next]_vars
-----------------------------------------------------------------------------
(***************************************************************************)
(* Properties.                                                             *)
(***************************************************************************)

\* No command changes or deletes a skill the user put there, however often suasor is
\* upgraded, downgraded, killed and run again, without `--force`: except under a
\* retired name, and where he replaced a mirror by a file of his own, copied a bundled
\* one, or a kill came between a prune's deletions and its stamp (install.ts:144-147).
UsersKeptStep ==
    \A p \in Place :
       author[p] = "user" /\ text'[p] # text[p] /\ edits' = edits =>
           \/ job.kind = "install" /\ job.force
           \/ p[1] \in Retired
           \/ p \in blurred

UsersKept == [][UsersKeptStep]_vars

\* A mirror suasor wrote is known as such on every later run, so that an upgrade
\* refreshes it and, once its skill is gone, `skills list` reports it and `skills prune`
\* removes it; except where a kill came before its stamp, or cut the stamp.
MirrorsKnown ==
    job.kind = Idle => \A p \in Place :
        author[p] = "suasor" => p[1] \in Owned(p[2]) \/ p \in lost

-----------------------------------------------------------------------------
(***************************************************************************)
(* The inductive invariant of both.                                        *)
(***************************************************************************)

Texts == {Absent, Mine, Cut} \union Bodies

Stamps == [version : Versions \union {0}, names : SUBSET Name]

SkillsTyped ==
    /\ version \in Versions
    /\ text \in [Place -> Texts] /\ author \in [Place -> {"nobody", "user", "suasor"}]
    /\ stamp \in [Host -> Stamps]
    /\ job.kind \in {Idle, "install", "prune"} /\ edits \in Nat

\* The files an install is through with are mirrors, files in the user's name, or skipped.
Finished == (Bundled(version) \X job.hosts) \ job.todo

InstallOK ==
    job.kind = "install" =>
       /\ job = [kind |-> "install", todo |-> job.todo, hosts |-> job.hosts, force |-> job.force,
                 owned |-> job.owned, skipped |-> job.skipped]
       /\ job.hosts \subseteq Host /\ job.hosts # {}
       /\ job.todo \subseteq Bundled(version) \X job.hosts /\ job.skipped \intersect job.todo = {}
       /\ job.todo # {} => \A h \in job.hosts : job.owned[h] = Owned(h)
       /\ \A p \in Finished : p \in job.skipped \/ author[p] = "suasor" \/ p \in blurred

\* What a prune deletes is in the stamp until it is deleted.
PruneOK ==
    job.kind = "prune" =>
       /\ job = [kind |-> "prune", todo |-> job.todo, gone |-> job.gone]
       /\ job.gone \subseteq Place /\ job.gone # {} /\ job.todo \subseteq job.gone
       /\ \A p \in job.todo : p[1] \in Owned(p[2])
       /\ \A p \in job.gone \ job.todo : author[p] = "nobody"

\* Mirrors whose names the running install will record.
Mirrored == IF job.kind = "install" THEN Finished \ job.skipped ELSE {}

\* A name on record is of a mirror, and a mirror's name is on record.
FileOK(p) ==
    /\ text[p] = Absent <=> author[p] = "nobody"
    /\ p[1] \in stamp[p[2]].names /\ author[p] # "suasor" => p \in blurred \/ p \in Unpruned
    /\ author[p] = "suasor" => p[1] \in Owned(p[2]) \/ p \in lost \/ p \in Mirrored

SkillsInv == SkillsTyped /\ InstallOK /\ PruneOK /\ \A p \in Place : FileOK(p)
=============================================================================
