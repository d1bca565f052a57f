------------------------------- MODULE Vault -------------------------------
(***************************************************************************)
(* The file that holds the store: how processes open it, bring the schema  *)
(* of an older version up to date and restrict its mode (db/connection.ts, *)
(* db/file-permissions.ts), and how `export backup` copies it              *)
(* (db/backup.ts).                                                         *)
(*                                                                         *)
(* Every statement of an open commits by itself, so two processes that     *)
(* open the file, and a kill between two statements, meet in any order.    *)
(* The columns are those the code adds to tables of older versions, in the *)
(* order in which versions gained them.                                    *)
(***************************************************************************)
EXTENDS Naturals

CONSTANTS
    Proc,       \* processes that open the store
    Columns,    \* how many columns versions added, the newest last
    Indexed,    \* the added column that has an index among the tables
    MaxEvents,  \* bound: events in the log
    MaxStarts,  \* bound: opens
    MaxKills    \* bound: processes killed

VaultConstants ==
    /\ Columns \in Nat /\ Indexed \in 1 .. Columns
    /\ MaxEvents \in Nat /\ MaxStarts \in Nat /\ MaxKills \in Nat

VARIABLES
    file,    \* the database file: its mode and whether it is in WAL mode
    schema,  \* the tables created so far, and the added columns they have
    log,     \* how many events are committed
    proc,    \* where each process is, at which column, whether others were opening too, and
             \* whether the chmod of the store it has open did nothing
    backup,  \* where the backup is, its format, the events it expects and staged, and whether
             \* its chmod did nothing
    dest,    \* the file at the backup's path
    lost,    \* a backup took away a file that was not its own
    used     \* how much of the bounds is used

vars == <<file, schema, log, proc, backup, dest, lost, used>>

store == <<file, schema, log>>

AllColumns == 1 .. Columns

Closed == [at |-> "closed", column |-> 0, met |-> FALSE, ignored |-> FALSE]

NoFile == [by |-> "nobody", mode |-> "none", events |-> 0, whole |-> FALSE]

Of(owner, mode, n) == [by |-> owner, mode |-> mode, events |-> n, whole |-> TRUE]

\* The store is new, or that of a version that had the first v columns; that version
\* left the file with the mode of the umask.  The newest has every table, and the oldest
\* may lack the indexed one.
Init ==
    /\ \/ /\ file = [mode |-> "none", wal |-> FALSE]
          /\ schema = [tables |-> "none", columns |-> {}]
          /\ log = 0
       \/ \E v \in 0 .. Columns :
             /\ file = [mode |-> "wide", wal |-> TRUE]
             /\ schema \in [tables : IF v = Columns THEN {"all"}
                                    ELSE IF v = 0 THEN {"oldest", "early"} ELSE {"early"},
                           columns : {1 .. v}]
             /\ log = 1
    /\ proc = [p \in Proc |-> Closed]
    /\ backup = [at |-> "idle", format |-> "sqlite", expected |-> 0, staged |-> 0,
                 ignored |-> FALSE]
    /\ dest = NoFile
    /\ lost = FALSE
    /\ used = [starts |-> 0, kills |-> 0]

Goes(p, at) == proc' = [proc EXCEPT ![p].at = at]

Still == UNCHANGED <<log, backup, dest, lost, used>>
-----------------------------------------------------------------------------
(***************************************************************************)
(* openDatabase.                                                           *)
(***************************************************************************)

Opening(p) == proc[p].at \in {"wal", "early", "index", "late", "check", "alter", "restrict"}

\* The file is created with the mode of the umask.
Start(p) ==
    /\ proc[p].at \in {"closed", "failed"}
    /\ used.starts < MaxStarts
    /\ file' = IF file.mode = "none" THEN [file EXCEPT !.mode = "wide"] ELSE file
    /\ proc' = [q \in Proc |->
                  IF q = p
                  THEN [at |-> "wal", column |-> 1, ignored |-> FALSE,
                        met |-> \E o \in Proc \ {p} : Opening(o)]
                  ELSE [proc[q] EXCEPT !.met = @ \/ Opening(q)]]
    /\ used' = [used EXCEPT !.starts = @ + 1]
    /\ UNCHANGED <<schema, log, backup, dest, lost>>

SetWal(p) ==
    /\ proc[p].at = "wal"
    /\ file' = [file EXCEPT !.wal = TRUE]
    /\ Goes(p, "early")
    /\ UNCHANGED schema
    /\ Still

\* The switch to WAL locks the file, and comes before busy_timeout is set.
Busy(p) ==
    /\ proc[p].at = "wal"
    /\ ~file.wal
    /\ \E q \in Proc \ {p} : proc[q].at = "wal"
    /\ Goes(p, "failed")
    /\ UNCHANGED <<file, schema>>
    /\ Still

\* The tables down to commitments: a new one has every column, one that is there stays.
EarlyTables(p) ==
    /\ proc[p].at = "early"
    /\ \/ schema.tables = "none" /\ schema' = [tables |-> "early", columns |-> AllColumns]
       \/ schema.tables = "oldest"
          /\ schema' = [tables |-> "early", columns |-> schema.columns \union {Indexed}]
       \/ schema.tables \notin {"none", "oldest"} /\ UNCHANGED schema
    /\ Goes(p, "index")
    /\ UNCHANGED file
    /\ Still

\* The index among the tables needs its column, which is added only later.
Index(p) ==
    /\ proc[p].at = "index"
    /\ Goes(p, IF Indexed \in schema.columns THEN "late" ELSE "failed")
    /\ UNCHANGED <<file, schema>>
    /\ Still

LateTables(p) ==
    /\ proc[p].at = "late"
    /\ schema' = [schema EXCEPT !.tables = "all"]
    /\ Goes(p, "check")
    /\ UNCHANGED file
    /\ Still

\* The next column, or the end of the migration.
Added(p) ==
    IF proc[p].column = Columns THEN [proc EXCEPT ![p].at = "restrict"]
    ELSE [proc EXCEPT ![p].at = "check", ![p].column = @ + 1]

\* ensureColumn looks at the table ...
Check(p) ==
    /\ proc[p].at = "check"
    /\ IF proc[p].column \in schema.columns THEN proc' = Added(p) ELSE Goes(p, "alter")
    /\ UNCHANGED <<file, schema>>
    /\ Still

\* ... and adds the column in a statement of its own, which throws if it is there by now.
Alter(p) ==
    /\ proc[p].at = "alter"
    /\ IF proc[p].column \in schema.columns
       THEN Goes(p, "failed") /\ UNCHANGED schema
       ELSE /\ schema' = [schema EXCEPT !.columns = @ \union {proc[p].column}]
            /\ proc' = Added(p)
    /\ UNCHANGED file
    /\ Still

\* chmod 0600, at every open.  On Windows, and where it fails, it does nothing and nobody is
\* told.
Restricted == "private"

restrictDatabaseFiles(p) ==
    /\ proc[p].at = "restrict"
    /\ \/ file' = [file EXCEPT !.mode = Restricted] /\ Goes(p, "open")
       \/ UNCHANGED file /\ proc' = [proc EXCEPT ![p].at = "open", ![p].ignored = TRUE]
    /\ UNCHANGED schema
    /\ Still

\* What the open store is for, and its close.
Append(p) ==
    /\ proc[p].at = "open"
    /\ log < MaxEvents
    /\ log' = log + 1
    /\ UNCHANGED <<file, schema, proc, backup, dest, lost, used>>

Close(p) ==
    /\ proc[p].at = "open"
    /\ proc' = [proc EXCEPT ![p] = Closed]
    /\ UNCHANGED <<file, schema>>
    /\ Still

Kill(p) ==
    /\ Opening(p)
    /\ used.kills < MaxKills
    /\ proc' = [proc EXCEPT ![p] = Closed]
    /\ used' = [used EXCEPT !.kills = @ + 1]
    /\ UNCHANGED <<store, backup, dest, lost>>
-----------------------------------------------------------------------------
(***************************************************************************)
(* backupStoreFile: it opens the store read-only and migrates nothing.     *)
(***************************************************************************)

Backup(at) == backup' = [backup EXCEPT !.at = at]

\* A file at the destination is refused; the events are counted first.
backupStore(format) ==
    /\ backup.at = "idle"
    /\ schema.tables # "none"
    /\ backup' = [at       |-> IF dest.by = "nobody" THEN "vacuum" ELSE "refused",
                  format   |-> format,
                  expected |-> log,
                  staged   |-> 0,
                  ignored  |-> FALSE]
    /\ UNCHANGED <<store, proc, dest, lost, used>>

\* VACUUM INTO copies what is committed now.  It never writes over a file; the archive's
\* copy goes to a directory of its own.
vacuumInto ==
    /\ backup.at = "vacuum"
    /\ \/ /\ backup.format = "sqlite"
          /\ dest.by = "nobody"
          /\ dest' = Of("backup", "wide", log)
          /\ Backup("restrict")
       \/ /\ backup.format = "sqlite"
          /\ dest.by # "nobody"
          /\ Backup("refused")
          /\ UNCHANGED dest
       \/ /\ backup.format = "tgz"
          /\ backup' = [backup EXCEPT !.at = "verify", !.staged = log]
          /\ UNCHANGED dest
    /\ UNCHANGED <<store, proc, lost, used>>

\* The disk is full: nothing removes what VACUUM INTO wrote by then.
DiskFull ==
    /\ backup.at = "vacuum"
    /\ Backup("full")
    /\ dest' = IF backup.format = "sqlite" /\ dest.by = "nobody"
               THEN [Of("backup", "wide", 0) EXCEPT !.whole = FALSE] ELSE dest
    /\ UNCHANGED <<store, proc, lost, used>>

Snapshot == IF backup.format = "sqlite" THEN dest.events ELSE backup.staged

\* The snapshot is counted against the count taken before it.
CountsAgree == Snapshot = backup.expected

verify ==
    /\ backup.at = "verify"
    /\ IF CountsAgree
       THEN Backup(IF backup.format = "sqlite" THEN "done" ELSE "tar") /\ UNCHANGED dest
       ELSE Backup("mismatch") /\ dest' = IF backup.format = "sqlite" THEN NoFile ELSE dest
    /\ UNCHANGED <<store, proc, lost, used>>

\* tar writes over whatever is at the destination by now, and a tar that fails has it
\* removed.
tar ==
    /\ backup.at = "tar"
    /\ \/ dest' = Of("backup", "wide", backup.staged) /\ Backup("restrict")
       \/ dest' = NoFile /\ Backup("failed")
    /\ lost' = (lost \/ dest.by = "user")
    /\ UNCHANGED <<store, proc, used>>

\* Mutant: the archive keeps the mode tar gave it.
RestrictSnapshot == IF backup.format = "sqlite" THEN "private" ELSE dest.mode

RestrictCopy == "private"

AfterRestrict == IF backup.format = "sqlite" THEN "verify" ELSE "done"

\* It may do nothing here too.
restrictPath ==
    /\ backup.at = "restrict"
    /\ \/ dest' = [dest EXCEPT !.mode = RestrictCopy] /\ Backup(AfterRestrict)
       \/ UNCHANGED dest /\ backup' = [backup EXCEPT !.at = AfterRestrict, !.ignored = TRUE]
    /\ UNCHANGED <<store, proc, lost, used>>

KillBackup ==
    /\ backup.at \in {"vacuum", "restrict", "verify", "tar"}
    /\ used.kills < MaxKills
    /\ Backup("killed")
    /\ used' = [used EXCEPT !.kills = @ + 1]
    /\ UNCHANGED <<store, proc, dest, lost>>

\* Somebody else saves a file under the same path.
Appear ==
    /\ dest.by = "nobody"
    /\ dest' = Of("user", "wide", 0)
    /\ UNCHANGED <<store, proc, backup, lost, used>>

Next ==
    \/ \E p \in Proc :
          \/ Start(p) \/ SetWal(p) \/ Busy(p) \/ EarlyTables(p) \/ Index(p) \/ LateTables(p)
          \/ Check(p) \/ Alter(p) \/ restrictDatabaseFiles(p) \/ Append(p) \/ Close(p) \/ Kill(p)
    \/ \E format \in {"sqlite", "tgz"} : backupStore(format)
    \/ vacuumInto \/ DiskFull \/ verify \/ tar \/ restrictPath \/ KillBackup \/ Appear

Spec == Init /\ [][Next]_vars
-----------------------------------------------------------------------------
(***************************************************************************)
(* Properties.                                                             *)
(***************************************************************************)

\* A store that is open has every table and column and, unless the chmod of this open did
\* nothing, is its owner's alone, whoever else opened it or was killed on the way; an open
\* fails only beside another one, or on a store whose commitments table is older than its
\* indexed column.
OpenHonest ==
    \A p \in Proc :
        /\ proc[p].at = "open" =>
              /\ schema = [tables |-> "all", columns |-> AllColumns]
              /\ file.wal /\ (file.mode = "private" \/ proc[p].ignored)
        /\ proc[p].at = "failed" => proc[p].met \/ Indexed \notin schema.columns

\* data-model.md:72: the columns a database of an older version lacks are added when it
\* is opened.  No open fails that was alone with the file.
OldStoreOpens == \A p \in Proc : proc[p].at = "failed" => proc[p].met

\* The mode of a copy through with its chmod.
CopyMode == IF backup.ignored THEN "wide" ELSE "private"

\* A backup that says it is done is whole, its owner's alone unless its chmod did nothing,
\* and holds the events it tells of; one that is over, unless killed or out of disk, leaves
\* no copy for others to read.  A single-file backup never takes away another's file.
BackupHonest ==
    /\ backup.at = "done" => dest = Of("backup", CopyMode, backup.expected)
    /\ backup.at \in {"refused", "mismatch", "failed"} => dest.by # "backup"
    /\ lost => backup.format = "tgz"

(***************************************************************************)
(* The inductive invariant of both.                                        *)
(***************************************************************************)

VaultTyped ==
    /\ file \in [mode : {"none", "wide", "private"}, wal : BOOLEAN]
    /\ schema \in [tables : {"none", "oldest", "early", "all"}, columns : SUBSET AllColumns]
    /\ proc \in [Proc -> [at : {"closed", "wal", "early", "index", "late", "check", "alter",
                                "restrict", "open", "failed"},
                         column : Nat, met : BOOLEAN, ignored : BOOLEAN]]

\* How far the store is for a process that is so far.
ProcOK(p) ==
    /\ proc[p].at \in {"early", "index", "late", "check", "alter", "restrict", "open"} => file.wal
    /\ proc[p].at \in {"index", "late", "check", "alter", "restrict", "open"} =>
          schema.tables \in {"early", "all"}
    /\ proc[p].at \in {"late", "check", "alter", "restrict", "open"} => Indexed \in schema.columns
    /\ proc[p].at \in {"check", "alter", "restrict", "open"} => schema.tables = "all"
    /\ proc[p].at \in {"wal", "early", "index", "late"} => proc[p].column = 1
    /\ proc[p].at \in {"check", "alter"} =>
          proc[p].column \in AllColumns /\ 1 .. (proc[p].column - 1) \subseteq schema.columns
    /\ proc[p].at \in {"restrict", "open"} => schema.columns = AllColumns
    /\ proc[p].at = "open" => file.mode = "private" \/ proc[p].ignored
    /\ proc[p].at = "alter" => proc[p].met \/ proc[p].column \notin schema.columns
    /\ proc[p].at = "failed" =>
          proc[p].met \/ (Indexed \notin schema.columns /\ schema.tables \in {"early", "all"})

\* Processes that open the store at the same time know it.
Meet == \A p, q \in Proc : p # q /\ Opening(p) /\ Opening(q) => proc[p].met

\* What is at the backup's path.
BackupOK ==
    /\ backup.at \in {"idle", "vacuum", "refused", "mismatch", "failed"} => dest.by # "backup"
    /\ backup.at \in {"verify", "tar"} /\ backup.format = "tgz" => dest.by # "backup"
    /\ backup.at = "restrict" =>
          dest = Of("backup", "wide", IF backup.format = "tgz" THEN backup.expected ELSE dest.events)
    /\ backup.at = "verify" /\ backup.format = "sqlite" => dest = Of("backup", CopyMode, dest.events)
    /\ backup.at \in {"vacuum", "restrict", "tar"} => ~backup.ignored
    /\ backup.at = "verify" /\ backup.format = "tgz" => ~backup.ignored
    /\ backup.at = "tar" => backup.format = "tgz" /\ backup.staged = backup.expected
    /\ backup.at = "done" => dest = Of("backup", CopyMode, backup.expected)
    /\ lost => backup.format = "tgz" /\ backup.at # "idle"
    /\ backup \in [at : {"idle", "vacuum", "refused", "restrict", "verify", "tar", "full", "mismatch",
                          "failed", "killed", "done"},
                   format : {"sqlite", "tgz"}, expected : Nat, staged : Nat, ignored : BOOLEAN]
    /\ dest \in [by : {"nobody", "backup", "user"}, mode : {"none", "wide", "private"},
                 events : Nat, whole : BOOLEAN]
    /\ log \in Nat

VaultInv == VaultTyped /\ (\A p \in Proc : ProcOK(p)) /\ Meet /\ BackupOK
=============================================================================
