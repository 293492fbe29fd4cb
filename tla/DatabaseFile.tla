---------------------------- MODULE DatabaseFile ----------------------------
(***************************************************************************)
(* The SQLite database file over the life of several processes: opening    *)
(* and migration at start-up (src/src/sqlite.rs, migrations/), what a      *)
(* process that is killed leaves behind, and the operator's scripts        *)
(* (src/scripts/backup_sqlite.sh, restore_sqlite.sh).                      *)
(*                                                                         *)
(* A database is a file and, while it is open or after its process was     *)
(* killed, a write-ahead log next to it (-wal) with the commits that are   *)
(* not in the file yet.  SQLite pairs the two by name only: whatever log   *)
(* lies next to a file when it is opened is applied to it, unless the file *)
(* is new, when the log is deleted.                                        *)
(*                                                                         *)
(* The service is stopped while a script restores, as the script asks.     *)
(***************************************************************************)
EXTENDS Integers, Sequences

CONSTANTS
  MaxCommits,    (* bound: commits of the service                          *)
  MaxDatabases,  (* bound: databases that differ, the new one among them   *)
  MaxSeconds,    (* bound: seconds that differ                             *)
  Mishaps        (* "kill": the service may be killed; "interrupt": the    *)
                 (* restore script may be; "mv": its mv of the log may     *)
                 (* fail                                                   *)

ASSUME BoundsAssumption ==
  MaxCommits \in Nat /\ MaxDatabases \in Nat /\ MaxSeconds \in Nat \ {0}
ASSUME MishapsAssumption == Mishaps \subseteq {"kill", "interrupt", "mv"}

(* The statements of migrations/001_initial.sql, in their order. *)
Migration == <<"events", "events_quote_seq", "idempotency_keys">>
Schema == {Migration[i] : i \in DOMAIN Migration}

Absent == <<>>

VARIABLES
  main,       (* the file: which database it is, its schema, its commits   *)
  wal,        (* the log: of which database, and the commits in it         *)
  backup,     (* the backup file                                           *)
  moved,      (* moved[t]: what lies at <db_path>.pre-restore.<t>          *)
  service,    (* the process: "stopped", the number of migration           *)
              (* statements it has run, or "serving"                       *)
  restore,    (* the restore script: its next step                         *)
  stamp,      (* ... and, between its two moves, the second it has named   *)
              (* the moved database after                                  *)
  now,        (* the clock, in seconds                                     *)
  made,       (* the last database made: each has its number               *)
  left,       (* history: a log was left where its file was moved away     *)
  taken,      (* history: a database was moved over one moved before       *)
  committed   (* history: the commits the service has made                 *)

files == <<main, wal, backup, moved>>
scriptVars == <<restore, stamp, left, taken>>
fileVars == <<files, service, scriptVars, now, made, committed>>

Database(id, schema, commits) == [id |-> id, schema |-> schema, commits |-> commits]
Log(id, commits) == [id |-> id, commits |-> commits]

LogCommits(log) == IF log = Absent THEN {} ELSE log.commits

(* What SQLite reads from a file with a log next to it.  Pages of one      *)
(* database over those of another are no database.                         *)
Mixed == 0
New == 1

Opened(file, log) ==
  IF file = Absent THEN Database(New, {}, {})
  ELSE IF log # Absent /\ log.id # file.id THEN [file EXCEPT !.id = Mixed]
  ELSE [file EXCEPT !.commits = @ \cup LogCommits(log)]

ScriptRuns == restore \in {"move", "move_wal", "copy", "rename"}

-----------------------------------------------------------------------------
(* The service *)

Open ==
  /\ service.pc = "stopped" /\ ~ScriptRuns
  /\ main' = Opened(main, wal)
  /\ wal' = Absent
  /\ service' = [pc |-> "migrating", done |-> 0]
  /\ UNCHANGED <<backup, moved, scriptVars, now, made, committed>>

(* execute_batch runs the statements one after the other, each with its    *)
(* own commit; CREATE ... IF NOT EXISTS adds what is not there.            *)
MigrateNewFilesOnly ==
  /\ service.pc = "migrating" /\ service.done < Len(Migration)
  /\ main' = [main EXCEPT !.schema = IF service.done = 0 /\ @ # {} THEN @
                                     ELSE @ \cup {Migration[service.done + 1]}]
  /\ service' = [service EXCEPT !.done = IF @ = 0 /\ main.schema # {} THEN Len(Migration)
                                         ELSE @ + 1]
  /\ UNCHANGED <<wal, backup, moved, scriptVars, now, made, committed>>
Migrate ==
  /\ service.pc = "migrating" /\ service.done < Len(Migration)
  /\ main' = [main EXCEPT !.schema = @ \cup {Migration[service.done + 1]}]
  /\ service' = [service EXCEPT !.done = @ + 1]
  /\ UNCHANGED <<wal, backup, moved, scriptVars, now, made, committed>>

(* The pragmas, journal_mode = WAL among them; then the server listens.    *)
SetPragmas ==
  /\ service.pc = "migrating" /\ service.done = Len(Migration)
  /\ wal' = Log(main.id, {})
  /\ service' = [service EXCEPT !.pc = "serving"]
  /\ UNCHANGED <<main, backup, moved, scriptVars, now, made, committed>>

CommitOne ==
  /\ service.pc = "serving"
  /\ \E n \in 1 .. MaxCommits \ committed :
       /\ wal' = [wal EXCEPT !.commits = @ \cup {n}]
       /\ committed' = committed \cup {n}
  /\ UNCHANGED <<main, backup, moved, service, scriptVars, now, made>>

CheckpointLog ==
  /\ service.pc = "serving" /\ wal.commits # {}
  /\ main' = Opened(main, wal) /\ wal' = Log(main.id, {})
  /\ UNCHANGED <<backup, moved, service, scriptVars, now, made, committed>>

(* main returns and drops the connection: SQLite empties the log into the  *)
(* file and deletes it.                                                    *)
Close ==
  /\ service.pc = "serving"
  /\ main' = Opened(main, wal) /\ wal' = Absent
  /\ service' = [pc |-> "stopped", done |-> 0]
  /\ UNCHANGED <<backup, moved, scriptVars, now, made, committed>>

Kill ==
  /\ "kill" \in Mishaps
  /\ service.pc # "stopped"
  /\ service' = [pc |-> "stopped", done |-> 0]
  /\ UNCHANGED <<files, scriptVars, now, made, committed>>

-----------------------------------------------------------------------------
(* The scripts *)

(* backup_sqlite.sh: sqlite's .backup of the open or closed database to a  *)
(* temporary file, renamed at the end.  As the only connection it empties  *)
(* the log when it closes.                                                 *)
Backup ==
  /\ main # Absent /\ ~ScriptRuns
  /\ backup' = Opened(main, wal)
  /\ IF service.pc = "stopped"
     THEN main' = Opened(main, wal) /\ wal' = Absent
     ELSE UNCHANGED <<main, wal>>
  /\ UNCHANGED <<moved, service, scriptVars, now, made, committed>>

(* restore_sqlite.sh begins; it looks whether there is a database.         *)
RestoreBegins ==
  /\ restore \in {"no", "interrupted", "done"}
  /\ service.pc = "stopped" /\ backup # Absent
  /\ made < MaxDatabases
  /\ restore' = IF main # Absent THEN "move" ELSE "copy"
  /\ UNCHANGED <<files, service, stamp, now, made, left, taken, committed>>

(* The file takes the name of the second, whatever lies there.             *)
MoveFile ==
  LET logThere == IF now \in DOMAIN moved THEN moved[now].wal ELSE Absent
  IN  /\ restore = "move"
      /\ moved' = [t \in DOMAIN moved \cup {now} |->
                     IF t = now THEN [main |-> main, wal |-> logThere] ELSE moved[t]]
      /\ main' = Absent
      /\ restore' = "move_wal" /\ stamp' = now
      /\ taken' = (taken \/ now \in DOMAIN moved)
      /\ UNCHANGED <<wal, backup, service, now, made, left, committed>>

(* Its log goes with it, if it has one.                                    *)
MoveLogForgotten ==
  /\ restore = "move_wal"
  /\ restore' = "copy" /\ stamp' = 0
  /\ UNCHANGED <<files, service, now, made, left, taken, committed>>
MoveLog ==
  /\ restore = "move_wal"
  /\ moved' = IF wal = Absent THEN moved ELSE [moved EXCEPT ![stamp].wal = wal]
  /\ wal' = Absent
  /\ restore' = "copy" /\ stamp' = 0
  /\ UNCHANGED <<main, backup, service, now, made, left, taken, committed>>

(* The mv of the log fails, and the script goes on: `|| true`.             *)
MoveLogFails ==
  /\ "mv" \in Mishaps
  /\ restore = "move_wal" /\ wal # Absent
  /\ restore' = "copy" /\ stamp' = 0
  /\ left' = TRUE
  /\ UNCHANGED <<files, service, now, made, taken, committed>>

(* .backup of the backup file to a temporary file: nothing else changes.   *)
CopyBackup ==
  /\ restore = "copy"
  /\ restore' = "rename"
  /\ UNCHANGED <<files, service, stamp, now, made, left, taken, committed>>

RenameCopy ==
  /\ restore = "rename"
  /\ main' = [backup EXCEPT !.id = made + 1]
  /\ made' = made + 1
  /\ restore' = "done"
  /\ UNCHANGED <<wal, backup, moved, service, stamp, now, left, taken, committed>>

(* The script is killed, or ends at a command that fails: set -e.          *)
Interrupt ==
  /\ "interrupt" \in Mishaps
  /\ ScriptRuns
  /\ restore' = "interrupted" /\ stamp' = 0
  /\ left' = (left \/ (restore = "move_wal" /\ wal # Absent))
  /\ UNCHANGED <<files, service, now, made, taken, committed>>

SecondPasses ==
  /\ now < MaxSeconds
  /\ now' = now + 1
  /\ UNCHANGED <<files, service, scriptVars, made, committed>>

-----------------------------------------------------------------------------
FileInit ==
  /\ main = Absent /\ wal = Absent /\ backup = Absent /\ moved = <<>>
  /\ service = [pc |-> "stopped", done |-> 0]
  /\ restore = "no" /\ stamp = 0 /\ now = 1 /\ made = New
  /\ left = FALSE /\ taken = FALSE
  /\ committed = {}

FileNext ==
  \/ Open \/ Migrate \/ SetPragmas \/ CommitOne \/ CheckpointLog \/ Close \/ Kill
  \/ Backup
  \/ RestoreBegins \/ MoveFile \/ MoveLog \/ MoveLogFails \/ CopyBackup \/ RenameCopy
  \/ Interrupt \/ SecondPasses

FileSpec == FileInit /\ [][FileNext]_fileVars

-----------------------------------------------------------------------------
(* Properties *)

(* A server that listens has every table and index, also when a process    *)
(* was killed during the migration, and on a file restored from a backup   *)
(* of any moment (sqlite.rs:10).                                           *)
ServesWholeSchema == service.pc = "serving" => main.schema = Schema

(* When the restore has reported "database restored to: $DB_PATH", what    *)
(* the service will open there is the backup: no part of the database that *)
(* was there before, also when the script was interrupted and run again,   *)
(* unless a log was left: the script was interrupted between its two       *)
(* moves, and found no file when it ran again, or its mv of the log        *)
(* failed, which it does not look at (restore_sqlite.sh:42-57).            *)
RestoreReplacesTheDatabase ==
  restore = "done" /\ service.pc = "stopped" /\ ~left => Opened(main, wal).id # Mixed

(* Nothing the service committed is lost by a restart or a restore: when   *)
(* no script runs, it is in the database or in one that was moved aside    *)
(* with its log (docs/ops-runbook.md:65), unless a log was left, or two    *)
(* databases were moved in one second and have the same name.              *)
CommitsAreKept ==
  ~ScriptRuns /\ ~left /\ ~taken => committed \subseteq
    Opened(main, wal).commits \cup UNION {Opened(moved[t].main, moved[t].wal).commits : t \in DOMAIN moved}
=============================================================================
