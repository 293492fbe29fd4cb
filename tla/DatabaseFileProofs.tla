-------------------------- MODULE DatabaseFileProofs --------------------------
(***************************************************************************)
(* The database file, for any number of commits, of databases made and of  *)
(* restores: the server never serves part of a schema, a restore leaves    *)
(* the backup and nothing of what was there before, and no commit is lost, *)
(* but for what DatabaseFile excepts.                                      *)
(*                                                                         *)
(* None of the three is inductive: FileInv adds how far the migration has  *)
(* come, what the script has left at each of its steps, and which database *)
(* the log next to the file belongs to.                                    *)
(***************************************************************************)
EXTENDS DatabaseFile, TLAPS

Ids == Nat
CommitSets == SUBSET (1 .. MaxCommits)
Databases == [id : Ids, schema : SUBSET Schema, commits : CommitSets]
Logs == [id : Ids, commits : CommitSets]
Pairs == [main : Databases, wal : Logs \cup {Absent}]

MovedOK == /\ moved = [t \in DOMAIN moved |-> moved[t]]
           /\ \A t \in DOMAIN moved : moved[t] \in Pairs

FileTypeOK ==
  /\ main \in Databases \cup {Absent} /\ wal \in Logs \cup {Absent}
  /\ backup \in Databases \cup {Absent}
  /\ MovedOK
  /\ service \in [pc : {"stopped", "migrating", "serving"}, done : 0 .. Len(Migration)]
  /\ restore \in {"no", "move", "move_wal", "copy", "rename", "done", "interrupted"}
  /\ made \in Nat /\ left \in BOOLEAN /\ taken \in BOOLEAN
  /\ committed \in CommitSets

(* A process runs only while no script does, on a file.  The statements it *)
(* has run are in the schema; when it serves, the log is its file's.       *)
ServiceInv ==
  /\ service.pc # "stopped" => ~ScriptRuns /\ main # Absent
  /\ service.pc = "migrating" =>
       wal = Absent /\ \A i \in 1 .. service.done : Migration[i] \in main.schema
  /\ service.pc = "serving" => wal # Absent /\ wal.id = main.id /\ main.schema = Schema

(* Between moving the file away and renaming the copy there is no file;    *)
(* what is copied is there.                                                *)
ScriptInv ==
  /\ ScriptRuns => backup # Absent
  /\ restore = "move" => main # Absent
  /\ restore \in {"move_wal", "copy", "rename"} => main = Absent
  /\ restore = "move_wal" => stamp \in DOMAIN moved

(* A log lies next to its own file, except that between the two moves it   *)
(* is the log of the file that was just moved.                             *)
Paired ==
  /\ main # Absent => main.id # Mixed
  /\ main # Absent /\ wal # Absent => wal.id = main.id
  /\ main = Absent /\ wal # Absent => restore = "move_wal"
  /\ restore = "move_wal" /\ wal # Absent => wal.id = moved[stamp].main.id

(* ... and until its own log comes, no other lies next to that file.       *)
MovedAlone == restore = "move_wal" => moved[stamp].wal = Absent

InDatabase == Opened(main, wal).commits
InMoved == UNION {Opened(moved[t].main, moved[t].wal).commits : t \in DOMAIN moved}
InMovingLog == IF restore = "move_wal" THEN LogCommits(wal) ELSE {}
Kept == committed \subseteq InDatabase \cup InMoved \cup InMovingLog

FileInv == /\ FileTypeOK /\ ServiceInv /\ ScriptInv
           /\ ~left => Paired
           /\ ~taken => MovedAlone
           /\ ~left /\ ~taken => Kept

-----------------------------------------------------------------------------
(* What SQLite reads *)

LEMMA FilesAreThere ==
  /\ \A d \in Databases : d # Absent
  /\ \A l \in Logs : l # Absent
<1>1. DOMAIN Absent = {}
  BY DEF Absent
<1>2. ASSUME NEW d \in Databases PROVE d # Absent
  <2>1. "id" \in DOMAIN d
    BY DEF Databases
  <2> QED
    BY <1>1, <2>1
<1>3. ASSUME NEW l \in Logs PROVE l # Absent
  <2>1. "id" \in DOMAIN l
    BY DEF Logs
  <2> QED
    BY <1>1, <2>1
<1> QED
  BY <1>2, <1>3

(* A file with any log next to it is opened as a database with its schema. *)
LEMMA OpenedFile ==
  ASSUME NEW file \in Databases, NEW log \in Logs \cup {Absent}
  PROVE  /\ Opened(file, log) \in Databases
         /\ Opened(file, log).schema = file.schema
         /\ log # Absent /\ log.id # file.id =>
              /\ Opened(file, log).id = Mixed
              /\ Opened(file, log).commits = file.commits
         /\ (log # Absent => log.id = file.id) =>
              /\ Opened(file, log).id = file.id
              /\ Opened(file, log).commits = file.commits \cup LogCommits(log)
<1>1. file # Absent
  BY FilesAreThere
<1>2. file = [id |-> file.id, schema |-> file.schema, commits |-> file.commits]
  BY DEF Databases
<1>3. file.id \in Ids /\ file.schema \in SUBSET Schema /\ file.commits \in CommitSets
  BY DEF Databases
<1>4. CASE log # Absent /\ log.id # file.id
  <2>1. Opened(file, log) = [file EXCEPT !.id = Mixed]
    BY <1>1, <1>4 DEF Opened
  <2>2. Opened(file, log) = [id |-> Mixed, schema |-> file.schema, commits |-> file.commits]
    BY <1>2, <2>1
  <2> QED
    BY <1>3, <1>4, <2>2 DEF Databases, Ids, Mixed
<1>5. CASE log # Absent => log.id = file.id
  <2>1. LogCommits(log) \in CommitSets
    BY DEF LogCommits, Logs, CommitSets
  <2>2. Opened(file, log) = [file EXCEPT !.commits = file.commits \cup LogCommits(log)]
    BY <1>1, <1>5 DEF Opened
  <2>3. Opened(file, log) = [id |-> file.id, schema |-> file.schema,
                            commits |-> file.commits \cup LogCommits(log)]
    BY <1>2, <2>2
  <2>4. file.commits \cup LogCommits(log) \in CommitSets
    BY <1>3, <2>1 DEF CommitSets
  <2> QED
    BY <1>3, <1>5, <2>3, <2>4 DEF Databases
<1> QED
  BY <1>4, <1>5

(* With an empty log, or without one, it is opened as it is. *)
LEMMA OpenedAlone ==
  ASSUME NEW file \in Databases
  PROVE  /\ Opened(file, Absent).commits = file.commits
         /\ Opened(file, Log(file.id, {})).commits = file.commits
<1> DEFINE log == Log(file.id, {})
<1>1. log \in Logs /\ log.id = file.id /\ log.commits = {}
  BY DEF Databases, Log, Logs, CommitSets
<1>2. LogCommits(log) = {} /\ LogCommits(Absent) = {}
  BY <1>1 DEF LogCommits
<1>3. Opened(file, log).commits = file.commits \cup LogCommits(log)
  <2> HIDE DEF log
  <2> QED
    BY <1>1, OpenedFile
<1>4. Opened(file, Absent).commits = file.commits \cup LogCommits(Absent)
  <2>1. Absent \in Logs \cup {Absent}
    OBVIOUS
  <2> QED
    BY <2>1, OpenedFile
<1> QED
  BY <1>2, <1>3, <1>4

LEMMA OpenedNew ==
  ASSUME NEW log
  PROVE  /\ Opened(Absent, log) = Database(New, {}, {})
         /\ Opened(Absent, log) \in Databases
         /\ Opened(Absent, log).commits = {}
         /\ Opened(Absent, log).id = New
  BY DEF Opened, Database, Databases, Ids, New, CommitSets

LEMMA MigrationHasThree == Len(Migration) = 3 /\ Schema = {Migration[1], Migration[2], Migration[3]}
<1>1. DOMAIN Migration = 1 .. 3 /\ Len(Migration) = 3
  BY DEF Migration
<1>2. 1 .. 3 = {1, 2, 3}
  OBVIOUS
<1> QED
  BY <1>1, <1>2 DEF Schema

-----------------------------------------------------------------------------
(* Every step keeps the invariant *)

LEMMA FileInvInit == FileInit => FileInv
<1> SUFFICES ASSUME FileInit PROVE FileInv
  OBVIOUS
<1>1. FileTypeOK
  <2>1. DOMAIN moved = {} /\ moved = [t \in {} |-> moved[t]]
    BY DEF FileInit
  <2>2. MovedOK
    BY <2>1 DEF MovedOK
  <2>3. service \in [pc : {"stopped", "migrating", "serving"}, done : 0 .. Len(Migration)]
    BY MigrationHasThree DEF FileInit
  <2> QED
    BY <2>2, <2>3 DEF FileInit, FileTypeOK, CommitSets, New
<1>2. ServiceInv /\ ScriptInv
  BY DEF FileInit, ServiceInv, ScriptInv, ScriptRuns
<1>3. Paired /\ MovedAlone /\ Kept
  BY DEF FileInit, Paired, MovedAlone, Kept
<1> QED
  BY <1>1, <1>2, <1>3 DEF FileInv

LEMMA FileTypeNext == FileInv /\ [FileNext]_fileVars => FileTypeOK'
<1> SUFFICES ASSUME FileInv, [FileNext]_fileVars PROVE FileTypeOK'
  OBVIOUS
<1> USE MigrationHasThree
<1>1. /\ main \in Databases \cup {Absent} /\ wal \in Logs \cup {Absent}
      /\ backup \in Databases \cup {Absent} /\ MovedOK
      /\ service \in [pc : {"stopped", "migrating", "serving"}, done : 0 .. 3]
      /\ restore \in {"no", "move", "move_wal", "copy", "rename", "done", "interrupted"}
      /\ made \in Nat /\ left \in BOOLEAN /\ taken \in BOOLEAN
      /\ committed \in CommitSets
  BY DEF FileInv, FileTypeOK
<1>2. Opened(main, wal) \in Databases
  BY <1>1, OpenedFile, OpenedNew
<1>3. main # Absent => main \in Databases /\ main.id \in Ids /\ Log(main.id, {}) \in Logs
  BY <1>1 DEF Databases, Log, Logs, CommitSets
<1>4. service.pc # "stopped" => main # Absent
  BY DEF FileInv, ServiceInv
<1>5. CASE Open
  BY <1>1, <1>2, <1>5 DEF Open, FileTypeOK, MovedOK, scriptVars
<1>6. CASE Migrate
  <2>1. main \in Databases /\ service.done \in 0 .. 2
    BY <1>1, <1>3, <1>4, <1>6 DEF Migrate
  <2>2. main' \in Databases
    <3>1. Migration[service.done + 1] \in Schema
      BY <2>1
    <3> QED
      BY <1>6, <2>1, <3>1 DEF Migrate, Databases
  <2>3. service' \in [pc : {"stopped", "migrating", "serving"}, done : 0 .. 3]
    BY <1>1, <1>6, <2>1 DEF Migrate
  <2> QED
    BY <1>1, <1>6, <2>2, <2>3 DEF Migrate, FileTypeOK, MovedOK, scriptVars
<1>7. CASE SetPragmas
  <2>1. wal' \in Logs
    BY <1>3, <1>4, <1>7 DEF SetPragmas
  <2> QED
    BY <1>1, <1>7, <2>1 DEF SetPragmas, FileTypeOK, MovedOK, scriptVars
<1>8. CASE CommitOne
  <2>1. wal \in Logs
    BY <1>1, <1>8 DEF CommitOne, FileInv, ServiceInv
  <2>2. PICK n \in 1 .. MaxCommits : /\ wal' = [wal EXCEPT !.commits = wal.commits \cup {n}]
                                     /\ committed' = committed \cup {n}
    BY <1>8 DEF CommitOne
  <2>3. wal' \in Logs /\ committed' \in CommitSets
    BY <1>1, <2>1, <2>2 DEF Logs, CommitSets
  <2> QED
    BY <1>1, <1>8, <2>3 DEF CommitOne, FileTypeOK, MovedOK, scriptVars
<1>9. CASE CheckpointLog
  BY <1>1, <1>2, <1>3, <1>4, <1>9 DEF CheckpointLog, FileTypeOK, MovedOK, scriptVars
<1>10. CASE Close
  BY <1>1, <1>2, <1>10 DEF Close, FileTypeOK, MovedOK, scriptVars
<1>11. CASE Kill
  BY <1>1, <1>11 DEF Kill, FileTypeOK, MovedOK, files, scriptVars
<1>12. CASE Backup
  <2>1. main' \in Databases \cup {Absent} /\ wal' \in Logs \cup {Absent} /\ backup' \in Databases
    BY <1>1, <1>2, <1>12 DEF Backup
  <2> QED
    BY <1>1, <1>12, <2>1 DEF Backup, FileTypeOK, MovedOK, scriptVars
<1>13. CASE RestoreBegins
  BY <1>1, <1>13 DEF RestoreBegins, FileTypeOK, MovedOK, files
<1>14. CASE MoveFile
  <2>1. main \in Databases
    BY <1>1, <1>14 DEF MoveFile, FileInv, ScriptInv
  <2>2. MovedOK'
    BY <1>1, <1>14, <2>1 DEF MoveFile, MovedOK, Pairs
  <2> QED
    BY <1>1, <1>14, <2>2 DEF MoveFile, FileTypeOK
<1>15. CASE MoveLog
  <2>1. stamp \in DOMAIN moved /\ moved[stamp] \in Pairs
    BY <1>1, <1>15 DEF MoveLog, FileInv, ScriptInv, MovedOK
  <2>2. [moved[stamp] EXCEPT !.wal = wal] \in Pairs
    BY <1>1, <2>1 DEF Pairs
  <2>3. \/ moved' = moved
        \/ moved' = [moved EXCEPT ![stamp] = [moved[stamp] EXCEPT !.wal = wal]]
    BY <1>15 DEF MoveLog
  <2>4. MovedOK'
    BY <1>1, <2>2, <2>3 DEF MovedOK
  <2> QED
    BY <1>1, <1>15, <2>4 DEF MoveLog, FileTypeOK
<1>16. CASE CopyBackup
  BY <1>1, <1>16 DEF CopyBackup, FileTypeOK, MovedOK, files
<1>17. CASE RenameCopy
  <2>1. main' \in Databases \cup {Absent}
    <3>1. backup \in Databases
      BY <1>1, <1>17 DEF RenameCopy, FileInv, ScriptInv, ScriptRuns
    <3> QED
      BY <1>1, <1>17, <3>1 DEF RenameCopy, Databases, Ids
  <2> QED
    BY <1>1, <1>17, <2>1 DEF RenameCopy, FileTypeOK, MovedOK
<1>18. CASE Interrupt
  <2>1. restore \in {"move", "move_wal", "copy", "rename"}
    BY <1>18 DEF Interrupt, ScriptRuns
  <2> QED
    BY <1>1, <1>18, <2>1 DEF Interrupt, FileTypeOK, MovedOK, files
<1>19. CASE MoveLogFails
  BY <1>1, <1>19 DEF MoveLogFails, FileTypeOK, MovedOK, files
<1>20. CASE SecondPasses \/ UNCHANGED fileVars
  BY <1>1, <1>20 DEF SecondPasses, FileTypeOK, MovedOK, fileVars, files, scriptVars
<1> QED
  BY <1>5, <1>6, <1>7, <1>8, <1>9, <1>10, <1>11, <1>12, <1>13, <1>14, <1>15, <1>16, <1>17,
     <1>18, <1>19, <1>20 DEF FileNext

(* What a step of the service finds: the opened database is a database.    *)
LEMMA OpenedTypes ==
  ASSUME FileTypeOK
  PROVE  /\ Opened(main, wal) \in Databases /\ Opened(main, wal) # Absent
         /\ main # Absent => Opened(main, wal).schema = main.schema
         /\ main # Absent => main \in Databases
         /\ wal # Absent => wal \in Logs
         /\ \A id, commits : Log(id, commits) # Absent
         /\ \A id, commits : Log(id, commits).id = id /\ LogCommits(Log(id, commits)) = commits
<1>1. main \in Databases \cup {Absent} /\ wal \in Logs \cup {Absent}
  BY DEF FileTypeOK
<1>2. ASSUME NEW id, NEW commits PROVE Log(id, commits) # Absent
  <2>1. "id" \in DOMAIN Log(id, commits) /\ DOMAIN Absent = {}
    BY DEF Log, Absent
  <2> QED
    BY <2>1
<1>3. Opened(main, wal) \in Databases
  BY <1>1, OpenedFile, OpenedNew
<1>4. main # Absent => Opened(main, wal).schema = main.schema
  BY <1>1, OpenedFile
<1>5. \A id, commits : Log(id, commits).id = id /\ LogCommits(Log(id, commits)) = commits
  BY <1>2 DEF Log, LogCommits
<1> QED
  BY <1>1, <1>2, <1>3, <1>4, <1>5, FilesAreThere

LEMMA ServiceNext == FileInv /\ [FileNext]_fileVars => ServiceInv' /\ ScriptInv'
<1> SUFFICES ASSUME FileInv, [FileNext]_fileVars PROVE ServiceInv' /\ ScriptInv'
  OBVIOUS
<1>1. FileTypeOK /\ ServiceInv /\ ScriptInv
  BY DEF FileInv
<1>2. /\ Opened(main, wal) \in Databases /\ Opened(main, wal) # Absent
      /\ main # Absent => Opened(main, wal).schema = main.schema
      /\ main # Absent => main \in Databases
      /\ \A id, commits : Log(id, commits) # Absent /\ Log(id, commits).id = id
  BY <1>1, OpenedTypes
<1>3. CASE Open
  BY <1>1, <1>2, <1>3 DEF Open, files, scriptVars, ServiceInv, ScriptInv, ScriptRuns
<1>4. CASE Migrate
  <2>1. main \in Databases /\ service.done \in Nat /\ service.pc = "migrating"
    BY <1>1, <1>2, <1>4 DEF Migrate, ServiceInv, FileTypeOK
  <2>2. /\ main' # Absent
        /\ main'.schema = main.schema \cup {Migration[service.done + 1]}
    <3>1. main' = [main EXCEPT !.schema = main.schema \cup {Migration[service.done + 1]}]
      BY <1>4 DEF Migrate
    <3>2. "id" \in DOMAIN main' /\ DOMAIN Absent = {}
      BY <2>1, <3>1 DEF Databases, Absent
    <3>3. main'.schema = main.schema \cup {Migration[service.done + 1]}
      BY <2>1, <3>1 DEF Databases
    <3> QED
      BY <3>2, <3>3
  <2>3. service'.pc = "migrating" /\ service'.done = service.done + 1
    BY <1>1, <1>4, <2>1 DEF Migrate, FileTypeOK
  <2>4. \A i \in 1 .. service'.done : Migration[i] \in main'.schema
    <3>1. \A i \in 1 .. service.done + 1 : i \in 1 .. service.done \/ i = service.done + 1
      BY <2>1
    <3> QED
      BY <1>1, <2>1, <2>2, <2>3, <3>1 DEF ServiceInv
  <2> QED
    BY <1>1, <1>4, <2>1, <2>2, <2>3, <2>4 DEF Migrate, scriptVars, ServiceInv, ScriptInv, ScriptRuns
<1>5. CASE SetPragmas
  <2>1. main \in Databases
    BY <1>1, <1>2, <1>5 DEF SetPragmas, ServiceInv
  <2>2. main.schema = Schema
    <3>1. \A i \in 1 .. 3 : Migration[i] \in main.schema
      BY <1>1, <1>5, MigrationHasThree DEF SetPragmas, ServiceInv
    <3>2. Schema \subseteq main.schema
      BY <3>1, MigrationHasThree
    <3> QED
      BY <2>1, <3>2 DEF Databases
  <2>3. service'.pc = "serving"
    BY <1>1, <1>5 DEF SetPragmas, FileTypeOK
  <2>4. wal' # Absent /\ wal'.id = main.id
    BY <1>2, <1>5 DEF SetPragmas
  <2> QED
    BY <1>1, <1>5, <2>2, <2>3, <2>4 DEF SetPragmas, scriptVars, ServiceInv, ScriptInv, ScriptRuns
<1>6. CASE CommitOne
  <2>1. wal \in Logs
    BY <1>1, <1>6 DEF CommitOne, ServiceInv, FileTypeOK
  <2>2. wal' # Absent /\ wal'.id = wal.id
    <3>1. PICK n : wal' = [wal EXCEPT !.commits = wal.commits \cup {n}]
      BY <1>6 DEF CommitOne
    <3>2. "id" \in DOMAIN wal' /\ DOMAIN Absent = {}
      BY <2>1, <3>1 DEF Logs, Absent
    <3> QED
      BY <2>1, <3>1, <3>2 DEF Logs
  <2> QED
    BY <1>1, <1>6, <2>2 DEF CommitOne, scriptVars, ServiceInv, ScriptInv, ScriptRuns
<1>7. CASE CheckpointLog
  <2>1. main \in Databases /\ wal \in Logs /\ wal.id = main.id /\ wal # Absent
    BY <1>1, <1>2, <1>7 DEF CheckpointLog, ServiceInv, FileTypeOK
  <2>2. main'.id = main.id /\ main' # Absent /\ main'.schema = main.schema
    BY <1>2, <1>7, <2>1, OpenedFile DEF CheckpointLog
  <2>3. wal' # Absent /\ wal'.id = main.id
    BY <1>2, <1>7 DEF CheckpointLog
  <2> QED
    BY <1>1, <1>7, <2>2, <2>3 DEF CheckpointLog, scriptVars, ServiceInv, ScriptInv, ScriptRuns
<1>8. CASE Close
  BY <1>1, <1>2, <1>8 DEF Close, scriptVars, ServiceInv, ScriptInv, ScriptRuns
<1>9. CASE Kill
  BY <1>1, <1>9 DEF Kill, files, scriptVars, ServiceInv, ScriptInv, ScriptRuns
<1>10. CASE Backup
  BY <1>1, <1>2, <1>10 DEF Backup, scriptVars, ServiceInv, ScriptInv, ScriptRuns
<1>11. CASE RestoreBegins
  BY <1>1, <1>11 DEF RestoreBegins, files, ServiceInv, ScriptInv, ScriptRuns
<1>12. CASE MoveFile
  BY <1>1, <1>12 DEF MoveFile, ServiceInv, ScriptInv, ScriptRuns
<1>13. CASE MoveLog
  BY <1>1, <1>13 DEF MoveLog, ServiceInv, ScriptInv, ScriptRuns
<1>14. CASE CopyBackup
  BY <1>1, <1>14 DEF CopyBackup, files, ServiceInv, ScriptInv, ScriptRuns
<1>15. CASE RenameCopy
  BY <1>1, <1>15 DEF RenameCopy, ServiceInv, ScriptInv, ScriptRuns
<1>16. CASE Interrupt
  BY <1>1, <1>16 DEF Interrupt, files, ServiceInv, ScriptInv, ScriptRuns
<1>17. CASE MoveLogFails
  BY <1>1, <1>17 DEF MoveLogFails, files, ServiceInv, ScriptInv, ScriptRuns
<1>18. CASE SecondPasses \/ UNCHANGED fileVars
  BY <1>1, <1>18 DEF SecondPasses, fileVars, files, scriptVars, ServiceInv, ScriptInv, ScriptRuns
<1> QED
  BY <1>3, <1>4, <1>5, <1>6, <1>7, <1>8, <1>9, <1>10, <1>11, <1>12, <1>13, <1>14, <1>15,
     <1>16, <1>17, <1>18 DEF FileNext

(* What happened has happened. *)
LEMMA HistoryGrows ==
  ASSUME FileTypeOK, [FileNext]_fileVars
  PROVE  (~left' => ~left) /\ (~taken' => ~taken)
<1>1. left \in BOOLEAN /\ taken \in BOOLEAN
  BY DEF FileTypeOK
<1>2. CASE MoveFile
  BY <1>2 DEF MoveFile
<1>3. CASE Interrupt
  BY <1>3 DEF Interrupt
<1>4. CASE MoveLogFails
  BY <1>4 DEF MoveLogFails
<1>5. CASE ~MoveFile /\ ~Interrupt /\ ~MoveLogFails
  <2>1. UNCHANGED <<left, taken>>
    BY <1>5 DEF FileNext, Open, Migrate, SetPragmas, CommitOne, CheckpointLog, Close, Kill, Backup,
           RestoreBegins, MoveLog, CopyBackup, RenameCopy, SecondPasses, fileVars, scriptVars
  <2> QED
    BY <2>1
<1> QED
  BY <1>2, <1>3, <1>4, <1>5

LEMMA MovedAloneNext ==
  ASSUME FileInv, [FileNext]_fileVars, ~taken'
  PROVE  MovedAlone'
<1>1. FileTypeOK /\ MovedAlone
  BY HistoryGrows DEF FileInv
<1>2. CASE MoveFile
  BY <1>2 DEF MoveFile, MovedAlone
<1>3. CASE MoveLog
  BY <1>3 DEF MoveLog, MovedAlone
<1>4. CASE ~MoveFile /\ ~MoveLog
  <2>1. \/ restore' # "move_wal"
        \/ UNCHANGED <<restore, stamp, moved>>
    BY <1>4 DEF FileNext, Open, Migrate, SetPragmas, CommitOne, CheckpointLog, Close, Kill, Backup,
           RestoreBegins, MoveLogFails, CopyBackup, RenameCopy, Interrupt, SecondPasses,
           fileVars, files, scriptVars
  <2> QED
    BY <1>1, <2>1 DEF MovedAlone
<1> QED
  BY <1>2, <1>3, <1>4

LEMMA PairedNext ==
  ASSUME FileInv, [FileNext]_fileVars, ~left'
  PROVE  Paired'
<1>1. FileTypeOK /\ ServiceInv /\ ScriptInv /\ Paired
  BY HistoryGrows DEF FileInv
<1>2. /\ Opened(main, wal) \in Databases /\ Opened(main, wal) # Absent
      /\ main # Absent => main \in Databases
      /\ \A id, commits : Log(id, commits) # Absent /\ Log(id, commits).id = id
  BY <1>1, OpenedTypes
<1>3. main # Absent => Opened(main, wal).id = main.id /\ Opened(main, wal).id # Mixed
  BY <1>1, <1>2, OpenedFile DEF Paired, FileTypeOK
<1>4. main = Absent => Opened(main, wal).id = New
  BY OpenedNew
<1>5. CASE Open
  BY <1>1, <1>2, <1>3, <1>4, <1>5 DEF Open, scriptVars, Paired, ScriptRuns, New, Mixed
<1>6. CASE Migrate
  <2>1. main \in Databases /\ wal = Absent
    BY <1>1, <1>2, <1>6 DEF Migrate, ServiceInv
  <2>2. main'.id = main.id
    BY <1>6, <2>1 DEF Migrate, Databases
  <2> QED
    BY <1>1, <1>6, <2>1, <2>2, FilesAreThere DEF Migrate, scriptVars, Paired, ServiceInv, ScriptRuns
<1>7. CASE SetPragmas
  BY <1>1, <1>2, <1>7 DEF SetPragmas, scriptVars, Paired, ServiceInv, ScriptRuns
<1>8. CASE CommitOne
  <2>1. wal \in Logs
    BY <1>1, <1>8 DEF CommitOne, ServiceInv, FileTypeOK
  <2>2. wal'.id = wal.id
    BY <1>8, <2>1 DEF CommitOne, Logs
  <2> QED
    BY <1>1, <1>8, <2>2 DEF CommitOne, scriptVars, Paired, ServiceInv, ScriptRuns
<1>9. CASE CheckpointLog
  BY <1>1, <1>2, <1>3, <1>9 DEF CheckpointLog, scriptVars, Paired, ServiceInv, ScriptRuns
<1>10. CASE Close
  BY <1>1, <1>2, <1>3, <1>10 DEF Close, scriptVars, Paired, ServiceInv, ScriptRuns
<1>11. CASE Kill
  BY <1>1, <1>11 DEF Kill, files, scriptVars, Paired
<1>12. CASE Backup
  BY <1>1, <1>2, <1>3, <1>12 DEF Backup, scriptVars, Paired, ScriptRuns
<1>13. CASE RestoreBegins
  BY <1>1, <1>13 DEF RestoreBegins, files, Paired
<1>14. CASE MoveFile
  <2>1. main # Absent
    BY <1>1, <1>14 DEF MoveFile, ScriptInv
  <2>2. moved'[stamp'].main = main
    BY <1>14 DEF MoveFile
  <2> QED
    BY <1>1, <1>14, <2>1, <2>2 DEF MoveFile, Paired
<1>15. CASE MoveLog
  BY <1>1, <1>15 DEF MoveLog, Paired, ScriptInv
<1>16. CASE CopyBackup
  BY <1>1, <1>16 DEF CopyBackup, files, Paired
<1>17. CASE RenameCopy
  <2>1. backup \in Databases
    BY <1>1, <1>17 DEF RenameCopy, ScriptInv, ScriptRuns, FileTypeOK
  <2>2. main'.id # Mixed
    BY <1>1, <1>17, <2>1 DEF RenameCopy, Databases, FileTypeOK, Mixed
  <2>3. wal' = Absent
    BY <1>1, <1>17 DEF RenameCopy, ScriptInv, Paired
  <2> QED
    BY <1>17, <2>2, <2>3 DEF RenameCopy, Paired
<1>18. CASE Interrupt
  <2>1. restore # "move_wal" \/ wal = Absent
    BY <1>18 DEF Interrupt
  <2> QED
    BY <1>1, <1>18, <2>1 DEF Interrupt, files, Paired
<1>19. CASE MoveLogFails
  BY <1>19 DEF MoveLogFails
<1>20. CASE SecondPasses \/ UNCHANGED fileVars
  BY <1>1, <1>20 DEF SecondPasses, fileVars, files, scriptVars, Paired
<1> QED
  BY <1>5, <1>6, <1>7, <1>8, <1>9, <1>10, <1>11, <1>12, <1>13, <1>14, <1>15, <1>16, <1>17,
     <1>18, <1>19, <1>20 DEF FileNext

(* A step that keeps the tables where they are keeps what they hold. *)
LEMMA KeptWhen ==
  ASSUME Kept, committed' = committed, moved' = moved,
         InMovingLog = {}, InDatabase \subseteq InDatabase'
  PROVE  Kept'
<1>1. InMoved' = InMoved
  BY DEF InMoved
<1> QED
  BY <1>1 DEF Kept

LEMMA KeptNext ==
  ASSUME FileInv, [FileNext]_fileVars, ~left', ~taken'
  PROVE  Kept'
<1>1. FileTypeOK /\ ServiceInv /\ ScriptInv /\ Paired /\ MovedAlone /\ Kept
  BY HistoryGrows DEF FileInv
<1> DEFINE opened == Opened(main, wal)
<1>2. /\ opened \in Databases
      /\ main # Absent => main \in Databases
      /\ wal # Absent => wal \in Logs
      /\ \A id, commits : /\ Log(id, commits).id = id
                          /\ LogCommits(Log(id, commits)) = commits
  BY <1>1, OpenedTypes
<1>3. main # Absent => /\ opened.id = main.id
                       /\ opened.commits = main.commits \cup LogCommits(wal)
  BY <1>1, <1>2, OpenedFile DEF Paired, FileTypeOK
<1>4. /\ Absent \in Logs \cup {Absent} /\ LogCommits(Absent) = {}
      /\ \A d \in Databases : /\ Opened(d, Absent).commits = d.commits
                              /\ Opened(d, Log(d.id, {})).commits = d.commits
  BY OpenedAlone DEF LogCommits
<1>5. ~ScriptRuns \/ restore # "move_wal" => InMovingLog = {}
  BY DEF InMovingLog, ScriptRuns
<1>6. CASE Open
  <2>1. InDatabase' = InDatabase
    BY <1>2, <1>4, <1>6 DEF Open, InDatabase
  <2> QED
    BY <1>1, <1>5, <1>6, <2>1, KeptWhen DEF Open
<1>7. CASE Migrate
  <2>1. main \in Databases /\ wal = Absent /\ ~ScriptRuns
    BY <1>1, <1>2, <1>7 DEF Migrate, ServiceInv
  <2>2. service.done + 1 \in 1 .. 3
    BY <1>1, <1>7, MigrationHasThree DEF Migrate, FileTypeOK
  <2>3. main' \in Databases /\ main'.commits = main.commits
    <3>1. Migration[service.done + 1] \in Schema
      BY <2>2, MigrationHasThree
    <3> QED
      BY <1>7, <2>1, <3>1 DEF Migrate, Databases
  <2>4. InDatabase' = InDatabase
    BY <1>4, <1>7, <2>1, <2>3 DEF Migrate, InDatabase
  <2> QED
    BY <1>1, <1>5, <1>7, <2>1, <2>4, KeptWhen DEF Migrate
<1>8. CASE SetPragmas
  <2>1. main \in Databases /\ wal = Absent /\ ~ScriptRuns
    BY <1>1, <1>2, <1>8 DEF SetPragmas, ServiceInv
  <2>2. InDatabase' = InDatabase
    BY <1>4, <1>8, <2>1 DEF SetPragmas, InDatabase
  <2> QED
    BY <1>1, <1>5, <1>8, <2>1, <2>2, KeptWhen DEF SetPragmas
<1>9. CASE CommitOne
  <2>1. /\ main \in Databases /\ main # Absent /\ wal \in Logs /\ wal # Absent
        /\ wal.id = main.id /\ ~ScriptRuns
    BY <1>1, <1>2, <1>9 DEF CommitOne, ServiceInv
  <2>2. PICK n \in 1 .. MaxCommits : /\ wal' = [wal EXCEPT !.commits = wal.commits \cup {n}]
                                     /\ committed' = committed \cup {n}
    BY <1>9 DEF CommitOne
  <2>3. wal' \in Logs /\ wal'.id = wal.id /\ wal'.commits = wal.commits \cup {n}
    BY <2>1, <2>2 DEF Logs, CommitSets
  <2>4. wal' # Absent
    BY <2>3, FilesAreThere
  <2>5. InDatabase' = main.commits \cup wal.commits \cup {n}
    <3>1. Opened(main, wal').commits = main.commits \cup LogCommits(wal')
      BY <2>1, <2>3, OpenedFile
    <3>2. main' = main
      BY <1>9 DEF CommitOne
    <3> QED
      BY <2>3, <2>4, <3>1, <3>2 DEF InDatabase, LogCommits
  <2>6. InDatabase = main.commits \cup wal.commits
    BY <1>3, <2>1 DEF InDatabase, LogCommits
  <2>7. moved' = moved
    BY <1>9 DEF CommitOne
  <2>8. InMoved' = InMoved
    BY <2>7 DEF InMoved
  <2> QED
    BY <1>1, <1>5, <2>1, <2>2, <2>5, <2>6, <2>8 DEF Kept
<1>10. CASE CheckpointLog
  <2>1. main \in Databases /\ main # Absent /\ ~ScriptRuns
    BY <1>1, <1>2, <1>10 DEF CheckpointLog, ServiceInv
  <2>2. main' = opened /\ wal' = Log(opened.id, {})
    BY <1>3, <1>10, <2>1 DEF CheckpointLog
  <2>3. InDatabase' = InDatabase
    <3>1. Opened(opened, Log(opened.id, {})).commits = opened.commits
      BY <1>2, <1>4
    <3> HIDE DEF opened
    <3>2. InDatabase' = opened.commits
      BY <2>2, <3>1 DEF InDatabase
    <3> QED
      BY <3>2 DEF opened, InDatabase
  <2> QED
    BY <1>1, <1>5, <1>10, <2>1, <2>3, KeptWhen DEF CheckpointLog
<1>11. CASE Close
  <2>1. ~ScriptRuns
    BY <1>1, <1>11 DEF Close, ServiceInv
  <2>2. InDatabase' = InDatabase
    BY <1>2, <1>4, <1>11 DEF Close, InDatabase
  <2> QED
    BY <1>1, <1>5, <1>11, <2>1, <2>2, KeptWhen DEF Close
<1>12. CASE Kill
  BY <1>1, <1>12 DEF Kill, files, scriptVars, Kept, InDatabase, InMoved, InMovingLog
<1>13. CASE Backup
  <2>1. InDatabase' = InDatabase
    BY <1>2, <1>4, <1>13 DEF Backup, InDatabase
  <2> QED
    BY <1>1, <1>5, <1>13, <2>1, KeptWhen DEF Backup
<1>14. CASE RestoreBegins
  <2>1. InDatabase' = InDatabase
    BY <1>14 DEF RestoreBegins, files, InDatabase
  <2> QED
    BY <1>1, <1>5, <1>14, <2>1, KeptWhen DEF RestoreBegins, files
<1>15. CASE MoveFile
  <2>1. main \in Databases /\ main # Absent
    BY <1>1, <1>2, <1>15 DEF MoveFile, ScriptInv
  <2>2. /\ wal' = wal /\ committed' = committed /\ now \notin DOMAIN moved
        /\ main' = Absent /\ restore = "move" /\ restore' = "move_wal"
        /\ moved' = [t \in DOMAIN moved \cup {now} |->
                       IF t = now THEN [main |-> main, wal |-> Absent] ELSE moved[t]]
    BY <1>15 DEF MoveFile
  <2>3. /\ DOMAIN moved' = DOMAIN moved \cup {now}
        /\ \A t \in DOMAIN moved : moved'[t] = moved[t]
        /\ moved'[now].main = main /\ moved'[now].wal = Absent
    BY <2>2
  <2>4. InMoved \subseteq InMoved'
    BY <2>3 DEF InMoved
  <2>5. main.commits \subseteq InMoved'
    <3>1. Opened(main, Absent).commits = main.commits
      BY <1>4, <2>1
    <3> QED
      BY <2>3, <3>1 DEF InMoved
  <2>6. InDatabase = main.commits \cup LogCommits(wal)
    BY <1>3, <2>1 DEF InDatabase
  <2>7. InMovingLog' = LogCommits(wal) /\ InMovingLog = {}
    BY <2>2 DEF InMovingLog
  <2> QED
    BY <1>1, <2>2, <2>4, <2>5, <2>6, <2>7 DEF Kept
<1>16. CASE MoveLog
  <2> DEFINE file == moved[stamp].main
  <2>1. /\ restore = "move_wal" /\ restore' = "copy" /\ main = Absent /\ committed' = committed
        /\ moved' = IF wal = Absent THEN moved ELSE [moved EXCEPT ![stamp].wal = wal]
    BY <1>1, <1>16 DEF MoveLog, ScriptInv
  <2>2. /\ stamp \in DOMAIN moved /\ moved[stamp] \in Pairs /\ moved[stamp].wal = Absent
        /\ wal # Absent => wal.id = file.id
    BY <1>1, <2>1 DEF ScriptInv, MovedAlone, Paired, FileTypeOK, MovedOK
  <2>3. file \in Databases /\ wal \in Logs \cup {Absent}
    BY <1>1, <2>2 DEF Pairs, FileTypeOK
  <2>4. /\ DOMAIN moved' = DOMAIN moved
        /\ \A t \in DOMAIN moved : t # stamp => moved'[t] = moved[t]
        /\ moved'[stamp].main = file /\ moved'[stamp].wal = wal
    <3>1. CASE wal = Absent
      BY <2>1, <2>2, <3>1
    <3>2. CASE wal # Absent
      <4>1. moved' = [moved EXCEPT ![stamp] = [moved[stamp] EXCEPT !.wal = wal]]
        BY <2>1, <3>2
      <4> QED
        BY <2>2, <4>1 DEF Pairs
    <3> QED
      BY <3>1, <3>2
  <2> HIDE DEF file
  <2>5. /\ Opened(file, Absent).commits = file.commits
        /\ Opened(file, wal).commits = file.commits \cup LogCommits(wal)
    BY <1>4, <2>2, <2>3, OpenedFile
  <2>6. InMoved \cup LogCommits(wal) \subseteq InMoved'
    <3>1. Opened(moved[stamp].main, moved[stamp].wal).commits = file.commits
      BY <2>2, <2>5 DEF file
    <3>2. Opened(moved'[stamp].main, moved'[stamp].wal).commits = file.commits \cup LogCommits(wal)
      BY <2>4, <2>5
    <3>3. \A t \in DOMAIN moved : Opened(moved[t].main, moved[t].wal).commits
                                   \subseteq Opened(moved'[t].main, moved'[t].wal).commits
      BY <2>4, <3>1, <3>2
    <3>4. InMoved \subseteq InMoved'
      BY <2>4, <3>3 DEF InMoved
    <3>5. LogCommits(wal) \subseteq InMoved'
      BY <2>2, <2>4, <3>2 DEF InMoved
    <3> QED
      BY <3>4, <3>5
  <2>7. InDatabase = {} /\ InMovingLog = LogCommits(wal)
    BY <2>1, OpenedNew DEF InDatabase, InMovingLog
  <2> QED
    BY <1>1, <2>1, <2>6, <2>7 DEF Kept
<1>17. CASE CopyBackup
  <2>1. InDatabase' = InDatabase
    BY <1>17 DEF CopyBackup, files, InDatabase
  <2> QED
    BY <1>1, <1>5, <1>17, <2>1, KeptWhen DEF CopyBackup, files
<1>18. CASE RenameCopy
  <2>1. InDatabase = {}
    BY <1>1, <1>18, OpenedNew DEF RenameCopy, ScriptInv, InDatabase
  <2> QED
    BY <1>1, <1>5, <1>18, <2>1, KeptWhen DEF RenameCopy
<1>19. CASE Interrupt
  <2>1. restore # "move_wal" \/ wal = Absent
    BY <1>19 DEF Interrupt
  <2>2. InDatabase' = InDatabase /\ InMovingLog = {}
    BY <1>19, <2>1 DEF Interrupt, files, InDatabase, InMovingLog, LogCommits
  <2> QED
    BY <1>1, <1>19, <2>2, KeptWhen DEF Interrupt, files
<1>20. CASE MoveLogFails
  BY <1>20 DEF MoveLogFails
<1>21. CASE SecondPasses \/ UNCHANGED fileVars
  BY <1>1, <1>21 DEF SecondPasses, fileVars, files, scriptVars, Kept, InDatabase, InMoved, InMovingLog
<1> QED
  BY <1>6, <1>7, <1>8, <1>9, <1>10, <1>11, <1>12, <1>13, <1>14, <1>15, <1>16, <1>17,
     <1>18, <1>19, <1>20, <1>21 DEF FileNext

LEMMA FileInvariant == FileSpec => []FileInv
<1>1. FileInit => FileInv
  BY FileInvInit
<1>2. FileInv /\ [FileNext]_fileVars => FileInv'
  BY FileTypeNext, ServiceNext, PairedNext, MovedAloneNext, KeptNext DEF FileInv
<1> QED
  BY <1>1, <1>2, PTL DEF FileSpec

-----------------------------------------------------------------------------
(* Theorems *)

(* A server that listens has the whole schema, whatever was killed during  *)
(* a migration or restored before (sqlite.rs:10-24).                       *)
THEOREM WholeSchemaServed == FileSpec => []ServesWholeSchema
<1>1. FileInv => ServesWholeSchema
  BY DEF FileInv, ServiceInv, ServesWholeSchema
<1> QED
  BY <1>1, FileInvariant, PTL

(* A restore leaves the backup and nothing of the database before, unless  *)
(* a log was left there: the script was interrupted between its two moves, *)
(* or passed over the failure of the second (restore_sqlite.sh:42-57).     *)
THEOREM RestoreReplaces == FileSpec => []RestoreReplacesTheDatabase
<1>1. FileInv => RestoreReplacesTheDatabase
  <2> SUFFICES ASSUME FileInv, ~left PROVE Opened(main, wal).id # Mixed
    BY DEF RestoreReplacesTheDatabase
  <2>1. FileTypeOK /\ Paired
    BY DEF FileInv
  <2>2. CASE main = Absent
    BY <2>2, OpenedNew DEF New, Mixed
  <2>3. CASE main # Absent
    BY <2>1, <2>3, OpenedFile DEF Paired, FileTypeOK
  <2> QED
    BY <2>2, <2>3
<1> QED
  BY <1>1, FileInvariant, PTL

(* What the service committed is in the database, or in one the script     *)
(* moved aside with its log, unless a log was left, or two databases were  *)
(* moved aside within one second (restore_sqlite.sh:42-45).                *)
THEOREM CommitsAreNeverLost == FileSpec => []CommitsAreKept
<1>1. FileInv => CommitsAreKept
  BY DEF FileInv, Kept, InDatabase, InMoved, InMovingLog, ScriptRuns, CommitsAreKept
<1> QED
  BY <1>1, FileInvariant, PTL
==============================================================================
