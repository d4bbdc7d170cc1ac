------------------------------ MODULE Database ------------------------------
(***************************************************************************)
(* The database of an engine (nxdrive/drive/dao/base.py, dao/utils.py,     *)
(* dao/migrations): how it is opened, repaired, restored from a backup and *)
(* upgraded when the application starts, what is written and backed up     *)
(* while it runs, and what a crash or a damaged file leaves.               *)
(*                                                                         *)
(* A content is the version SQLite keeps (user), the one old releases kept *)
(* in the table Configuration (conf), the version the tables really have   *)
(* (schema) and the rows; what is written goes first to the write-ahead    *)
(* log, which is a file of its own.  Rows are numbered in the order SQLite *)
(* lists them.  MaxKills, MaxDamages, MaxDays and MaxBackups bound what    *)
(* may happen.                                                             *)
(***************************************************************************)
EXTENDS Nil, Integers, Sequences, FiniteSetsExt

CONSTANTS Uploads, Downloads, Types, \* rows: transfers, types of documents; any other is just a row
          Contents,                          \* what the file may hold at first
          Written,                           \* rows the engine may write
          App,                               \* the version of versions_history for this release, None without
          MaxKills, MaxDamages, MaxDays, MaxBackups

VARIABLES main, wal, orig, dump, backups, \* the files
          stage, exists,                     \* where the start is; is there something to upgrade
          saved, secured,                 \* rows written and not lost for a reason; those of the last backup
          kills, damages, days, losses

databaseVars == <<main, wal, orig, dump, backups, stage, exists, saved, secured, kills, damages, days, losses>>
files == <<main, wal, orig, dump, backups>>

Latest == 24           \* the last migration
OldLatest == 21        \* EngineDAO.old_migrations_max_schema_version
Unset == -1
Healths == {"ok", "malformed", "dead"}
Tables == [user : Int, conf : Int \cup {None}, schema : Int, rows : SUBSET Nat]
DbFiles == [health : Healths, content : Tables]

\* What a release has left, in the order of the releases: nothing yet; tables without a version,
\* which have no transfers; the version in Configuration, and no types of documents before the
\* fourth; the version in user_version, and Configuration as it was; or a dump of the last.
Unversioned(c) == c.user = 0 /\ c.conf = Unset
Coherent(c) ==
    \/ c.user = 0 /\ c.conf = None /\ c.schema = 0
    \/ Unversioned(c) /\ c.schema < 4
    \/ /\ c.conf \in 1..OldLatest - 1 /\ c.user \in {0, c.conf} /\ c.schema = c.conf
       /\ c.conf < 4 => c.rows \cap Types = {}
    \/ c.user >= OldLatest /\ c.schema = c.user /\ c.conf \in {Unset} \cup OldLatest..Latest
    \/ c.user = 0 /\ c.conf \in OldLatest + 1..Latest
Young(c) == Unversioned(c) => c.rows \cap (Types \cup Uploads \cup Downloads) = {}

ASSUME RowAssumption == Uploads \cup Downloads \cup Types \cup Written \subseteq Nat
ASSUME ContentAssumption == \A c \in Contents : c \in Tables /\ Coherent(c) /\ Young(c)
ASSUME AppAssumption == App # None => App \in Nat /\ App >= Latest
ASSUME AbsentAssumption == None \notin Int /\ None \notin Tables /\ None \notin DbFiles

Empty == [user |-> 0, conf |-> None, schema |-> 0, rows |-> {}]
File(health, content) == [health |-> health, content |-> content]
Present == main # None
Readable == Present /\ main.health # "dead"
Held == IF Readable THEN main.content.rows \cup wal ELSE {}
\* Without a reading error SQLite folds the log into the file when the last connection is closed.
Folded == File(main.health, [main.content EXCEPT !.rows = @ \cup wal])

DatabaseInit == /\ \E c \in Contents : main = File("ok", c) /\ saved = c.rows
                /\ wal = {} /\ orig = None /\ dump = None /\ backups = <<>>
                /\ stage = "off" /\ exists = TRUE
                /\ secured = {} /\ kills = 0 /\ damages = 0 /\ days = 0 /\ losses = {}

----------------------------------------------------------------------------
(* Starting: the file is checked, and repaired, restored or created.       *)

\* fix_db: nothing to repair, or nothing there.
Sound == /\ stage = "off"
         /\ Present => main.health = "ok"
         /\ IF Present THEN main' = Folded /\ wal' = {} ELSE UNCHANGED <<main, wal>>
         /\ exists' = Present /\ stage' = "connect"
         /\ UNCHANGED <<orig, dump, backups, saved, secured, kills, damages, days, losses>>

\* fix_db: the damaged file can be read; it is dumped, copied and removed.  Writing the dump
\* or the copy may fail, then the damaged file is used.
Dump == /\ stage = "off" /\ Present /\ main.health = "malformed"
        /\ wal' = {} /\ exists' = TRUE
        /\ \/ /\ dump' = Folded.content /\ orig' = Folded /\ main' = None /\ stage' = "read"
           \/ main' = Folded /\ stage' = "connect" /\ UNCHANGED <<dump, orig>>
        /\ UNCHANGED <<backups, saved, secured, kills, damages, days, losses>>

\* read: a dump has neither the version nor the log.
Read == /\ stage = "read"
        /\ main' = File("ok", [dump EXCEPT !.user = 0])
        /\ losses' = IF dump.conf \in {Unset, OldLatest} THEN losses \cup {"undumped"} ELSE losses
        /\ orig' = None /\ dump' = None /\ stage' = "connect"
        /\ UNCHANGED <<wal, backups, exists, saved, secured, kills, damages, days>>

\* The database cannot be written: connecting has already created the file, so that the
\* copy does not come back.
ReadFails == /\ stage = "read"
             /\ main' = File("ok", Empty) /\ dump' = None /\ stage' = "connect"
             /\ losses' = losses \cup {"half"}
             /\ UNCHANGED <<wal, orig, backups, exists, saved, secured, kills, damages, days>>

Newest == Len(backups)

\* BaseDAO.__init__: the file cannot be read at all; restore_backup removes it.
Unrecoverable ==
    /\ stage = "off" /\ Present /\ main.health \in {"dead", "malformed"}
    /\ main' = None /\ exists' = (backups # <<>>)
    /\ stage' = IF backups = <<>> THEN "connect" ELSE "restore"
    /\ saved' = secured
    /\ UNCHANGED <<wal, orig, dump, backups, secured, kills, damages, days, losses>>

\* restore_backup: the latest copy; the log of the removed file is still there, and is
\* recovered into a file it was not written for.
RestoreIf(pick) ==
    /\ stage = "restore"
    /\ LET b == backups[pick] IN
       /\ \/ main' = b.file
          \/ wal # {} /\ b.file.health = "ok" /\ main' = File("malformed", b.file.content)
       /\ losses' = losses \cup (IF b.missing # {} THEN {"unflushed"} ELSE {})
                     \cup (IF b.file.health = "dead" THEN {"torn"} ELSE {})
    /\ stage' = "connect"
    /\ UNCHANGED <<wal, orig, dump, backups, exists, saved, secured, kills, damages, days>>
RestoreMutant == RestoreIf(1)    \* the oldest copy: mutant
Restore == RestoreIf(Newest)

\* The copy fails (no space left): the exception ends the start, the file is gone.
RestoreFails == /\ stage = "restore" /\ stage' = "off" /\ losses' = losses \cup {"removed"}
                /\ UNCHANGED <<files, exists, saved, secured, kills, damages, days>>

----------------------------------------------------------------------------
(* The version of the database, and its migrations, in one transaction.    *)

GetSchemaVersionIf(old, c) == IF c.user # 0 \/ c.conf = None \/ ~old THEN c.user ELSE c.conf
GetSchemaVersionMutant(c) == GetSchemaVersionIf(FALSE, c)    \* not where old releases kept it: mutant
GetSchemaVersion(c) == GetSchemaVersionIf(TRUE, c)

\* Rows of a table copied one by one with the cursor that lists them: the first insertion
\* ends the listing.
FirstOf(S) == {row \in S : \A other \in S : row <= other}
Copied(rows, tables) == (rows \ tables) \cup UNION {FirstOf(rows \cap t) : t \in {Uploads, Downloads} \cap SUBSET tables}

\* EngineDAO._migrate_db_old fails on uploads: the column idx (before 7) is gone from a
\* newer table, and 13 values for 9 columns are given (before 9).
OldFails(c, v) == c.rows \cap Uploads # {} /\ \/ v < 7 /\ c.schema >= 7
                                              \/ v \in {7, 8}
\* ... otherwise it copies States anew (before 4), forgets the uploads (before 7), and copies
\* the transfers (before 9 and 17).
MigrateDbOld(c, v) ==
    LET states == IF v < 4 THEN c.rows \ Types ELSE c.rows
        uploads == IF v < 7 THEN states \ Uploads ELSE states
        rows == IF v < 17 THEN Copied(uploads, Uploads \cup Downloads) ELSE uploads
    IN [user |-> 22, conf |-> 22, rows |-> rows,
        schema |-> IF v >= 4 /\ c.schema > OldLatest THEN c.schema ELSE OldLatest]

IsOld(v) == v = Unset \/ v \in 1..OldLatest - 1

\* MigrationEngine.execute_database_upgrade: 21 creates the tables, 22 adds the column doc_type, once; 23 and 24
\* look first.
UpgradeFails(c, v) == \/ v = 0 /\ c.schema > 0
                      \/ IsOld(v) /\ OldFails(c, v)
                      \/ LET o == IF IsOld(v) THEN MigrateDbOld(c, v) ELSE c
                         IN (IsOld(v) \/ v = OldLatest) /\ o.schema > OldLatest
Upgraded(c, v) ==
    LET o == IF IsOld(v) THEN MigrateDbOld(c, v) ELSE c
    IN IF v > Latest THEN c
       ELSE [o EXCEPT !.user = Latest, !.schema = Latest, !.conf = IF v = 0 THEN Unset ELSE @]

\* MigrationEngine.execute_database_donwgrade: only the migrations this release knows.
Downgraded(c, v) ==
    LET undone == {m \in OldLatest + 1..Latest : App < m /\ m <= v}
    IN IF undone = {} THEN c ELSE [c EXCEPT !.user = Min(undone) - 1, !.schema = Min(undone) - 1]

Version == IF exists THEN GetSchemaVersion(main.content) ELSE 0

Lossy(c, v) == \/ v < 7 /\ IsOld(v) /\ c.rows \cap Uploads # {}
               \/ v < 17 /\ IsOld(v) /\ \E t \in {Uploads, Downloads} : \E a, b \in c.rows \cap t : a # b

\* BaseDAO.__init__: connects, reads the version and migrates; a failed migration is rolled
\* back, noted, and the engine works with the tables there are.
MigrateIf(atomic) ==
    /\ stage = "connect" /\ (Present => main.health = "ok")
    /\ LET c == IF exists THEN main.content ELSE Empty
           v == Version
       IN IF App # None /\ v > App
          THEN main' = File("ok", Downgraded(c, v)) /\ UNCHANGED losses
          ELSE IF UpgradeFails(c, v)
          THEN /\ main' = File("ok", IF atomic THEN c ELSE [c EXCEPT !.rows = @ \ Uploads])
               /\ losses' = losses \cup (IF v \in {7, 8} THEN {"uploads"} ELSE {})
          ELSE /\ main' = File("ok", Upgraded(c, v))
               /\ losses' = losses \cup (IF Lossy(c, v) /\ v # Unset THEN {"first"} ELSE {})
    /\ stage' = "running"
    /\ UNCHANGED <<wal, orig, dump, backups, exists, saved, secured, kills, damages, days>>
MigrateMutant == MigrateIf(FALSE)    \* what an upgrade did before it failed is kept: mutant
Migrate == MigrateIf(TRUE)

\* The file that was restored or kept is damaged: the migration fails, the engine goes on.
MigrateFails == /\ stage = "connect" /\ Present /\ main.health # "ok"
                /\ stage' = IF main.health = "dead" THEN "off" ELSE "running"
                /\ UNCHANGED <<files, exists, saved, secured, kills, damages, days, losses>>

----------------------------------------------------------------------------
(* Running                                                                 *)

\* A write of the engine: committed to the log.  Migration 22 adds the column of the types.
Write(r) == /\ stage = "running" /\ Readable /\ r \notin Held
            /\ r \in Types => main.content.schema > OldLatest
            /\ wal' = wal \cup {r} /\ saved' = saved \cup {r}
            /\ UNCHANGED <<main, orig, dump, backups, stage, exists, secured, kills, damages, days, losses>>

\* force_commit, or enough pages in the log.
Checkpoint == /\ stage = "running" /\ Readable /\ wal # {}
              /\ main' = Folded /\ wal' = {}
              /\ UNCHANGED <<orig, dump, backups, stage, exists, saved, secured, kills, damages, days, losses>>

\* save_backup: nothing for a damaged file; the copies older than a day go first, and those are the
\* first of backups, which is in the order of their timestamps.
Outdated == {i \in DOMAIN backups : backups[i].old}
SaveBackup == /\ stage = "running" /\ Present /\ main.health = "ok" /\ Len(backups) < MaxBackups
              /\ backups' = SubSeq(backups, Cardinality(Outdated) + 1, Len(backups))
              /\ stage' = "copy"
              /\ UNCHANGED <<main, wal, orig, dump, exists, saved, secured, kills, damages, days, losses>>

\* The file is copied as it is: what is still in the log is not in the copy.
Copy == /\ stage = "copy"
        /\ backups' = Append(backups, [file |-> main, missing |-> wal, old |-> FALSE])
        /\ secured' = saved /\ stage' = "running"
        /\ UNCHANGED <<main, wal, orig, dump, exists, saved, kills, damages, days, losses>>

\* The copy cannot be written.
CopyFails == /\ stage = "copy" /\ stage' = "running"
             /\ IF backups = <<>> THEN losses' = losses \cup {"aged"} ELSE UNCHANGED losses
             /\ UNCHANGED <<files, exists, saved, secured, kills, damages, days>>

\* Engine.stop and dispose: the last connection is closed.
Close == /\ stage = "running" /\ stage' = "off"
         /\ IF Readable THEN main' = Folded /\ wal' = {} ELSE UNCHANGED <<main, wal>>
         /\ UNCHANGED <<orig, dump, backups, exists, saved, secured, kills, damages, days, losses>>

----------------------------------------------------------------------------
(* What happens to the machine                                             *)

\* The application is killed: what was being written is torn.
Kill == /\ stage # "off" /\ kills < MaxKills /\ kills' = kills + 1 /\ stage' = "off"
        /\ \/ UNCHANGED <<main, backups>>
           \/ stage = "read" /\ main' = File("ok", Empty) /\ UNCHANGED backups
           \/ stage = "restore" /\ main' = File("dead", Empty) /\ UNCHANGED backups
           \/ /\ stage = "copy" /\ UNCHANGED main
              /\ backups' = Append(backups, [file |-> File("dead", Empty), missing |-> {}, old |-> FALSE])
        /\ losses' = losses \cup (IF stage = "read" THEN {IF main' = None THEN "removed" ELSE "half"} ELSE {})
                      \cup (IF stage = "restore" /\ main' = None THEN {"removed"} ELSE {})
                      \cup (IF stage = "copy" /\ backups = <<>> THEN {"aged"} ELSE {})
        /\ UNCHANGED <<wal, orig, dump, exists, saved, secured, damages, days>>

Damage == /\ stage \in {"off", "running"} /\ Present /\ main.health = "ok" /\ damages < MaxDamages
          /\ damages' = damages + 1
          /\ \E h \in {"malformed", "dead"} : main' = [main EXCEPT !.health = h]
          /\ UNCHANGED <<wal, orig, dump, backups, stage, exists, saved, secured, kills, days, losses>>

Day == /\ days < MaxDays /\ days' = days + 1
       /\ backups' = [i \in DOMAIN backups |-> [backups[i] EXCEPT !.old = TRUE]]
       /\ UNCHANGED <<main, wal, orig, dump, stage, exists, saved, secured, kills, damages, losses>>

Open == Sound \/ Dump \/ Read \/ ReadFails \/ Unrecoverable \/ Restore \/ RestoreFails \/ Migrate \/ MigrateFails
Use == (\E r \in Written : Write(r)) \/ Checkpoint \/ SaveBackup \/ Copy \/ CopyFails \/ Close
DatabaseNext == Open \/ Use \/ Kill \/ Damage \/ Day
DatabaseSpec == DatabaseInit /\ [][DatabaseNext]_databaseVars

----------------------------------------------------------------------------
(* Properties                                                              *)

\* What the engine wrote is in the database it works with, after any crash, repair, upgrade
\* or damage: all of it, or, when the file could not be read any more, what there was at the
\* last backup.  The exceptions are those of the code: a copy without the log; a file removed,
\* or made empty, before its content is written elsewhere; the only copies removed before
\* a new one; and the upgrades that forget transfers, also when a repair makes them run
\* on tables that had them already.
Kept == stage = "running" =>
          \/ saved \subseteq Held \/ ~Readable
          \/ losses \cap {"unflushed", "removed", "half", "aged", "first", "undumped"} # {}

\* A database in use has the tables of this release and says so, so that no migration is run
\* on tables it was not written for, unless uploads stop the upgrade or a repair has lost the
\* version; and a start that restores a copy ends, unless the newest copy is torn.
Current == /\ stage = "running" /\ Present /\ main.health = "ok" =>
                \/ main.content.user >= Latest /\ main.content.schema >= Latest
                \/ losses \cap {"uploads", "undumped"} # {}
           /\ stage = "connect" /\ Present /\ main.health = "dead" => "torn" \in losses

\* What was written is there after any crash, repair, upgrade or restored backup, in the tables
\* of this release, but for the losses above.
RowsKept == Kept /\ Current
=============================================================================
