------------------------------ MODULE Migrations ------------------------------
(* Schema migrations of a plugin's SQLite file: migrate_target of
   migrations.py, run by the service before a plugin starts and by the
   administrator ("db migrate"), and the administrator's "db restore".

   A database is its version and the rows the plugin has committed.  A process
   may be killed between any two steps; SQLite then rolls back what was not
   committed, and the flock is gone.                                         *)
EXTENDS Naturals, FiniteSets, FiniteSetsExt

CONSTANTS MgReleases,   \* versions of the schema that releases declare
          MgRetain,     \* backups kept per directory
          MgRows,       \* rows the plugin may write
          MgRuns        \* bound on migrations and restores

ASSUME MgAssumption == MgReleases \in Nat \ {0} /\ MgRetain \in Nat /\ MgRuns \in Nat

VARIABLES
    mgDb,        \* the file: exists, version and rows
    mgLock,      \* holder of the target lock, or "nobody"
    mgBackups,   \* backups, by number
    mgProc,      \* per process: step, schema it knows, file at the lock, backup
    mgService,   \* "stopped", "starting" or "running"
    mgWritten,   \* rows committed since the operator last restored
    mgOverlap,   \* the service was started during maintenance
    mgSetBack,   \* the clock was set back since the first backup
    mgRuns

mgVars == <<mgDb, mgLock, mgBackups, mgProc, mgService, mgWritten, mgOverlap, mgSetBack,
            mgRuns>>
MgProcs == {"service", "admin"}
NoFile == [exists |-> FALSE, version |-> 0, rows |-> {}]
MgIdle == [pc |-> "idle", knows |-> MgReleases, was |-> NoFile, backup |-> 0]

MgInit ==
    /\ mgDb = NoFile /\ mgLock = "nobody" /\ mgBackups = {}
    /\ mgProc = [p \in MgProcs |-> MgIdle]
    /\ mgService = "stopped" /\ mgWritten = {} /\ mgOverlap = FALSE /\ mgSetBack = FALSE
    /\ mgRuns = 0

MgTo(p, pc) == mgProc' = [mgProc EXCEPT ![p].pc = pc]
Pending(p) == mgDb.version < mgProc[p].knows
BackupOf(n) == CHOOSE b \in mgBackups : b.id = n
NextBackup == 1 + Max({0} \cup {b.id : b \in mgBackups})
Saves(p, b) == mgBackups' = mgBackups \cup {[id |-> b, db |-> mgDb, dir |-> p]}

-----------------------------------------------------------------------------
(* _migrate_plugin at the start of the service; a release knows its schema. *)
ServiceStarts(release) ==
    /\ mgService = "stopped" /\ mgProc["service"].pc = "idle" /\ mgRuns < MgRuns
    /\ mgService' = "starting" /\ mgRuns' = mgRuns + 1
    /\ mgProc' = [mgProc EXCEPT !["service"] = [MgIdle EXCEPT !.pc = "lock", !.knows = release]]
    /\ mgOverlap' = (mgOverlap \/ mgProc["admin"].pc # "idle")
    /\ UNCHANGED <<mgDb, mgLock, mgBackups, mgWritten, mgSetBack>>

(* _db_migrate and _db_restore look once whether the service is active. *)
AdminMigrates ==
    /\ mgProc["admin"].pc = "idle" /\ mgService = "stopped" /\ mgRuns < MgRuns
    /\ MgTo("admin", "lock") /\ mgRuns' = mgRuns + 1
    /\ UNCHANGED <<mgDb, mgLock, mgBackups, mgService, mgWritten, mgOverlap, mgSetBack>>

AdminRestores ==
    /\ mgProc["admin"].pc = "idle" /\ mgService = "stopped" /\ mgRuns < MgRuns
    /\ mgDb.exists /\ Saves("safety", NextBackup) /\ mgRuns' = mgRuns + 1
    /\ \E b \in mgBackups : mgProc' = [mgProc EXCEPT !["admin"] = [@ EXCEPT !.pc = "restore", !.was = b.db]]
    /\ UNCHANGED <<mgDb, mgLock, mgService, mgWritten, mgOverlap, mgSetBack>>

(* restore_database: a verified copy is renamed over the file. *)
RestoreReplaces ==
    /\ mgProc["admin"].pc = "restore"
    /\ mgDb' = mgProc["admin"].was /\ mgWritten' = mgDb'.rows
    /\ mgProc' = [mgProc EXCEPT !["admin"] = MgIdle]
    /\ UNCHANGED <<mgLock, mgBackups, mgService, mgOverlap, mgSetBack, mgRuns>>

-----------------------------------------------------------------------------
(* migrate_target *)

(* A lock that is held refuses the caller. *)
TargetLock(p) ==
    /\ mgProc[p].pc = "lock"
    /\ IF mgLock = "nobody"
       THEN mgLock' = p /\ mgProc' = [mgProc EXCEPT ![p].pc = "dry run", ![p].was = mgDb]
       ELSE MgTo(p, "refused") /\ UNCHANGED mgLock
    /\ UNCHANGED <<mgDb, mgBackups, mgService, mgWritten, mgOverlap, mgSetBack, mgRuns>>

(* _dry_run on a clone: the history is validated and the migrations tried. *)
MgDryRun(p) ==
    /\ mgProc[p].pc = "dry run"
    /\ \/ MgTo(p, "failed")
       \/ mgDb.version <= mgProc[p].knows /\ MgTo(p, IF Pending(p) THEN "back up" ELSE "ok")
    /\ UNCHANGED <<mgDb, mgLock, mgBackups, mgService, mgWritten, mgOverlap, mgSetBack, mgRuns>>

MgBacksUp(p) ==
    /\ mgProc[p].pc = "back up"
    /\ \/ MgTo(p, "failed") /\ UNCHANGED mgBackups
       \/ /\ mgDb.exists /\ Saves(p, NextBackup)
          /\ mgProc' = [mgProc EXCEPT ![p].pc = "apply", ![p].backup = NextBackup]
       \/ ~mgDb.exists /\ MgTo(p, "apply") /\ UNCHANGED mgBackups
    /\ UNCHANGED <<mgDb, mgLock, mgService, mgWritten, mgOverlap, mgSetBack, mgRuns>>

(* _apply: every pending migration in one transaction, if the version is still
   the one of the dry run.                                                   *)
Applies(p) ==
    /\ mgProc[p].pc = "apply"
    /\ \/ MgTo(p, "undo") /\ UNCHANGED mgDb
       \/ /\ mgDb.version = mgProc[p].was.version
          /\ mgDb' = [mgDb EXCEPT !.exists = TRUE, !.version = mgProc[p].knows]
          /\ MgTo(p, "validate")
    /\ UNCHANGED <<mgLock, mgBackups, mgService, mgWritten, mgOverlap, mgSetBack, mgRuns>>

(* The integrity check and the flush come after the commit. *)
FailsUnrestored(p) ==
    /\ mgProc[p].pc = "validate" /\ (MgTo(p, "prune") \/ MgTo(p, "failed"))
    /\ UNCHANGED <<mgDb, mgLock, mgBackups, mgService, mgWritten, mgOverlap, mgSetBack, mgRuns>>

MgValidates(p) ==
    /\ mgProc[p].pc = "validate" /\ (MgTo(p, "prune") \/ MgTo(p, "undo"))
    /\ UNCHANGED <<mgDb, mgLock, mgBackups, mgService, mgWritten, mgOverlap, mgSetBack, mgRuns>>

(* An older backup than the migration's own *)
UndoesOldest(p) ==
    /\ mgProc[p].pc = "undo" /\ MgTo(p, "failed")
    /\ mgDb' = IF mgProc[p].backup # 0 THEN BackupOf(Min({b.id : b \in mgBackups})).db ELSE NoFile
    /\ UNCHANGED <<mgLock, mgBackups, mgService, mgWritten, mgOverlap, mgSetBack, mgRuns>>

(* _restore_backup, or the removal of a file that did not exist.  Both are in
   the handler and may fail as well; the copy is renamed over the file last.  *)
MgUndoes(p) ==
    /\ mgProc[p].pc = "undo"
    /\ \/ /\ MgTo(p, "failed")
          /\ mgDb' = IF mgProc[p].backup # 0 THEN BackupOf(mgProc[p].backup).db ELSE NoFile
       \/ MgTo(p, "unrestored") /\ UNCHANGED mgDb
    /\ UNCHANGED <<mgLock, mgBackups, mgService, mgWritten, mgOverlap, mgSetBack, mgRuns>>

(* The backups of the directory that stay: the newest by their mtime, which a
   clock set back makes any of them.                                         *)
Stays(p, kept) ==
    LET own == {b \in mgBackups : b.dir = p}
        newest == {b \in own : Cardinality({c \in own : c.id > b.id}) < MgRetain}
    IN  /\ kept \subseteq own
        /\ IF mgSetBack THEN Cardinality(kept) = Cardinality(newest) ELSE kept = newest

(* The oldest are kept. *)
PrunesNewest(p) ==
    LET own == {b \in mgBackups : b.dir = p} IN
    /\ mgProc[p].pc = "prune" /\ MgTo(p, "ok")
    /\ mgBackups' = mgBackups \ {b \in own : Cardinality({c \in own : c.id < b.id}) >= MgRetain}
    /\ UNCHANGED <<mgDb, mgLock, mgService, mgWritten, mgOverlap, mgSetBack, mgRuns>>

(* Pruning is outside of the handler: where it fails the migration has been
   applied, and the caller is told of a failure.                             *)
Prunes(p) ==
    LET others == {b \in mgBackups : b.dir # p} IN
    /\ mgProc[p].pc = "prune"
    /\ \/ mgProc[p].backup = 0 /\ MgTo(p, "ok") /\ UNCHANGED mgBackups
       \/ /\ mgProc[p].backup # 0
          /\ \E kept \in SUBSET (mgBackups \ others) :
                /\ Stays(p, kept)
                /\ \/ MgTo(p, "ok") /\ mgBackups' = others \cup kept
                   \/ /\ MgTo(p, "unpruned")
                      /\ \E left \in SUBSET (mgBackups \ others) :
                            mgBackups' = others \cup kept \cup left
    /\ UNCHANGED <<mgDb, mgLock, mgService, mgWritten, mgOverlap, mgSetBack, mgRuns>>

(* A plugin whose migration failed does not start. *)
MgEnds(p) ==
    /\ mgProc[p].pc \in {"ok", "failed", "refused", "unrestored", "unpruned"}
    /\ mgLock' = IF mgLock = p THEN "nobody" ELSE mgLock
    /\ mgProc' = [mgProc EXCEPT ![p] = [MgIdle EXCEPT !.knows = mgProc[p].knows]]
    /\ mgService' = IF p = "admin" THEN mgService
                    ELSE IF mgProc[p].pc = "ok" THEN "running" ELSE "stopped"
    /\ UNCHANGED <<mgDb, mgBackups, mgWritten, mgOverlap, mgSetBack, mgRuns>>

-----------------------------------------------------------------------------
PluginWrites(r) ==
    /\ mgService = "running" /\ mgDb.exists /\ r \notin mgDb.rows
    /\ mgDb' = [mgDb EXCEPT !.rows = @ \cup {r}] /\ mgWritten' = mgWritten \cup {r}
    /\ UNCHANGED <<mgLock, mgBackups, mgProc, mgService, mgOverlap, mgSetBack, mgRuns>>

(* The process is killed, or the service stops. *)
MgKilled(p) ==
    /\ p = "service" \/ mgProc[p].pc # "idle"
    /\ mgProc' = [mgProc EXCEPT ![p] = MgIdle] /\ mgLock' = IF mgLock = p THEN "nobody" ELSE mgLock
    /\ mgService' = IF p = "service" THEN "stopped" ELSE mgService
    /\ UNCHANGED <<mgDb, mgBackups, mgWritten, mgOverlap, mgSetBack, mgRuns>>

ClockSetBack ==
    /\ mgBackups # {} /\ ~mgSetBack /\ mgSetBack' = TRUE
    /\ UNCHANGED <<mgDb, mgLock, mgBackups, mgProc, mgService, mgWritten, mgOverlap, mgRuns>>

MgStep(p) == TargetLock(p) \/ MgDryRun(p) \/ MgBacksUp(p) \/ Applies(p) \/ MgValidates(p)
             \/ MgUndoes(p) \/ Prunes(p) \/ MgEnds(p)

MgNext ==
    \/ \E release \in 1..MgReleases : ServiceStarts(release)
    \/ AdminMigrates \/ AdminRestores \/ RestoreReplaces \/ ClockSetBack
    \/ \E p \in MgProcs : MgStep(p) \/ MgKilled(p)
    \/ \E r \in MgRows : PluginWrites(r)

MgSpec == MgInit /\ [][MgNext]_mgVars

-----------------------------------------------------------------------------
(* The state has its type. *)
MgTypeOK ==
    /\ mgDb \in [exists : BOOLEAN, version : 0..MgReleases, rows : SUBSET MgRows]
    /\ mgLock \in MgProcs \cup {"nobody"} /\ mgService \in {"stopped", "starting", "running"}
    /\ \A b \in mgBackups : b.id \in Nat /\ b.db.exists /\ b.dir \in MgProcs \cup {"safety"}

AsFound(p) == mgDb = mgProc[p].was
Migrated(p) == mgDb = [mgProc[p].was EXCEPT !.exists = TRUE, !.version = mgProc[p].knows]

(* architecture-decisions.md: "applies under one explicit transaction,
   validates, and restores on failure": a migration that reports a failure has
   left the file as it found it, whatever step failed.  Where the undoing or
   the pruning fails as well, the file holds the whole migration or nothing
   of it.                                                                    *)
FailureKeepsFile ==
    ~mgOverlap => \A p \in MgProcs :
       /\ mgProc[p].pc = "failed" => AsFound(p)
       /\ mgProc[p].pc \in {"unrestored", "unpruned"} => AsFound(p) \/ Migrated(p)

(* What the plugin committed survives every failed, killed or repeated
   migration: only the operator's restore takes rows away.                   *)
CommittedRowsSurvive == ~mgOverlap => mgWritten \subseteq mgDb.rows

(* Until a migration has ended well, and where it could not be undone, the file
   it started from can be had from its backup; and after it the backup is still
   there, unless the clock was set back.                                     *)
BackupOfMigration ==
    \A p \in MgProcs :
       /\ mgProc[p].backup # 0
       /\ \/ mgProc[p].pc \in {"apply", "validate", "undo", "unrestored", "prune"}
          \/ mgProc[p].pc \in {"ok", "unpruned"} /\ ~mgSetBack
       => \E b \in mgBackups : b.id = mgProc[p].backup /\ (mgOverlap \/ b.db = mgProc[p].was)

(* A migration that fails leaves the database it found; rows committed since survive. *)
MigrationsUndone ==
    /\ MgTypeOK
    /\ FailureKeepsFile
    /\ CommittedRowsSurvive
    /\ BackupOfMigration

=============================================================================
