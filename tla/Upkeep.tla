------------------------------- MODULE Upkeep -------------------------------
(***************************************************************************)
(* The upkeep of an install: the migrations a starting gateway runs        *)
(* (internal/store/migrate.go), `zanskar backup` and `zanskar restore`     *)
(* (cmd/zanskar/backup.go) beside a gateway that goes on working, and      *)
(* `zanskar init` (cmd/zanskar/init.go).  Any of them can fail or be       *)
(* killed between two steps.                                               *)
(*                                                                         *)
(* A migration either rebuilds a table with foreign keys off or not.  The  *)
(* database is the state of its recordings' rows, in its main file and,    *)
(* where a process was killed, a write-ahead log beside it.                *)
(*                                                                         *)
(* init writes the environment file the gateway starts with, the master    *)
(* key in it, and may be run again on a gateway that has sealed its        *)
(* secrets under that key.  Of the file only the lines that name the key   *)
(* are kept; the other answers only decide whether validateAnswers         *)
(* refuses.  The file is readable to init, which is run by its owner or by *)
(* root, and one init runs at a time.                                      *)
(***************************************************************************)
EXTENDS Naturals, FiniteSets

CONSTANTS
    Starters,     \* processes that migrate: gateways of one Postgres database, a CLI
    Latest,       \* the number of migrations
    Rebuilds,     \* those with the foreign_keys=off directive
    Tapes,        \* recordings
    MaxKills,     \* bound: processes killed
    MaxBroken,    \* bound: statements and file operations that fail
    MasterKeys,   \* what newMasterKey may generate
    NoKey

ASSUME UpkeepAssumption ==
    /\ Latest \in Nat /\ Rebuilds \subseteq 1 .. Latest /\ MaxKills \in Nat /\ MaxBroken \in Nat
    /\ NoKey \notin MasterKeys

VARIABLES
    effects,   \* per migration: how often its changes are in the schema
    recorded,  \* schema_migrations
    starter,   \* per process: its migration run
    kills, broken,
    db,        \* the database: its main file and what its log, when there is one, makes of it
    tapes,     \* files under the recordings directory
    gateway,   \* the gateway runs, stopped, or was killed
    backup,    \* zanskar backup: its stage and what it staged
    archive,   \* the finished archive at --out, or NoArchive
    restore,   \* zanskar restore: its stage and what it unpacked
    old, purged, \* history: the database before the restore; recordings whose file was gone at the snapshot or went since
    envFile,   \* the environment file; how: the line that names the key
    sealedBy,  \* the key the stored secrets are sealed under
    initRun    \* zanskar init: what it is about to write

migrateVars == <<effects, recorded, starter>>
copyVars == <<db, tapes, gateway, backup, archive, restore, old, purged>>
upkeepVars == <<migrateVars, copyVars, kills, broken>>
installVars == <<envFile, sealedBy, initRun>>

Versions == 1 .. Latest
Rows == [Tapes -> {"none", "stored", "purged"}]
Settled(rows) == [main |-> rows, log |-> rows]
NoRows == [t \in Tapes |-> "none"]
NoArchive == [rows |-> NoRows, files |-> {}, whole |-> FALSE, lost |-> {}]
NoBackup == [pc |-> "idle", rows |-> NoRows, files |-> {}, todo |-> {}]
NoRestore == [pc |-> "idle", rows |-> NoRows, files |-> {}]
Idle == [pc |-> "idle", version |-> 0, seen |-> {}]

UpkeepTypeOK ==
    /\ effects \in [Versions -> 0 .. 2] /\ recorded \subseteq Versions
    /\ starter \in [Starters -> [pc : {"idle", "off", "tx", "run", "done", "on", "check", "ready", "failed"},
                                 version : 0 .. Latest, seen : SUBSET Versions]]
    /\ kills \in 0 .. MaxKills /\ broken \in 0 .. MaxBroken
    /\ db \in [main : Rows, log : Rows]
    /\ tapes \subseteq Tapes /\ gateway \in {"runs", "stopped", "killed"}
    /\ backup \in [pc : {"idle", "copy", "pack"}, rows : Rows, files : SUBSET Tapes, todo : SUBSET Tapes]
    /\ archive \in [rows : Rows, files : SUBSET Tapes, whole : BOOLEAN, lost : SUBSET Tapes]
    /\ restore \in [pc : {"idle", "extracted", "beside", "nolog", "placed", "failed"}, rows : Rows, files : SUBSET Tapes]
    /\ old \in Rows /\ purged \subseteq Tapes

UpkeepInit ==
    /\ effects = [v \in Versions |-> 0] /\ recorded = {} /\ starter = [p \in Starters |-> Idle]
    /\ kills = 0 /\ broken = 0
    /\ db = Settled(NoRows)
    /\ tapes = {} /\ gateway = "runs"
    /\ backup = NoBackup /\ archive = NoArchive
    /\ restore = NoRestore /\ old = NoRows /\ purged = {}

Breaks == broken < MaxBroken /\ broken' = broken + 1
Holds == UNCHANGED broken

-----------------------------------------------------------------------------
(* MigrateTo.  Another process may be at the same version: the transaction *)
(* that commits second cannot record it and rolls back.                    *)

ReadApplied(p) ==
    /\ starter[p].pc = "idle"
    /\ starter' = [starter EXCEPT ![p] = [pc |-> "run", version |-> 0, seen |-> recorded]]
    /\ UNCHANGED <<effects, recorded, copyVars, kills, broken>>

(* The next version not yet applied, in order; PRAGMA foreign_keys=OFF.    *)
NextVersion(p) ==
    /\ starter[p].pc = "run"
    /\ LET left == {v \in Versions : v > starter[p].version /\ v \notin starter[p].seen}
           v == CHOOSE v \in left : \A u \in left : v <= u
       IN starter' = IF left = {} THEN [starter EXCEPT ![p].pc = "ready"]
                     ELSE [starter EXCEPT ![p].pc = IF v \in Rebuilds THEN "off" ELSE "tx", ![p].version = v]
    /\ UNCHANGED <<effects, recorded, copyVars, kills, broken>>
KeysOff(p) ==
    /\ starter[p].pc = "off"
    /\ \/ starter' = [starter EXCEPT ![p].pc = "tx"] /\ Holds
       \/ Breaks /\ starter' = [starter EXCEPT ![p].pc = "failed"]
    /\ UNCHANGED <<effects, recorded, copyVars, kills>>

(* applyOne and applyStep: the change and its record commit together.      *)
ApplyMut(p) ==
    /\ starter[p].pc = "tx"
    /\ LET v == starter[p].version
       IN /\ effects' = [effects EXCEPT ![v] = IF @ = 2 THEN 2 ELSE @ + 1]
          /\ \/ recorded' = recorded \cup {v} /\ Holds
             \/ Breaks /\ UNCHANGED recorded
          /\ starter' = [starter EXCEPT ![p].pc = IF v \in Rebuilds THEN "on" ELSE "run"]
    /\ UNCHANGED <<copyVars, kills>>
Apply(p) ==
    /\ starter[p].pc = "tx"
    /\ LET v == starter[p].version
           commits == v \notin recorded
       IN \/ /\ commits /\ recorded' = recorded \cup {v} /\ effects' = [effects EXCEPT ![v] = @ + 1]
             /\ starter' = [starter EXCEPT ![p].pc = IF v \in Rebuilds THEN "on" ELSE "run"] /\ Holds
          \/ /\ IF commits THEN Breaks ELSE Holds
             /\ starter' = [starter EXCEPT ![p].pc = "failed"] /\ UNCHANGED <<effects, recorded>>
    /\ UNCHANGED <<copyVars, kills>>

(* PRAGMA foreign_keys=ON, then foreign_key_check: the migration is        *)
(* recorded by now, whatever they find.                                    *)
KeysOn(p) ==
    /\ starter[p].pc = "on"
    /\ \/ starter' = [starter EXCEPT ![p].pc = "check"] /\ Holds
       \/ Breaks /\ starter' = [starter EXCEPT ![p].pc = "failed"]
    /\ UNCHANGED <<effects, recorded, copyVars, kills>>
KeyCheck(p) ==
    /\ starter[p].pc = "check"
    /\ \/ starter' = [starter EXCEPT ![p].pc = "run"] /\ Holds
       \/ Breaks /\ starter' = [starter EXCEPT ![p].pc = "failed"]
    /\ UNCHANGED <<effects, recorded, copyVars, kills>>

(* A process that failed or was killed starts again.                       *)
StartsAgain(p) ==
    /\ starter[p].pc = "failed"
    /\ starter' = [starter EXCEPT ![p] = Idle]
    /\ UNCHANGED <<effects, recorded, copyVars, kills, broken>>
KillStarter(p) ==
    /\ starter[p].pc \notin {"idle", "ready"} /\ kills < MaxKills /\ kills' = kills + 1
    /\ starter' = [starter EXCEPT ![p] = Idle]
    /\ UNCHANGED <<effects, recorded, copyVars, broken>>

MigrateNext == \E p \in Starters : ReadApplied(p) \/ NextVersion(p) \/ KeysOff(p) \/ Apply(p) \/ KeysOn(p) \/ KeyCheck(p)
                                     \/ StartsAgain(p) \/ KillStarter(p)

-----------------------------------------------------------------------------
(* The gateway beside it: a recording's file is complete before its row    *)
(* says so, and is deleted before the row says purged (Recordings).        *)

Seen == db.log
Write(t, state) == db' = [db EXCEPT !.log = [Seen EXCEPT ![t] = state]]
Finish(t) ==
    /\ gateway = "runs" /\ Seen[t] = "none"
    /\ tapes' = tapes \cup {t} /\ Write(t, "stored")
    /\ UNCHANGED <<migrateVars, gateway, backup, archive, restore, old, purged, kills, broken>>
Purge(t) ==
    /\ gateway = "runs" /\ Seen[t] = "stored"
    /\ tapes' = tapes \ {t} /\ Write(t, "purged")
    /\ purged' = IF backup = NoBackup THEN {} ELSE purged \cup {t}
    /\ UNCHANGED <<migrateVars, gateway, backup, archive, restore, old, kills, broken>>

(* SQLite empties the log when its last connection closes, not when its    *)
(* process is killed.                                                      *)
Stop ==
    /\ gateway = "runs" /\ gateway' = "stopped"
    /\ db' = Settled(Seen)
    /\ UNCHANGED <<migrateVars, tapes, backup, archive, restore, old, purged, kills, broken>>
KillGateway ==
    /\ gateway = "runs" /\ gateway' = "killed" /\ kills < MaxKills /\ kills' = kills + 1
    /\ UNCHANGED <<migrateVars, db, tapes, backup, archive, restore, old, purged, broken>>

-----------------------------------------------------------------------------
(* zanskar backup: the snapshot first, then the recordings one by one, the *)
(* archive beside its name and renamed into place.                         *)

Snapshot ==
    /\ backup.pc = "idle"
    /\ \/ backup' = [pc |-> "copy", rows |-> Seen, files |-> {}, todo |-> tapes] /\ Holds
          /\ purged' = {t \in Tapes : Seen[t] = "stored" /\ t \notin tapes}
       \/ Breaks /\ UNCHANGED <<backup, purged>>
    /\ UNCHANGED <<migrateVars, db, tapes, gateway, archive, restore, old, kills>>

(* WalkDir lists the directory as it goes; a file that went meanwhile ends *)
(* the backup, one that came may or may not be met.                        *)
CopyTape(t) ==
    /\ backup.pc = "copy" /\ t \in tapes \ backup.files
    /\ backup' = [backup EXCEPT !.files = @ \cup {t}, !.todo = @ \ {t}]
    /\ UNCHANGED <<migrateVars, db, tapes, gateway, archive, restore, old, purged, kills, broken>>
CopyEnds ==
    /\ backup.pc = "copy" /\ backup.todo \cap tapes = {}
    /\ backup' = [backup EXCEPT !.pc = "pack", !.todo = {}]
    /\ UNCHANGED <<migrateVars, db, tapes, gateway, archive, restore, old, purged, kills, broken>>
BackupFails ==
    /\ backup.pc \in {"copy", "pack"} /\ Breaks
    /\ backup' = NoBackup
    /\ purged' = {}
    /\ UNCHANGED <<migrateVars, db, tapes, gateway, archive, restore, old, kills>>
(* writeTarGz: complete and synced under another name, then renamed.       *)
Packed == [rows |-> backup.rows, files |-> backup.files, whole |-> TRUE, lost |-> purged]
PackMut ==
    /\ backup.pc = "copy"
    /\ archive' = Packed
    /\ backup' = NoBackup
    /\ purged' = {}
    /\ UNCHANGED <<migrateVars, db, tapes, gateway, restore, old, kills, broken>>
Pack ==
    /\ backup.pc = "pack"
    /\ archive' = Packed
    /\ backup' = NoBackup
    /\ purged' = {}
    /\ UNCHANGED <<migrateVars, db, tapes, gateway, restore, old, kills, broken>>

-----------------------------------------------------------------------------
(* zanskar restore, with the service stopped: the archive is unpacked and  *)
(* checked, its database copied beside the current one and renamed over    *)
(* it once the current one's log is gone, then the recordings.             *)

(* extractTarGz: every entry in full, or an error.                         *)
Unpacked == [pc |-> "extracted", rows |-> archive.rows, files |-> archive.files]
Extract ==
    /\ restore.pc \in {"idle", "failed"} /\ gateway # "runs" /\ archive.whole
    /\ restore' = Unpacked /\ old' = Seen
    /\ UNCHANGED <<migrateVars, db, tapes, gateway, backup, archive, purged, kills, broken>>
RestoreAt(pc) == restore' = [restore EXCEPT !.pc = pc]
CopyBesideMut ==
    /\ restore.pc = "extracted"
    /\ \/ RestoreAt("beside") /\ UNCHANGED db /\ Holds
       \/ Breaks /\ RestoreAt("failed") /\ db' = Settled(NoRows)
    /\ UNCHANGED <<migrateVars, tapes, gateway, backup, archive, old, purged, kills>>
CopyBeside ==
    /\ restore.pc = "extracted"
    /\ \/ RestoreAt("beside") /\ Holds
       \/ Breaks /\ RestoreAt("failed")
    /\ UNCHANGED <<migrateVars, db, tapes, gateway, backup, archive, old, purged, kills>>
RemoveLog ==
    /\ restore.pc = "beside" /\ RestoreAt("nolog")
    /\ db' = Settled(db.main)
    /\ UNCHANGED <<migrateVars, tapes, gateway, backup, archive, old, purged, kills, broken>>
Place ==
    /\ restore.pc = "nolog"
    /\ \/ db' = Settled(restore.rows) /\ RestoreAt("placed") /\ Holds
       \/ Breaks /\ RestoreAt("failed") /\ UNCHANGED db
    /\ UNCHANGED <<migrateVars, tapes, gateway, backup, archive, old, purged, kills>>

(* The recordings are copied in beside what is there.                      *)
RestoreTapes ==
    /\ restore.pc = "placed"
    /\ \/ /\ tapes' = tapes \cup restore.files /\ restore' = NoRestore /\ gateway' = "runs"
          /\ old' = NoRows /\ Holds
       \/ Breaks /\ RestoreAt("failed") /\ UNCHANGED <<tapes, gateway, old>>
    /\ UNCHANGED <<migrateVars, db, backup, archive, purged, kills>>
KillRestore ==
    /\ restore.pc \notin {"idle", "failed"} /\ kills < MaxKills /\ kills' = kills + 1
    /\ RestoreAt("failed")
    /\ UNCHANGED <<migrateVars, db, tapes, gateway, backup, archive, old, purged, broken>>

CopyNext == \/ \E t \in Tapes : Finish(t) \/ Purge(t) \/ CopyTape(t)
            \/ Stop \/ KillGateway \/ Snapshot \/ CopyEnds \/ BackupFails \/ Pack
            \/ Extract \/ CopyBeside \/ RemoveLog \/ Place \/ RestoreTapes \/ KillRestore

-----------------------------------------------------------------------------
(* zanskar init.                                                           *)

\* "key": a ZANSKAR_MASTER_KEY line init reads; "odd": one only the service reads;
\* "file": ZANSKAR_MASTER_KEY_FILE; "both"; "none": a file without either.
Hows == {"absent", "none", "key", "odd", "file", "both"}
NoFile == [how |-> "absent", key |-> NoKey]
NotRunning == [pc |-> "idle", content |-> NoFile]

InstallTypeOK ==
    /\ envFile \in [how : Hows, key : MasterKeys \cup {NoKey}] /\ sealedBy \in MasterKeys \cup {NoKey}
    /\ initRun \in [pc : {"idle", "temp", "written"},
                   content : [how : {"absent", "key", "file"}, key : MasterKeys \cup {NoKey}]]

InstallInit == envFile = NoFile /\ sealedBy = NoKey /\ initRun = NotRunning

-----------------------------------------------------------------------------
\* masterKeyFrom, envValueFrom, keyLineUnreadable: what of the file stands in the
\* way of a new one.
inTheWay(force) ==
    \/ envFile.how # "absent" /\ ~force
    \/ envFile.how \in {"odd", "both"}

newMasterKey == MasterKeys \ {envFile.key, sealedBy}

\* runInit up to the file: a key that is there is kept, as a line or as the name
\* of its file, and none is made beside it.
renderEnv(k) == IF envFile.how = "file" THEN envFile ELSE [how |-> "key", key |-> k]
InitStart(force) ==
    /\ initRun.pc = "idle" /\ ~inTheWay(force)
    /\ \E k \in IF envFile.how \in {"key", "file"} THEN {envFile.key} ELSE newMasterKey :
          initRun' = [pc |-> "temp", content |-> renderEnv(k)]
    /\ UNCHANGED <<envFile, sealedBy>>

\* writeFileAtomic: a file of its own first, which may fail, then the name;
\* writeTempMut writes to the file itself.
writeTempMut ==
    /\ initRun.pc = "temp" /\ initRun' = [initRun EXCEPT !.pc = "written"]
    /\ envFile' = [how |-> "none", key |-> NoKey] /\ UNCHANGED sealedBy
writeTemp ==
    /\ initRun.pc = "temp"
    /\ initRun' \in {[initRun EXCEPT !.pc = "written"], NotRunning}
    /\ UNCHANGED <<envFile, sealedBy>>
writeRename ==
    /\ initRun.pc = "written" /\ initRun' = NotRunning
    /\ envFile' \in {initRun.content, envFile} /\ UNCHANGED sealedBy

\* validateAnswers refuses, the file is printed instead of written, or the command
\* is killed; a temporary file may stay, which nothing reads.
InitStops == initRun.pc # "idle" /\ initRun' = NotRunning /\ UNCHANGED <<envFile, sealedBy>>

-----------------------------------------------------------------------------
\* The gateway starts with the key of the file and seals with it what is not yet
\* sealed; a file with both lines it refuses.
ServeStarts ==
    /\ envFile.how \in {"key", "odd", "file"} /\ sealedBy' = IF sealedBy = NoKey THEN envFile.key ELSE sealedBy
    /\ UNCHANGED <<envFile, initRun>>

\* External: the operator, who rewrites the line or moves the key into a file, or
\* forgets to remove the line then.
OperatorEdits ==
    /\ initRun.pc = "idle" /\ envFile.key # NoKey
    /\ \E how \in {"key", "odd", "file", "both"} : envFile' = [envFile EXCEPT !.how = how]
    /\ UNCHANGED <<sealedBy, initRun>>

InstallNext ==
    \/ \E force \in BOOLEAN : InitStart(force)
    \/ writeTemp \/ writeRename \/ InitStops \/ ServeStarts \/ OperatorEdits

UpkeepSpec == UpkeepInit /\ [][MigrateNext \/ CopyNext]_upkeepVars
InstallSpec == InstallInit /\ [][InstallNext]_installVars

-----------------------------------------------------------------------------

(* Each migration's change is in the schema exactly when it is recorded,   *)
(* once, and no later one without the earlier: whoever else migrates,      *)
(* wherever a run fails or is killed.                                      *)
MigratedOnce ==
    /\ \A v \in Versions : effects[v] = IF v \in recorded THEN 1 ELSE 0
    /\ \A v \in recorded : 1 .. v \subseteq recorded

(* A finished archive holds the file of every recording its database       *)
(* snapshot calls stored, but for those gone already or purged after the   *)
(* snapshot: it is taken before the files, so what ends meanwhile is at    *)
(* most a file more.                                                       *)
ArchiveWhole ==
    archive.whole => \A t \in Tapes : archive.rows[t] = "stored" => t \in archive.files \cup archive.lost

(* Until the snapshot is in its place the current database stays: a        *)
(* restore that fails or is killed leaves one or the other, entire, when   *)
(* the service had been stopped and not killed.                            *)
RestoreKeepsOne ==
    restore.pc # "idle" /\ gateway = "stopped" => Seen \in {old, restore.rows}

\* "An existing master key is always preserved" (runInit, writeFileAtomic): however
\* often init is run, forced, refused or killed, the file names the key the stored
\* secrets are sealed under.
KeyPreserved == sealedBy # NoKey => envFile.key = sealedBy

\* Migrations are made once, an archive is whole, a restore leaves one database
\* entire (migrate.go, backup.go) and init keeps the master key (init.go).
UpkeepSound ==
    /\ UpkeepTypeOK /\ MigratedOnce /\ ArchiveWhole /\ RestoreKeepsOne
    /\ InstallTypeOK /\ KeyPreserved
=============================================================================
