----------------------------- MODULE Operations -----------------------------
(***************************************************************************)
(* One environment under its two operator tools: fde-release, which takes  *)
(* the schema forward, and fde-backup, which dumps, counts and restores    *)
(* while it does.  They share the release database, and nothing keeps one  *)
(* from running during the other.                                          *)
(***************************************************************************)
EXTENDS Release, Backup

operationsVars == <<vars, backupVars>>

releaseOnly == <<file, pc, target, prior, smoked, clean>>

backupOnly ==
    <<rows, archive, manifest, call, evidence, restored, verdict, scratch, tampered>>

OperationsInit == Init /\ BackupInit

(***************************************************************************)
(* Commands of a release that leave the database as it is.                 *)
(***************************************************************************)
ReleaseStep ==
    /\ \/ \E i \in Images : Deploy(i)
       \/ Rollback
       \/ Pull
       \/ WaitHealthy
       \/ Smoke
       \/ WriteState
       \/ Fail
    /\ UNCHANGED backupOnly

(***************************************************************************)
(* A migration that has something to do disturbs the backups under way.    *)
(***************************************************************************)
MigrateStep ==
    /\ Migrate
    /\ \/ database' # database /\ SchemaMoves
       \/ database' = database /\ UNCHANGED backupOnly

BackupStep ==
    /\ Around \/ \E c \in Calls : Step(c)
    /\ UNCHANGED releaseOnly

OperationsNext == ReleaseStep \/ MigrateStep \/ BackupStep

OperationsSpec == OperationsInit /\ [][OperationsNext]_operationsVars

-----------------------------------------------------------------------------
(* Property                                                                *)

(***************************************************************************)
(* The recovery of docs/backup-restore-runbook.md, "ejecutar `alembic      *)
(* upgrade head`", can take a verified archive on: its revision is the one *)
(* its manifest names, one that an image of this environment knows, and    *)
(* none that the database has yet to reach, however releases and backups   *)
(* crossed.                                                                *)
(***************************************************************************)
VerifiedCanUpgrade ==
    \A c \in Calls : verdict[c] = "verified" =>
        /\ restored[c].data.revision = evidence[c].counts.revision
        /\ restored[c].data.revision \in Revisions
        /\ restored[c].data.revision <= database
=============================================================================
