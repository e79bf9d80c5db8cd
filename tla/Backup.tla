------------------------------- MODULE Backup -------------------------------
(***************************************************************************)
(* fde-backup (backup.py): create dumps the release database into one      *)
(* archive with a manifest beside it, verify restores the archive into a   *)
(* database of its own and compares counts.                                *)
(*                                                                         *)
(* Calls run side by side on one pair of files, while the services write   *)
(* and a release may migrate.  Any command of a call may fail, and a call  *)
(* may die between two of them.  Contents are what the counts see of them: *)
(* rows, only ever inserted, and the schema revision.  A digest is the     *)
(* content it was taken of.                                                *)
(***************************************************************************)
EXTENDS Schema

CONSTANTS
    Calls,       \* the command lines that may run at the same time
    NoFile,
    Unreadable,  \* a manifest that is not JSON
    MaxWrites    \* bound: rows the services insert

VARIABLES
    rows,             \* what the counts see of the release database
    archive,          \* the file --archive names
    manifest,         \* the file with .json added
    call,             \* where a call is
    evidence,         \* create: digest and counts so far; verify: the manifest it read
    restored,         \* what pg_restore read
    verdict,          \* how the call ends once its database is dropped
    scratch,          \* its restore database
    tampered          \* not in the code: the archive was damaged since the call read its digest

backupVars ==
    <<database, rows, archive, manifest, call, evidence, restored, verdict, scratch, tampered>>

files == <<archive, manifest>>

Snapshots == [rows : Nat, revision : Nat]

Source == [rows |-> rows, revision |-> database]

Nothing == [rows |-> 0, revision |-> 0]

(***************************************************************************)
(* A partial archive is one that pg_dump has not finished; a damaged one   *)
(* was finished and is not what it was.                                    *)
(***************************************************************************)
Archives == [owner : Calls, state : {"partial", "whole", "damaged"}, data : Snapshots]

(***************************************************************************)
(* quiet is not in the code: the digest is that of the call's own dump as  *)
(* pg_dump left it, and nothing was written between dump and counts.       *)
(***************************************************************************)
Manifests == [digest : Archives, counts : Snapshots, quiet : BOOLEAN]

ASSUME BackupConstants ==
    /\ MaxWrites \in Nat
    /\ NoFile \notin Archives \cup Manifests
    /\ Unreadable \notin Manifests

Partial(c) == [owner |-> c, state |-> "partial", data |-> Nothing]

NoEvidence(c) == [digest |-> Partial(c), counts |-> Nothing, quiet |-> TRUE]

(***************************************************************************)
(* A restore database is left when its call was cut short of dropping it:  *)
(* it died, or createdb or dropdb itself failed.                           *)
(***************************************************************************)
BackupTypeOK ==
    /\ rows \in Nat /\ database \in Nat
    /\ archive \in Archives \cup {NoFile}
    /\ manifest \in Manifests \cup {NoFile, Unreadable}
    /\ call \in [Calls -> {"idle", "dump", "digest", "counts", "manifest", "unlink",
                         "unlink_manifest", "check", "createdb", "restore", "compare",
                         "drop"}]
    /\ evidence \in [Calls -> Manifests]
    /\ restored \in [Calls -> Archives]
    /\ verdict \in [Calls -> {"none", "verified", "differs"}]
    /\ scratch \in [Calls -> {"none", "there", "left"}]
    /\ tampered \in [Calls -> BOOLEAN]

BackupInit ==
    /\ rows = 0
    /\ database \in Revisions \cup {0}
    /\ archive = NoFile
    /\ manifest = NoFile
    /\ call = [c \in Calls |-> "idle"]
    /\ evidence = [c \in Calls |-> NoEvidence(c)]
    /\ restored = [c \in Calls |-> Partial(c)]
    /\ verdict = [c \in Calls |-> "none"]
    /\ scratch = [c \in Calls |-> "none"]
    /\ tampered = [c \in Calls |-> FALSE]

-----------------------------------------------------------------------------
(* What happens around the calls                                           *)

(***************************************************************************)
(* The source changes: every backup between dump and counts is not quiet.  *)
(***************************************************************************)
Disturb ==
    evidence' = [c \in Calls |-> IF call[c] \in {"digest", "counts"}
                                 THEN [evidence[c] EXCEPT !.quiet = FALSE] ELSE evidence[c]]

(***************************************************************************)
(* The API, the worker or the partner commits.                             *)
(***************************************************************************)
Write ==
    /\ rows < MaxWrites
    /\ rows' = rows + 1
    /\ Disturb
    /\ UNCHANGED <<database, files, call, restored, verdict, scratch, tampered>>

(***************************************************************************)
(* A release migrates (Operations says to where).                          *)
(***************************************************************************)
SchemaMoves ==
    /\ database' \in Revisions \ {database}
    /\ Disturb
    /\ UNCHANGED <<rows, files, call, restored, verdict, scratch, tampered>>

(***************************************************************************)
(* A finished archive is damaged where it is kept, at any time: pg_restore *)
(* may refuse it, or find anything in it.                                  *)
(***************************************************************************)
Contents == [rows : 0 .. MaxWrites, revision : Revisions \cup {0}]

Damage ==
    /\ archive # NoFile
    /\ archive.state = "whole"
    /\ \E data \in Contents :
          archive' = [owner |-> archive.owner, state |-> "damaged", data |-> data]
    /\ tampered' = [c \in Calls |-> tampered[c] \/ call[c] \in {"createdb", "restore"}]
    /\ UNCHANGED <<rows, database, manifest, call, evidence, restored, verdict, scratch>>

-----------------------------------------------------------------------------
(* Steps of a call                                                         *)

Go(c, next) == call' = [call EXCEPT ![c] = next] /\ UNCHANGED <<rows, database>>

Keep == UNCHANGED <<evidence, restored, verdict, tampered>>

(***************************************************************************)
(* The process is gone, and what it knew with it.                          *)
(***************************************************************************)
Exit(c) ==
    /\ Go(c, "idle")
    /\ evidence' = [evidence EXCEPT ![c] = NoEvidence(c)]
    /\ restored' = [restored EXCEPT ![c] = Partial(c)]
    /\ verdict' = [verdict EXCEPT ![c] = "none"]
    /\ tampered' = [tampered EXCEPT ![c] = FALSE]

(***************************************************************************)
(* What the call still has to do needs nothing of what it has found.       *)
(***************************************************************************)
GiveUp(c, next) ==
    /\ Go(c, next)
    /\ evidence' = [evidence EXCEPT ![c] = NoEvidence(c)]
    /\ restored' = [restored EXCEPT ![c] = Partial(c)]
    /\ UNCHANGED <<verdict, tampered>>

(***************************************************************************)
(* create: private_output creates the archive, unless it is there.         *)
(***************************************************************************)
Create(c) ==
    /\ call[c] = "idle"
    /\ \/ archive = NoFile /\ archive' = Partial(c) /\ Go(c, "dump")
       \/ archive # NoFile /\ archive' = archive /\ Go(c, "unlink")
    /\ scratch' = [scratch EXCEPT ![c] = "none"]
    /\ UNCHANGED manifest /\ Keep

(***************************************************************************)
(* pg_dump writes to the file the call opened, which another call may have *)
(* unlinked since.                                                         *)
(***************************************************************************)
Dump(c) ==
    /\ call[c] = "dump"
    /\ archive' = IF archive = Partial(c)
                  THEN [owner |-> c, state |-> "whole", data |-> Source] ELSE archive
    /\ Go(c, "digest")
    /\ UNCHANGED <<manifest, scratch>> /\ Keep

(***************************************************************************)
(* archive_sha256 of whatever the path names by now.                       *)
(***************************************************************************)
Digest(c) ==
    /\ call[c] = "digest"
    /\ archive # NoFile
    /\ evidence' = [evidence EXCEPT ![c].digest = archive,
                                    ![c].quiet = @ /\ archive.owner = c
                                                  /\ archive.state = "whole"]
    /\ Go(c, "counts")
    /\ UNCHANGED <<files, restored, verdict, scratch, tampered>>

(***************************************************************************)
(* query_counts, in a transaction of its own, fails where there are no     *)
(* tables (CreateFails).  The revision it finds is compared with           *)
(* CURRENT_SCHEMA_REVISION of the call's checkout.                         *)
(***************************************************************************)
Counts(c) ==
    /\ call[c] = "counts"
    /\ database # 0
    /\ \E current \in Revisions :
          \/ /\ database = current
             /\ evidence' = [evidence EXCEPT ![c].counts = Source]
             /\ Go(c, "manifest")
             /\ UNCHANGED <<restored, verdict, tampered>>
          \/ database # current /\ GiveUp(c, "unlink")
    /\ UNCHANGED <<files, scratch>>

WriteManifest(c) ==
    /\ call[c] = "manifest"
    /\ \/ manifest = NoFile /\ manifest' = evidence[c] /\ Exit(c)
       \/ manifest # NoFile /\ manifest' = manifest /\ GiveUp(c, "unlink")
    /\ UNCHANGED <<archive, scratch>>

(***************************************************************************)
(* except BaseException: two unlinks, of whatever is there.                *)
(***************************************************************************)
UnlinkArchive(c) ==
    /\ call[c] = "unlink"
    /\ archive' = NoFile
    /\ Go(c, "unlink_manifest")
    /\ UNCHANGED <<manifest, scratch>> /\ Keep

UnlinkManifest(c) ==
    /\ call[c] = "unlink_manifest"
    /\ manifest' = NoFile
    /\ Exit(c)
    /\ UNCHANGED <<archive, scratch>>

CreateFails(c) ==
    /\ call[c] \in {"dump", "digest", "counts", "manifest"}
    /\ GiveUp(c, "unlink")
    /\ UNCHANGED <<files, scratch>>

(***************************************************************************)
(* verify: read the manifest.                                              *)
(***************************************************************************)
Verify(c) ==
    /\ call[c] = "idle"
    /\ manifest \notin {NoFile, Unreadable}
    /\ evidence' = [evidence EXCEPT ![c] = manifest]
    /\ Go(c, "check")
    /\ scratch' = [scratch EXCEPT ![c] = "none"]
    /\ UNCHANGED <<files, restored, verdict, tampered>>

\* Fault: the digest is not compared.
FaultAnyDigest(c) == archive # NoFile

DigestMatches(c) == archive = evidence[c].digest

CheckDigest(c) ==
    /\ call[c] = "check"
    /\ \/ DigestMatches(c) /\ Go(c, "createdb") /\ Keep
       \/ ~ DigestMatches(c) /\ Exit(c)
    /\ UNCHANGED <<files, scratch>>

(***************************************************************************)
(* createdb is outside the try: when it fails, nothing drops the database, *)
(* which may be there all the same.                                        *)
(***************************************************************************)
CreateDatabase(c) ==
    /\ call[c] = "createdb"
    /\ \/ scratch' = [scratch EXCEPT ![c] = "there"] /\ Go(c, "restore") /\ Keep
       \/ scratch' = [scratch EXCEPT ![c] = "left"] /\ Exit(c)
       \/ UNCHANGED scratch /\ Exit(c)
    /\ UNCHANGED files

(***************************************************************************)
(* pg_restore of the file the path names by now; it refuses one that       *)
(* breaks off.                                                             *)
(***************************************************************************)
Restore(c) ==
    /\ call[c] = "restore"
    /\ archive # NoFile
    /\ archive.state # "partial"
    /\ restored' = [restored EXCEPT ![c] = archive]
    /\ Go(c, "compare")
    /\ UNCHANGED <<files, evidence, verdict, scratch, tampered>>

\* Fault: the restored counts are compared with those of the database now.
FaultCompareSource(c) == restored[c].data = Source

\* Fault: the schema revision is not among the counts compared.
FaultCompareRows(c) == restored[c].data.rows = evidence[c].counts.rows

CountsMatch(c) == restored[c].data = evidence[c].counts

(***************************************************************************)
(* query_counts of the restore database, if it has the tables.             *)
(***************************************************************************)
Compare(c) ==
    /\ call[c] = "compare"
    /\ restored[c].data.revision # 0
    /\ verdict' = [verdict EXCEPT ![c] = IF CountsMatch(c) THEN "verified" ELSE "differs"]
    /\ Go(c, "drop")
    /\ UNCHANGED <<files, evidence, restored, scratch, tampered>>

\* Fault: the database is dropped after a verification that succeeded only.
FaultDropVerified(c) ==
    /\ call[c] = "drop"
    /\ scratch' = [scratch EXCEPT ![c] = IF verdict[c] = "verified" THEN "none" ELSE @]
    /\ Exit(c)
    /\ UNCHANGED files

(***************************************************************************)
(* finally: dropdb, and a failure of its own is raised, not the verdict.   *)
(***************************************************************************)
Drop(c) ==
    /\ call[c] = "drop"
    /\ \E s \in {"none", "left"} : scratch' = [scratch EXCEPT ![c] = s]
    /\ Exit(c)
    /\ UNCHANGED files

VerifyFails(c) ==
    /\ call[c] \in {"restore", "compare"}
    /\ GiveUp(c, "drop")
    /\ UNCHANGED <<files, scratch>>

(***************************************************************************)
(* The process dies: no clean-up, and a manifest begun is not JSON.        *)
(***************************************************************************)
Crash(c) ==
    /\ call[c] # "idle"
    /\ Exit(c)
    /\ scratch' = [scratch EXCEPT ![c] = IF @ = "there" THEN "left" ELSE @]
    /\ \/ UNCHANGED manifest
       \/ call[c] = "manifest" /\ manifest = NoFile /\ manifest' = Unreadable
    /\ UNCHANGED archive

Step(c) ==
    \/ Create(c)
    \/ Verify(c)
    \/ Dump(c)
    \/ Digest(c)
    \/ Counts(c)
    \/ WriteManifest(c)
    \/ UnlinkArchive(c)
    \/ UnlinkManifest(c)
    \/ CreateFails(c)
    \/ CheckDigest(c)
    \/ CreateDatabase(c)
    \/ Restore(c)
    \/ Compare(c)
    \/ Drop(c)
    \/ VerifyFails(c)
    \/ Crash(c)

Around == Write \/ Damage

BackupNext == Around \/ SchemaMoves \/ \E c \in Calls : Step(c)

BackupSpec == BackupInit /\ [][BackupNext]_backupVars

-----------------------------------------------------------------------------
(* Properties                                                              *)

(***************************************************************************)
(* status = verified is said of an archive that restores to the counts of  *)
(* its manifest, whatever calls, crashes and clean-ups went over the two   *)
(* files meanwhile.  Damage goes unnoticed only if those counts do not     *)
(* show it, and only in two places: before the digest for the manifest is  *)
(* taken, which is then that of the damaged file, and between the          *)
(* comparison of the digest and the reopening of the file for pg_restore.  *)
(***************************************************************************)
VerifiedIsTrue ==
    \A c \in Calls : verdict[c] = "verified" =>
        /\ restored[c].data = evidence[c].counts
        /\ \/ restored[c].state = "whole"
           \/ restored[c] = evidence[c].digest
           \/ tampered[c]

(***************************************************************************)
(* Counts differ only when something was written between dump and counts,  *)
(* or the archive is not what pg_dump left and the manifest was made of.   *)
(***************************************************************************)
QuietBackupVerifies ==
    \A c \in Calls : verdict[c] = "differs" =>
        ~ evidence[c].quiet \/ restored[c] # evidence[c].digest

(***************************************************************************)
(* A restore database outlives its verification only when the call died or *)
(* createdb or dropdb itself failed ("elimina la base de verificacion").   *)
(***************************************************************************)
NoStrayDatabase ==
    \A c \in Calls : scratch[c] = "there" => call[c] \in {"restore", "compare", "drop"}

(***************************************************************************)
(* docs/backup-restore-runbook.md: create, then verify, and "la            *)
(* verificacion devuelve `status=verified`; el SHA-256 y los conteos       *)
(* restaurados coinciden".                                                 *)
(***************************************************************************)
FreshBackupVerifies == \A c \in Calls : verdict[c] # "differs"
=============================================================================
