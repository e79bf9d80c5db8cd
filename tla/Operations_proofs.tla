-------------------------- MODULE Operations_proofs --------------------------
(***************************************************************************)
(* Proofs about Backup and Operations, for any number of calls and writes, *)
(* any images and any revisions.                                           *)
(***************************************************************************)
EXTENDS Operations, Release_proofs

-----------------------------------------------------------------------------
(* Backup                                                                  *)

(***************************************************************************)
(* What a call that makes a backup knows: its own archive, until somebody  *)
(* unlinks it, is a snapshot of the source as long as nothing is written   *)
(* and nothing damages it.                                                 *)
(***************************************************************************)
CreateInv(c) ==
    /\ call[c] = "dump" /\ archive # NoFile /\ archive.owner = c => archive = Partial(c)
    /\ (/\ call[c] = "digest" /\ evidence[c].quiet
        /\ archive # NoFile /\ archive.owner = c /\ archive.state = "whole")
          => archive.data = Source
    /\ call[c] = "counts" /\ evidence[c].quiet => evidence[c].digest.data = Source

(***************************************************************************)
(* The file a verification is to restore, or has restored: if damaged, it  *)
(* was when its digest was taken, or has been since it was compared.       *)
(***************************************************************************)
Accounted(a, m, t) == a.state = "damaged" => a = m.digest \/ t

VerifyInv(c) ==
    /\ (/\ call[c] \in {"manifest", "check", "createdb", "restore", "compare", "drop"}
        /\ evidence[c].quiet) => evidence[c].digest.data = evidence[c].counts
    /\ call[c] \in {"createdb", "restore"} /\ archive # NoFile =>
          Accounted(archive, evidence[c], tampered[c])
    /\ call[c] = "compare" =>
          /\ restored[c].state \in {"whole", "damaged"}
          /\ Accounted(restored[c], evidence[c], tampered[c])
    /\ verdict[c] # "none" => call[c] = "drop"
    /\ verdict[c] = "verified" =>
          /\ restored[c].data = evidence[c].counts
          /\ restored[c].state \in {"whole", "damaged"}
          /\ Accounted(restored[c], evidence[c], tampered[c])
    /\ verdict[c] = "differs" => restored[c].data # evidence[c].counts
    /\ scratch[c] = "there" => call[c] \in {"restore", "compare", "drop"}

Genuine(m) == m.quiet => m.digest.data = m.counts

FilesInv == manifest \notin {NoFile, Unreadable} => Genuine(manifest)

BackupInv ==
    /\ BackupTypeOK
    /\ FilesInv
    /\ \A c \in Calls : CreateInv(c) /\ VerifyInv(c)

(***************************************************************************)
(* The records the steps make have their types.                            *)
(***************************************************************************)
LEMMA BackupTypes ==
    /\ Nothing \in Snapshots
    /\ \A c \in Calls : /\ Partial(c) \in Archives
                        /\ Partial(c).state = "partial" /\ Partial(c).owner = c
                        /\ NoEvidence(c) \in Manifests
                        /\ NoEvidence(c).digest = Partial(c)
    /\ BackupTypeOK => /\ Source \in Snapshots
                       /\ \A c \in Calls :
                             [owner |-> c, state |-> "whole", data |-> Source] \in Archives
    /\ Contents \subseteq Snapshots
  BY SchemaConstants, BackupConstants
  DEF Nothing, Snapshots, Partial, Archives, NoEvidence, Manifests, Source, BackupTypeOK,
      Contents, Revisions

LEMMA BackupInitInv == BackupInit => BackupInv
  <1>. SUFFICES ASSUME BackupInit PROVE BackupInv
    OBVIOUS
  <1>1. database \in Nat
    BY SchemaConstants DEF BackupInit, Revisions
  <1>2. BackupTypeOK
    BY <1>1, BackupTypes DEF BackupInit, BackupTypeOK
  <1>. QED  BY <1>2, BackupTypes DEF BackupInit, BackupInv, FilesInv, CreateInv, VerifyInv

-----------------------------------------------------------------------------
(* Steps around the calls                                                  *)

LEMMA DisturbKeeps ==
    ASSUME BackupInv, Disturb, UNCHANGED <<files, call, restored, verdict, scratch, tampered>>,
           rows' \in Nat, database' \in Nat
    PROVE  BackupInv'
  <1>. USE DEF BackupInv
  <1>1. \A c \in Calls :
            /\ evidence'[c].digest = evidence[c].digest
            /\ evidence'[c].counts = evidence[c].counts
            /\ evidence'[c] \in Manifests
            /\ call[c] \in {"digest", "counts"} => ~ evidence'[c].quiet
            /\ call[c] \notin {"digest", "counts"} => evidence'[c] = evidence[c]
    BY DEF Disturb, BackupTypeOK, Manifests
  <1>2. BackupTypeOK'
    BY <1>1 DEF BackupTypeOK, Disturb, files
  <1>3. FilesInv'
    BY DEF FilesInv, Genuine, files
  <1>4. ASSUME NEW c \in Calls PROVE CreateInv(c)' /\ VerifyInv(c)'
    BY <1>1 DEF CreateInv, VerifyInv, Accounted, files
  <1>. QED  BY <1>2, <1>3, <1>4

LEMMA DamageKeeps ==
    ASSUME BackupInv, Damage
    PROVE  BackupInv'
  <1>. USE DEF BackupInv
  <1>1. PICK data \in Contents :
           archive' = [owner |-> archive.owner, state |-> "damaged", data |-> data]
    BY DEF Damage
  <1>2. archive \in Archives /\ archive.state = "whole"
    BY DEF Damage, BackupTypeOK
  <1>3. archive' \in Archives /\ archive'.owner = archive.owner /\ archive'.state = "damaged"
    BY <1>1, <1>2, BackupTypes DEF Archives
  <1>4. \A c \in Calls : /\ tampered'[c] = (tampered[c] \/ call[c] \in {"createdb", "restore"})
                         /\ tampered'[c] \in BOOLEAN
    BY DEF Damage, BackupTypeOK
  <1>5. BackupTypeOK'
    BY <1>3 DEF Damage, BackupTypeOK
  <1>6. FilesInv'
    BY DEF Damage, FilesInv, Genuine
  <1>7. /\ UNCHANGED <<call, evidence, restored, verdict, scratch>>
        /\ archive # NoFile /\ archive' # NoFile
    BY <1>3, BackupConstants DEF Damage
  <1>8. ASSUME NEW c \in Calls PROVE CreateInv(c)'
    <2>1. Source' = Source
      BY DEF Damage, Source
    <2>2. call[c] = "dump" => archive.owner # c
      BY <1>2, <1>7, BackupTypes DEF CreateInv
    <2>. QED  BY <1>2, <1>3, <1>7, <2>1, <2>2 DEF CreateInv
  <1>9. ASSUME NEW c \in Calls PROVE VerifyInv(c)'
    BY <1>4, <1>7 DEF VerifyInv, Accounted
  <1>. QED  BY <1>5, <1>6, <1>8, <1>9

-----------------------------------------------------------------------------
(* Steps of a call                                                         *)

(***************************************************************************)
(* The rest of the calls see a step in the two files alone.                *)
(***************************************************************************)
Others(c) ==
    \A d \in Calls \ {c} :
        /\ call'[d] = call[d] /\ evidence'[d] = evidence[d] /\ restored'[d] = restored[d]
        /\ verdict'[d] = verdict[d] /\ scratch'[d] = scratch[d]
        /\ tampered'[d] = tampered[d]

LEMMA GoFacts ==
    ASSUME BackupTypeOK, NEW c \in Calls, NEW next, Go(c, next)
    PROVE  /\ call'[c] = next
           /\ \A d \in Calls \ {c} : call'[d] = call[d]
           /\ rows' = rows /\ database' = database /\ Source' = Source
  BY DEF Go, BackupTypeOK, Source

LEMMA ExitFacts ==
    ASSUME BackupTypeOK, NEW c \in Calls, Exit(c)
    PROVE  /\ call'[c] = "idle" /\ evidence'[c] = NoEvidence(c)
           /\ restored'[c] = Partial(c) /\ verdict'[c] = "none"
           /\ \A d \in Calls \ {c} :
                 /\ call'[d] = call[d] /\ evidence'[d] = evidence[d]
                 /\ restored'[d] = restored[d] /\ verdict'[d] = verdict[d]
                 /\ tampered'[d] = tampered[d]
           /\ rows' = rows /\ database' = database /\ Source' = Source
           /\ evidence' \in [Calls -> Manifests]
           /\ restored' \in [Calls -> Archives]
           /\ verdict' \in [Calls -> {"none", "verified", "differs"}]
           /\ tampered' \in [Calls -> BOOLEAN]
           /\ call' \in [Calls -> {"idle", "dump", "digest", "counts", "manifest", "unlink",
                                   "unlink_manifest", "check", "createdb", "restore",
                                   "compare", "drop"}]
  <1>1. call' = [call EXCEPT ![c] = "idle"] /\ rows' = rows /\ database' = database
    BY DEF Exit, Go
  <1>2. NoEvidence(c) \in Manifests /\ Partial(c) \in Archives
    BY BackupTypes
  <1>. QED  BY <1>1, <1>2 DEF Exit, BackupTypeOK, Source

LEMMA GiveUpFacts ==
    ASSUME BackupTypeOK, NEW c \in Calls, NEW next, GiveUp(c, next)
    PROVE  /\ Go(c, next) /\ evidence'[c] = NoEvidence(c) /\ restored'[c] = Partial(c)
           /\ \A d \in Calls \ {c} :
                 evidence'[d] = evidence[d] /\ restored'[d] = restored[d]
           /\ verdict' = verdict /\ tampered' = tampered
           /\ evidence' \in [Calls -> Manifests]
           /\ restored' \in [Calls -> Archives]
  BY BackupTypes DEF GiveUp, BackupTypeOK

(***************************************************************************)
(* A call that exits, with the files as they were or one of them unlinked  *)
(* or made unreadable.                                                     *)
(***************************************************************************)
LEMMA ExitKeeps ==
    ASSUME BackupInv, NEW c \in Calls, Exit(c), archive' = archive,
           \/ manifest' \in {manifest, NoFile, Unreadable}
           \/ manifest' = evidence[c] /\ call[c] = "manifest",
           scratch' \in [Calls -> {"none", "there", "left"}], scratch'[c] # "there",
           \A d \in Calls \ {c} : scratch'[d] = scratch[d]
    PROVE  BackupInv'
  <1>. USE DEF BackupInv
  <1>1. BackupTypeOK'
    BY ExitFacts DEF BackupTypeOK
  <1>2. Others(c)
    BY ExitFacts DEF Others
  <1>3. FilesInv'
    <2>1. CASE manifest' = evidence[c] /\ call[c] = "manifest"
      BY <2>1 DEF VerifyInv, FilesInv, Genuine
    <2>2. CASE manifest' \in {manifest, NoFile, Unreadable}
      BY <2>2 DEF FilesInv, Genuine
    <2>. QED  BY <2>1, <2>2
  <1>4. CreateInv(c)' /\ VerifyInv(c)'
    BY ExitFacts, BackupTypes DEF CreateInv, VerifyInv
  <1>5. ASSUME NEW d \in Calls \ {c} PROVE CreateInv(d)' /\ VerifyInv(d)'
    BY <1>2, <1>5, ExitFacts DEF Others, CreateInv, VerifyInv
  <1>. QED  BY <1>1, <1>3, <1>4, <1>5

LEMMA CreateKeeps ==
    ASSUME BackupInv, NEW c \in Calls, Create(c)
    PROVE  BackupInv'
  <1>. USE DEF BackupInv
  <1>1. BackupTypeOK'
    BY BackupTypes DEF Create, Go, Keep, BackupTypeOK
  <1>2. Others(c) /\ Source' = Source /\ UNCHANGED <<manifest, evidence, restored, verdict, tampered>>
    BY GoFacts DEF Create, Others, Keep, BackupTypeOK
  <1>3. CASE archive = NoFile
    <2>1. archive' = Partial(c) /\ call'[c] = "dump"
      BY <1>3, GoFacts DEF Create
    <2>2. FilesInv'
      BY <1>2, <2>1, BackupTypes DEF FilesInv, Genuine
    <2>3. CreateInv(c)' /\ VerifyInv(c)'
      BY <1>2, <2>1 DEF Create, CreateInv, VerifyInv, Accounted, BackupTypeOK
    <2>4. ASSUME NEW d \in Calls \ {c} PROVE CreateInv(d)' /\ VerifyInv(d)'
      BY <1>2, <2>1, <2>4, BackupTypes DEF Others, CreateInv, VerifyInv, Accounted
    <2>. QED  BY <1>1, <2>2, <2>3, <2>4
  <1>4. CASE archive # NoFile
    <2>1. archive' = archive /\ call'[c] = "unlink"
      BY <1>4, GoFacts DEF Create
    <2>2. FilesInv'
      BY <1>2, <2>1 DEF FilesInv, Genuine
    <2>3. CreateInv(c)' /\ VerifyInv(c)'
      BY <1>2, <2>1 DEF Create, CreateInv, VerifyInv, Accounted, BackupTypeOK
    <2>4. ASSUME NEW d \in Calls \ {c} PROVE CreateInv(d)' /\ VerifyInv(d)'
      BY <1>2, <2>1, <2>4 DEF Others, CreateInv, VerifyInv, Accounted
    <2>. QED  BY <1>1, <2>2, <2>3, <2>4
  <1>. QED  BY <1>3, <1>4

LEMMA DumpKeeps ==
    ASSUME BackupInv, NEW c \in Calls, Dump(c)
    PROVE  BackupInv'
  <1>. USE DEF BackupInv
  <1>1. BackupTypeOK'
    BY BackupTypes DEF Dump, Go, Keep, BackupTypeOK
  <1>2. /\ Others(c) /\ Source' = Source
        /\ UNCHANGED <<manifest, evidence, restored, verdict, scratch, tampered>>
        /\ call[c] = "dump" /\ call'[c] = "digest"
    BY GoFacts DEF Dump, Others, Keep, BackupTypeOK
  <1>3. CASE archive = Partial(c)
    <2>1. archive' = [owner |-> c, state |-> "whole", data |-> Source]
      BY <1>3 DEF Dump
    <2>2. FilesInv'
      BY <1>2, <2>1 DEF FilesInv, Genuine
    <2>3. CreateInv(c)' /\ VerifyInv(c)'
      BY <1>2, <2>1 DEF CreateInv, VerifyInv, Accounted
    <2>4. ASSUME NEW d \in Calls \ {c} PROVE CreateInv(d)' /\ VerifyInv(d)'
      BY <1>2, <2>1, <2>4 DEF Others, CreateInv, VerifyInv, Accounted
    <2>. QED  BY <1>1, <2>2, <2>3, <2>4
  <1>4. CASE archive # Partial(c)
    <2>1. archive' = archive /\ (archive = NoFile \/ archive.owner # c)
      BY <1>2, <1>4 DEF Dump, CreateInv
    <2>2. FilesInv'
      BY <1>2, <2>1 DEF FilesInv, Genuine
    <2>3. CreateInv(c)' /\ VerifyInv(c)'
      BY <1>2, <2>1 DEF CreateInv, VerifyInv, Accounted
    <2>4. ASSUME NEW d \in Calls \ {c} PROVE CreateInv(d)' /\ VerifyInv(d)'
      BY <1>2, <2>1, <2>4 DEF Others, CreateInv, VerifyInv, Accounted
    <2>. QED  BY <1>1, <2>2, <2>3, <2>4
  <1>. QED  BY <1>3, <1>4

(***************************************************************************)
(* Any other step of a call: it may unlink a file, and changes no content. *)
(***************************************************************************)
LEMMA StepKeeps ==
    ASSUME BackupInv, NEW c \in Calls, BackupTypeOK', Others(c), Source' = Source,
           archive' \in {archive, NoFile}, manifest' \in {manifest, NoFile},
           CreateInv(c)', VerifyInv(c)'
    PROVE  BackupInv'
  <1>. USE DEF BackupInv
  <1>1. FilesInv'
    BY DEF FilesInv, Genuine
  <1>2. ASSUME NEW d \in Calls \ {c} PROVE CreateInv(d)' /\ VerifyInv(d)'
    BY <1>2 DEF Others, CreateInv, VerifyInv, Accounted
  <1>. QED  BY <1>1, <1>2

(***************************************************************************)
(* A call that gives up has nothing left to be wrong about.                *)
(***************************************************************************)
LEMMA GiveUpKeeps ==
    ASSUME BackupInv, NEW c \in Calls, GiveUp(c, "unlink") \/ GiveUp(c, "drop"),
           verdict[c] = "none",
           scratch[c] = "there" => call'[c] = "drop",
           UNCHANGED <<files, scratch>>
    PROVE  BackupInv'
  <1>. USE DEF BackupInv
  <1>1. PICK next \in {"unlink", "drop"} : GiveUp(c, next)
    OBVIOUS
  <1>2. /\ Go(c, next) /\ evidence'[c] = NoEvidence(c) /\ restored'[c] = Partial(c)
        /\ \A d \in Calls \ {c} :
              evidence'[d] = evidence[d] /\ restored'[d] = restored[d]
        /\ verdict' = verdict /\ tampered' = tampered
        /\ evidence' \in [Calls -> Manifests] /\ restored' \in [Calls -> Archives]
    BY <1>1, GiveUpFacts
  <1>3. /\ call'[c] = next /\ Source' = Source
        /\ \A d \in Calls \ {c} : call'[d] = call[d]
    BY <1>2, GoFacts
  <1>4. BackupTypeOK'
    BY <1>2 DEF Go, files, BackupTypeOK
  <1>5. Others(c)
    BY <1>2, <1>3 DEF Others
  <1>6. NoEvidence(c).digest.data = NoEvidence(c).counts
    BY DEF NoEvidence, Partial
  <1>7. CreateInv(c)' /\ VerifyInv(c)'
    BY <1>2, <1>3, <1>6 DEF CreateInv, VerifyInv
  <1>. QED  BY <1>3, <1>4, <1>5, <1>7, StepKeeps DEF files

LEMMA DigestKeeps ==
    ASSUME BackupInv, NEW c \in Calls, Digest(c)
    PROVE  BackupInv'
  <1>. USE DEF BackupInv
  <1>. DEFINE q == evidence[c].quiet /\ archive.owner = c /\ archive.state = "whole"
  <1>1. archive # NoFile /\ archive \in Archives
    BY DEF Digest, BackupTypeOK
  <1>2. evidence' = [evidence EXCEPT ![c] = [evidence[c] EXCEPT !.digest = archive, !.quiet = q]]
    BY DEF Digest, BackupTypeOK, Manifests
  <1>3. q \in BOOLEAN
        /\ (q => evidence[c].quiet /\ archive.owner = c /\ archive.state = "whole")
    OBVIOUS
  <1>. HIDE DEF q
  <1>4. /\ evidence'[c].digest = archive /\ evidence'[c].quiet = q
        /\ evidence' \in [Calls -> Manifests]
    BY <1>1, <1>2, <1>3 DEF BackupTypeOK, Manifests
  <1>5. BackupTypeOK'
    BY <1>4 DEF Digest, Go, files, BackupTypeOK
  <1>6. /\ Others(c) /\ Source' = Source /\ call[c] = "digest" /\ call'[c] = "counts"
        /\ UNCHANGED <<archive, manifest, restored, verdict, scratch, tampered>>
    BY <1>2, GoFacts DEF Digest, Others, files, BackupTypeOK
  <1>7. CreateInv(c)'
    BY <1>1, <1>3, <1>4, <1>6 DEF CreateInv
  <1>8. VerifyInv(c)'
    BY <1>6 DEF VerifyInv
  <1>. QED  BY <1>5, <1>6, <1>7, <1>8, StepKeeps

LEMMA CountsKeeps ==
    ASSUME BackupInv, NEW c \in Calls, Counts(c)
    PROVE  BackupInv'
  <1>. USE DEF BackupInv
  <1>1. call[c] = "counts" /\ UNCHANGED <<files, scratch>>
    BY DEF Counts
  <1>2. CASE GiveUp(c, "unlink")
    BY <1>1, <1>2, GiveUpKeeps DEF VerifyInv
  <1>3. CASE /\ evidence' = [evidence EXCEPT ![c].counts = Source]
             /\ Go(c, "manifest") /\ UNCHANGED <<restored, verdict, tampered>>
    <2>1. evidence' = [evidence EXCEPT ![c] = [evidence[c] EXCEPT !.counts = Source]]
      BY <1>3
    <2>2. /\ evidence'[c].counts = Source /\ evidence'[c].digest = evidence[c].digest
          /\ evidence'[c].quiet = evidence[c].quiet
      BY <2>1 DEF BackupTypeOK, Manifests
    <2>3. evidence' \in [Calls -> Manifests]
      BY <2>1, BackupTypes DEF BackupTypeOK, Manifests
    <2>4. BackupTypeOK'
      BY <1>1, <1>3, <2>3 DEF Go, files, BackupTypeOK
    <2>5. /\ Others(c) /\ Source' = Source /\ call'[c] = "manifest"
          /\ UNCHANGED <<archive, manifest, restored, verdict, scratch, tampered>>
      BY <1>1, <1>3, <2>1, GoFacts DEF Others, files, BackupTypeOK
    <2>6. CreateInv(c)' /\ VerifyInv(c)'
      BY <1>1, <2>2, <2>5 DEF CreateInv, VerifyInv
    <2>. QED  BY <2>4, <2>5, <2>6, StepKeeps
  <1>. QED  BY <1>2, <1>3 DEF Counts

LEMMA WriteManifestKeeps ==
    ASSUME BackupInv, NEW c \in Calls, WriteManifest(c)
    PROVE  BackupInv'
  <1>. USE DEF BackupInv
  <1>1. CASE manifest = NoFile
    BY <1>1, ExitKeeps DEF WriteManifest, BackupTypeOK, VerifyInv
  <1>2. CASE manifest # NoFile
    BY <1>2, GiveUpKeeps DEF WriteManifest, VerifyInv, files
  <1>. QED  BY <1>1, <1>2

(***************************************************************************)
(* The clean-up of a creation, and what leads to it.                       *)
(***************************************************************************)
LEMMA UnlinkKeeps ==
    ASSUME BackupInv, NEW c \in Calls,
           UnlinkArchive(c) \/ UnlinkManifest(c) \/ CreateFails(c)
    PROVE  BackupInv'
  <1>. USE DEF BackupInv
  <1>1. CASE UnlinkManifest(c)
    BY <1>1, ExitKeeps DEF UnlinkManifest, BackupTypeOK, VerifyInv
  <1>2. CASE CreateFails(c)
    BY <1>2, GiveUpKeeps DEF CreateFails, VerifyInv
  <1>3. CASE UnlinkArchive(c)
    <2>1. /\ archive' = NoFile /\ manifest' = manifest /\ call[c] = "unlink"
          /\ UNCHANGED <<evidence, restored, verdict, scratch, tampered>>
      BY <1>3 DEF UnlinkArchive, Keep
    <2>2. BackupTypeOK' /\ Others(c) /\ Source' = Source /\ call'[c] = "unlink_manifest"
      BY <1>3, <2>1, GoFacts DEF UnlinkArchive, Go, BackupTypeOK, Others
    <2>3. CreateInv(c)' /\ VerifyInv(c)'
      BY <2>1, <2>2 DEF CreateInv, VerifyInv
    <2>. QED  BY <2>1, <2>2, <2>3, StepKeeps
  <1>. QED  BY <1>1, <1>2, <1>3

LEMMA VerifyKeeps ==
    ASSUME BackupInv, NEW c \in Calls, Verify(c)
    PROVE  BackupInv'
  <1>. USE DEF BackupInv
  <1>1. manifest \in Manifests /\ Genuine(manifest)
    BY DEF Verify, BackupTypeOK, FilesInv
  <1>2. /\ BackupTypeOK' /\ Others(c) /\ Source' = Source
        /\ call'[c] = "check" /\ evidence'[c] = manifest /\ scratch'[c] = "none"
        /\ UNCHANGED <<archive, manifest, restored, verdict, tampered>> /\ call[c] = "idle"
    BY <1>1, GoFacts DEF Verify, Go, files, BackupTypeOK, Others
  <1>3. CreateInv(c)' /\ VerifyInv(c)'
    BY <1>1, <1>2 DEF CreateInv, VerifyInv, Genuine
  <1>. QED  BY <1>2, <1>3, StepKeeps

LEMMA CheckDigestKeeps ==
    ASSUME BackupInv, NEW c \in Calls, CheckDigest(c)
    PROVE  BackupInv'
  <1>. USE DEF BackupInv
  <1>1. CASE DigestMatches(c) /\ Go(c, "createdb") /\ Keep
    <2>1. /\ BackupTypeOK' /\ Others(c) /\ Source' = Source
          /\ call[c] = "check" /\ call'[c] = "createdb" /\ archive = evidence[c].digest
          /\ UNCHANGED <<archive, manifest, evidence, restored, verdict, scratch, tampered>>
      BY <1>1, GoFacts DEF CheckDigest, DigestMatches, Go, Keep, files, BackupTypeOK, Others
    <2>2. CreateInv(c)' /\ VerifyInv(c)'
      BY <2>1 DEF CreateInv, VerifyInv, Accounted
    <2>. QED  BY <2>1, <2>2, StepKeeps
  <1>2. CASE Exit(c)
    BY <1>2, ExitKeeps DEF CheckDigest, files, BackupTypeOK, VerifyInv
  <1>. QED  BY <1>1, <1>2 DEF CheckDigest

LEMMA CreateDatabaseKeeps ==
    ASSUME BackupInv, NEW c \in Calls, CreateDatabase(c)
    PROVE  BackupInv'
  <1>. USE DEF BackupInv
  <1>1. call[c] = "createdb" /\ UNCHANGED <<archive, manifest>> /\ scratch[c] # "there"
    BY DEF CreateDatabase, files, VerifyInv
  <1>2. CASE scratch' = [scratch EXCEPT ![c] = "there"] /\ Go(c, "restore") /\ Keep
    <2>1. /\ BackupTypeOK' /\ Others(c) /\ Source' = Source /\ call'[c] = "restore"
          /\ UNCHANGED <<evidence, restored, verdict, tampered>>
      BY <1>1, <1>2, GoFacts DEF Go, Keep, BackupTypeOK, Others
    <2>2. CreateInv(c)' /\ VerifyInv(c)'
      BY <1>1, <2>1 DEF CreateInv, VerifyInv
    <2>. QED  BY <1>1, <2>1, <2>2, StepKeeps
  <1>3. CASE scratch' = [scratch EXCEPT ![c] = "left"] /\ Exit(c)
    BY <1>1, <1>3, ExitKeeps DEF BackupTypeOK
  <1>4. CASE UNCHANGED scratch /\ Exit(c)
    BY <1>1, <1>4, ExitKeeps DEF BackupTypeOK
  <1>. QED  BY <1>2, <1>3, <1>4 DEF CreateDatabase

LEMMA RestoreKeeps ==
    ASSUME BackupInv, NEW c \in Calls, Restore(c)
    PROVE  BackupInv'
  <1>. USE DEF BackupInv
  <1>1. archive # NoFile /\ archive \in Archives /\ archive.state \in {"whole", "damaged"}
    BY DEF Restore, BackupTypeOK, Archives
  <1>2. /\ BackupTypeOK' /\ Others(c) /\ Source' = Source
        /\ call[c] = "restore" /\ call'[c] = "compare" /\ restored'[c] = archive
        /\ UNCHANGED <<archive, manifest, evidence, verdict, scratch, tampered>>
    BY <1>1, GoFacts DEF Restore, Go, files, BackupTypeOK, Others
  <1>3. CreateInv(c)' /\ VerifyInv(c)'
    BY <1>1, <1>2 DEF CreateInv, VerifyInv
  <1>. QED  BY <1>2, <1>3, StepKeeps

LEMMA CompareKeeps ==
    ASSUME BackupInv, NEW c \in Calls, Compare(c)
    PROVE  BackupInv'
  <1>. USE DEF BackupInv
  <1>1. /\ BackupTypeOK' /\ Others(c) /\ Source' = Source
        /\ call[c] = "compare" /\ call'[c] = "drop"
        /\ UNCHANGED <<archive, manifest, evidence, restored, scratch, tampered>>
        /\ verdict'[c] = IF CountsMatch(c) THEN "verified" ELSE "differs"
    BY GoFacts DEF Compare, Go, files, BackupTypeOK, Others
  <1>2. CreateInv(c)' /\ VerifyInv(c)'
    BY <1>1 DEF CreateInv, VerifyInv, CountsMatch
  <1>. QED  BY <1>1, <1>2, StepKeeps

LEMMA DropKeeps ==
    ASSUME BackupInv, NEW c \in Calls, Drop(c)
    PROVE  BackupInv'
  BY ExitKeeps DEF BackupInv, Drop, files, BackupTypeOK

LEMMA VerifyFailsKeeps ==
    ASSUME BackupInv, NEW c \in Calls, VerifyFails(c)
    PROVE  BackupInv'
  <1>1. call[c] \in {"restore", "compare"} /\ GiveUp(c, "drop") /\ UNCHANGED <<files, scratch>>
    BY DEF VerifyFails
  <1>2. call'[c] = "drop"
    BY <1>1, GiveUpFacts, GoFacts DEF BackupInv
  <1>. QED  BY <1>1, <1>2, GiveUpKeeps DEF BackupInv, VerifyInv

LEMMA CrashKeeps ==
    ASSUME BackupInv, NEW c \in Calls, Crash(c)
    PROVE  BackupInv'
  BY ExitKeeps DEF BackupInv, Crash, BackupTypeOK

LEMMA BackupStepInv == BackupInv /\ [BackupNext]_backupVars => BackupInv'
  <1>1. ASSUME BackupInv, UNCHANGED backupVars PROVE BackupInv'
    BY <1>1 DEF backupVars, BackupInv, BackupTypeOK, FilesInv, CreateInv, VerifyInv,
           Accounted, Genuine, Source
  <1>2. ASSUME BackupInv, Write \/ SchemaMoves PROVE BackupInv'
    <2>1. rows' \in Nat /\ database' \in Nat
      BY <1>2, SchemaConstants DEF Write, SchemaMoves, Revisions, BackupInv, BackupTypeOK
    <2>. QED  BY <1>2, <2>1, DisturbKeeps DEF Write, SchemaMoves
  <1>3. ASSUME BackupInv, NEW c \in Calls, Step(c) PROVE BackupInv'
    BY <1>3, CreateKeeps, VerifyKeeps, DumpKeeps, DigestKeeps, CountsKeeps, WriteManifestKeeps,
       UnlinkKeeps, CheckDigestKeeps, CreateDatabaseKeeps, RestoreKeeps, CompareKeeps,
       DropKeeps, VerifyFailsKeeps, CrashKeeps DEF Step
  <1>. QED  BY <1>1, <1>2, <1>3, DamageKeeps DEF BackupNext, Around

LEMMA BackupInvariance == BackupSpec => []BackupInv
  BY BackupInitInv, BackupStepInv, PTL DEF BackupSpec

(***************************************************************************)
(* Every variable of fde-backup keeps its type.                            *)
(***************************************************************************)
THEOREM BackupTypeCorrect == BackupSpec => []BackupTypeOK
  BY BackupInvariance, PTL DEF BackupInv

(***************************************************************************)
(* What verify calls verified restores to the counts of its manifest; if   *)
(* it was damaged, that was before its digest was taken or after it was    *)
(* compared.  For any number of calls at once.                             *)
(***************************************************************************)
THEOREM VerifiedIsWhole == BackupSpec => []VerifiedIsTrue
  <1>1. BackupInv => VerifiedIsTrue
    BY DEF BackupInv, VerifyInv, Accounted, VerifiedIsTrue
  <1>. QED  BY <1>1, BackupInvariance, PTL

(***************************************************************************)
(* Counts differ only after a write between dump and counts, or from an    *)
(* archive put in the place of the manifest's own.                         *)
(***************************************************************************)
THEOREM QuietVerifies == BackupSpec => []QuietBackupVerifies
  <1>1. BackupInv => QuietBackupVerifies
    BY DEF BackupInv, VerifyInv, QuietBackupVerifies
  <1>. QED  BY <1>1, BackupInvariance, PTL

(***************************************************************************)
(* A verification that is not cut short drops its database.                *)
(***************************************************************************)
THEOREM ScratchIsDropped == BackupSpec => []NoStrayDatabase
  <1>1. BackupInv => NoStrayDatabase
    BY DEF BackupInv, VerifyInv, NoStrayDatabase
  <1>. QED  BY <1>1, BackupInvariance, PTL

-----------------------------------------------------------------------------
(* The environment                                                         *)

(***************************************************************************)
(* A step of the environment is one of each tool, or none of it.           *)
(***************************************************************************)
LEMMA StepOfBoth ==
    [OperationsNext]_operationsVars => [Next]_vars /\ [BackupNext]_backupVars
  <1>1. ASSUME ReleaseStep PROVE Next /\ UNCHANGED backupVars
    <2>1. database' = database
      BY <1>1 DEF ReleaseStep, Deploy, Rollback, Begin, Pull, WaitHealthy, Smoke, WriteState,
             Record, Fail
    <2>. QED  BY <1>1, <2>1 DEF ReleaseStep, Next, backupVars, backupOnly
  <1>2. ASSUME MigrateStep PROVE Next /\ [BackupNext]_backupVars
    BY <1>2 DEF MigrateStep, Next, BackupNext, backupVars, backupOnly
  <1>3. ASSUME BackupStep PROVE BackupNext /\ UNCHANGED vars
    <2>1. database' = database
      BY <1>3 DEF BackupStep, Around, Write, Damage, Step, Create, Verify, Dump, Digest, Counts,
             WriteManifest, UnlinkArchive, UnlinkManifest, CreateFails, CheckDigest,
             CreateDatabase, Restore, Compare, Drop, VerifyFails, Crash, Go, GiveUp, Exit
    <2>. QED  BY <1>3, <2>1 DEF BackupStep, BackupNext, vars, releaseOnly
  <1>. QED  BY <1>1, <1>2, <1>3 DEF OperationsNext, operationsVars

(***************************************************************************)
(* Each tool behaves in the environment as it does alone: what is proved   *)
(* of Release and of Backup holds of Operations.                           *)
(***************************************************************************)
THEOREM BothTools == OperationsSpec => Spec /\ BackupSpec
  BY StepOfBoth, PTL DEF OperationsSpec, OperationsInit, Spec, BackupSpec

(***************************************************************************)
(* What each tool keeps when it has the environment to itself it keeps     *)
(* when the other runs in the middle of it: the state file (ApprovedOnly,  *)
(* ForwardOnly, RollbackCanSucceed), and what a verification says          *)
(* (VerifiedIsTrue, QuietBackupVerifies, NoStrayDatabase).                 *)
(***************************************************************************)
THEOREM EnvironmentIsSafe ==
    OperationsSpec => [](/\ ApprovedOnly /\ ForwardOnly /\ RollbackCanSucceed
                         /\ VerifiedIsTrue /\ QuietBackupVerifies /\ NoStrayDatabase)
  BY BothTools, FileIsApproved, RevisionsAscend, RollbackIsSafe, VerifiedIsWhole,
     QuietVerifies, ScratchIsDropped, PTL

(***************************************************************************)
(* What was counted was counted at a revision of an image, and not one     *)
(* that the database has yet to reach.                                     *)
(***************************************************************************)
Past(counts) == counts.revision \in Revisions /\ counts.revision <= database

Knows(c) ==
    \/ call[c] \in {"manifest", "check", "createdb", "restore", "compare"}
    \/ verdict[c] # "none"

Counted ==
    /\ manifest \notin {NoFile, Unreadable} => Past(manifest.counts)
    /\ \A c \in Calls : Knows(c) => Past(evidence[c].counts)

LEMMA CountedInit == OperationsInit => Counted
  BY DEF OperationsInit, BackupInit, Counted, Knows

LEMMA DatabaseAscends ==
    ASSUME TypeOK, [OperationsNext]_operationsVars
    PROVE  database' >= database
  <1>1. CASE MigrateStep
    BY <1>1 DEF MigrateStep, Migrate
  <1>2. CASE ~ MigrateStep
    <2>1. database' = database
      BY <1>2 DEF OperationsNext, operationsVars, vars, ReleaseStep, Deploy, Rollback, Begin, Pull,
             WaitHealthy, Smoke, WriteState, Record, Fail, BackupStep, Around, Write, Damage, Step,
             Create, Verify, Dump, Digest, Counts, WriteManifest, UnlinkArchive, UnlinkManifest,
             CreateFails, CheckDigest, CreateDatabase, Restore, Compare, Drop, VerifyFails,
             Crash, Go, GiveUp, Exit
    <2>. QED  BY <2>1 DEF TypeOK
  <1>. QED  BY <1>1, <1>2

LEMMA CountedStep ==
    ASSUME BackupInv, BackupTypeOK', Counted, [BackupNext]_backupVars, database' >= database
    PROVE  Counted'
  <1>. USE DEF BackupInv, Counted
  <1>1. \A counts \in Snapshots : Past(counts) => Past(counts)'
    BY SchemaConstants DEF Past, Snapshots, BackupTypeOK, Revisions
  <1>2. /\ \A c \in Calls : evidence[c].counts \in Snapshots
        /\ manifest \notin {NoFile, Unreadable} => manifest.counts \in Snapshots
    BY DEF BackupTypeOK, Manifests
  <1>3. ASSUME UNCHANGED <<manifest, call, verdict>>,
               \A c \in Calls : evidence'[c].counts = evidence[c].counts
        PROVE  Counted'
    BY <1>1, <1>2, <1>3 DEF Knows
  <1>4. CASE UNCHANGED backupVars \/ Damage
    BY <1>3, <1>4 DEF backupVars, Damage
  <1>5. CASE Write \/ SchemaMoves
    <2>1. \A c \in Calls : evidence'[c].counts = evidence[c].counts
      BY <1>5 DEF Write, SchemaMoves, Disturb, BackupTypeOK, Manifests
    <2>. QED  BY <1>3, <1>5, <2>1 DEF Write, SchemaMoves, files
  <1>6. ASSUME NEW c \in Calls, Step(c) PROVE Counted'
    <2>1. ASSUME \/ manifest' \in {manifest, NoFile, Unreadable}
                 \/ manifest' = evidence[c] /\ Knows(c),
                 \A d \in Calls \ {c} :
                    call'[d] = call[d] /\ evidence'[d] = evidence[d] /\ verdict'[d] = verdict[d],
                 Knows(c)' => Past(evidence[c].counts)'
          PROVE  Counted'
      <3>1. manifest' \notin {NoFile, Unreadable} => Past(manifest.counts)'
        BY <1>1, <1>2, <2>1
      <3>2. ASSUME NEW d \in Calls \ {c}, Knows(d)' PROVE Past(evidence[d].counts)'
        BY <1>1, <1>2, <2>1, <3>2 DEF Knows
      <3>. QED  BY <2>1, <3>1, <3>2
    <2>2. ASSUME Exit(c), \/ manifest' \in {manifest, NoFile, Unreadable}
                          \/ manifest' = evidence[c] /\ Knows(c)
          PROVE  Counted'
      <3>1. ~ Knows(c)'
        BY <2>2, ExitFacts DEF Knows
      <3>. QED  BY <2>1, <2>2, <3>1, ExitFacts
    <2>3. ASSUME NEW next, Go(c, next), manifest' \in {manifest, NoFile},
                 UNCHANGED <<evidence, verdict>>,
                 next \in {"manifest", "check", "createdb", "restore", "compare"} => Knows(c)
          PROVE  Counted'
      <3>1. Knows(c)' => Knows(c)
        BY <2>3, GoFacts DEF Knows
      <3>2. Knows(c)' => Past(evidence[c].counts)'
        BY <1>1, <1>2, <2>3, <3>1
      <3>. QED  BY <2>1, <2>3, <3>2, GoFacts
    <2>4. ASSUME GiveUp(c, "unlink") \/ GiveUp(c, "drop"), manifest' = manifest,
                 verdict[c] = "none"
          PROVE  Counted'
      <3>1. PICK next \in {"unlink", "drop"} : GiveUp(c, next)
        BY <2>4
      <3>2. ~ Knows(c)'
        BY <2>4, <3>1, GiveUpFacts, GoFacts DEF Knows
      <3>. QED  BY <2>1, <2>4, <3>1, <3>2, GiveUpFacts, GoFacts
    <2>5. CASE Verify(c)
      <3>1. manifest \notin {NoFile, Unreadable} /\ manifest' = manifest
        BY <2>5 DEF Verify, files
      <3>2. /\ evidence'[c] = manifest
            /\ \A d \in Calls \ {c} : /\ call'[d] = call[d] /\ evidence'[d] = evidence[d]
                                      /\ verdict'[d] = verdict[d]
        BY <2>5 DEF Verify, Go, BackupTypeOK
      <3>. QED  BY <1>1, <1>2, <2>1, <3>1, <3>2
    <2>6. CASE Digest(c)
      <3>1. manifest' = manifest /\ call'[c] = "counts" /\ verdict' = verdict
        BY <2>6 DEF Digest, Go, files, BackupTypeOK
      <3>2. \A d \in Calls \ {c} : call'[d] = call[d] /\ evidence'[d] = evidence[d]
        BY <2>6 DEF Digest, Go, BackupTypeOK
      <3>3. verdict[c] = "none"
        BY <2>6 DEF Digest, VerifyInv
      <3>4. ~ Knows(c)'
        BY <3>1, <3>3 DEF Knows
      <3>. QED  BY <2>1, <3>1, <3>2, <3>4
    <2>7. CASE Counts(c)
      <3>1. PICK current \in Revisions :
              \/ /\ database = current
                 /\ evidence' = [evidence EXCEPT ![c].counts = Source]
                 /\ Go(c, "manifest")
                 /\ UNCHANGED <<restored, verdict, tampered>>
              \/ database # current /\ GiveUp(c, "unlink")
        BY <2>7 DEF Counts
      <3>2. manifest' = manifest /\ verdict[c] = "none"
        BY <2>7 DEF Counts, files, VerifyInv
      <3>3. CASE GiveUp(c, "unlink")
        BY <2>4, <3>2, <3>3
      <3>4. CASE /\ database = current /\ Go(c, "manifest") /\ verdict' = verdict
                 /\ evidence' = [evidence EXCEPT ![c].counts = Source]
        <4>1. evidence'[c].counts.revision = database /\ database' = database
          BY <3>4 DEF Go, BackupTypeOK, Manifests, Source
        <4>2. database \in Revisions /\ Revisions' = Revisions /\ database \in Nat
          BY <3>4 DEF BackupTypeOK, Revisions
        <4>3. Past(evidence[c].counts)'
          BY <4>1, <4>2 DEF Past
        <4>4. \A d \in Calls \ {c} : call'[d] = call[d] /\ evidence'[d] = evidence[d]
          BY <3>4 DEF Go, BackupTypeOK
        <4>. QED  BY <2>1, <3>2, <3>4, <4>3, <4>4
      <3>. QED  BY <3>1, <3>3, <3>4
    <2>8. CASE Create(c)
      BY <2>3, <2>8 DEF Create, Keep
    <2>9. CASE Dump(c) \/ UnlinkArchive(c)
      BY <2>3, <2>9 DEF Dump, UnlinkArchive, Keep
    <2>10. CASE Restore(c)
      BY <2>3, <2>10 DEF Restore, files, Knows
    <2>11. CASE Compare(c)
      <3>1. /\ call[c] = "compare" /\ manifest' = manifest /\ evidence' = evidence
            /\ \A d \in Calls \ {c} : call'[d] = call[d] /\ verdict'[d] = verdict[d]
        BY <2>11 DEF Compare, Go, files, BackupTypeOK
      <3>2. Past(evidence[c].counts)'
        BY <1>1, <1>2, <3>1 DEF Knows
      <3>. QED  BY <2>1, <3>1, <3>2
    <2>12. CASE CreateFails(c) \/ VerifyFails(c)
      BY <2>4, <2>12 DEF CreateFails, VerifyFails, VerifyInv, files
    <2>13. CASE WriteManifest(c)
      BY <2>2, <2>4, <2>13 DEF WriteManifest, Knows, VerifyInv
    <2>14. CASE UnlinkManifest(c) \/ Drop(c) \/ Crash(c)
      <3>1. Exit(c) /\ manifest' \in {manifest, NoFile, Unreadable}
        BY <2>14 DEF UnlinkManifest, Drop, Crash, files
      <3>. QED  BY <2>2, <3>1
    <2>15. CASE CheckDigest(c) \/ CreateDatabase(c)
      <3>1. manifest' = manifest /\ Knows(c)
        BY <2>15 DEF CheckDigest, CreateDatabase, files, Knows
      <3>2. CASE Exit(c)
        BY <2>2, <3>1, <3>2
      <3>3. CASE ~ Exit(c)
        <4>1. PICK next \in {"createdb", "restore"} : Go(c, next) /\ Keep
          BY <2>15, <3>3 DEF CheckDigest, CreateDatabase
        <4>. QED  BY <2>3, <3>1, <4>1 DEF Keep
      <3>. QED  BY <3>2, <3>3
    <2>. QED  BY <1>6, <2>5, <2>6, <2>7, <2>8, <2>9, <2>10, <2>11, <2>12, <2>13, <2>14, <2>15
              DEF Step
  <1>. QED  BY <1>4, <1>5, <1>6 DEF BackupNext, Around

(***************************************************************************)
(* A verified archive can be taken on to the head of the environment,      *)
(* whatever releases, failures and other backups it crossed.               *)
(***************************************************************************)
THEOREM VerifiedIsOfThePast == OperationsSpec => []VerifiedCanUpgrade
  <1>1. OperationsSpec => [](TypeOK /\ BackupInv /\ BackupTypeOK)
    <2>1. BackupInv => BackupTypeOK
      BY DEF BackupInv
    <2>. QED  BY <2>1, BothTools, TypeCorrect, BackupInvariance, PTL
  <1>2. /\ TypeOK /\ BackupInv /\ BackupTypeOK'
        /\ Counted /\ [OperationsNext]_operationsVars
        => Counted'
    BY StepOfBoth, DatabaseAscends, CountedStep
  <1>3. OperationsSpec => []Counted
    BY <1>1, <1>2, CountedInit, PTL DEF OperationsSpec
  <1>4. BackupInv /\ Counted => VerifiedCanUpgrade
    BY DEF BackupInv, VerifyInv, Counted, Knows, Past, VerifiedCanUpgrade
  <1>. QED  BY <1>1, <1>3, <1>4, PTL
=============================================================================
