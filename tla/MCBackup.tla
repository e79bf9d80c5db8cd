------------------------------ MODULE MCBackup ------------------------------
(***************************************************************************)
(* Two calls over one archive, in a database at its only revision.         *)
(***************************************************************************)
EXTENDS Backup

CONSTANT v1

MCImages == {v1}

MCHead == [i \in Images |-> 1]

MCSpec == BackupInit /\ database = Head[v1] /\ [][BackupNext]_backupVars
=============================================================================
