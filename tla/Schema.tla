------------------------------- MODULE Schema -------------------------------
(***************************************************************************)
(* The schema of the release database, and the images built for it: what   *)
(* fde-release and fde-backup have in common.                              *)
(***************************************************************************)
EXTENDS Integers

CONSTANTS
    Images,   \* images by digest, each with the migrations it was built with
    Head      \* Head[i]: the last of its schema revisions, counted from 1

ASSUME SchemaConstants == Head \in [Images -> Nat \ {0}]

VARIABLE database   \* alembic_version, 0 when there is none

(***************************************************************************)
(* CURRENT_SCHEMA_REVISION of the checkouts the images are built from.     *)
(***************************************************************************)
Revisions == {Head[i] : i \in Images}
=============================================================================
