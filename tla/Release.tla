------------------------------- MODULE Release -------------------------------
(***************************************************************************)
(* fde-release (release.py): deploy or roll back one environment, and      *)
(* write the state file only after the smoke test.                         *)
(*                                                                         *)
(* One controller at a time, which docs/release-contract.md leaves to the  *)
(* operator, from whatever checkout it is run from: nothing compares that  *)
(* with the image.  Any command may fail, and the controller may die       *)
(* between two of them; what was done to the environment stays done.       *)
(***************************************************************************)
EXTENDS Schema

CONSTANT NoImage

ASSUME ReleaseConstants == NoImage \notin Images

VARIABLES
    file,       \* the state file: the current release and the previous one
    pc,         \* the command the controller is at
    target,     \* the image it puts in place
    prior,      \* the release it will record as previous
    smoked,     \* not in the code: the images that passed the smoke test
    clean       \* not in the code: no action failed since the file was written

vars == <<file, database, pc, target, prior, smoked, clean>>

Entries == [image : Images \cup {NoImage}, schema : Nat]

NoEntry == [image |-> NoImage, schema |-> 0]

TypeOK ==
    /\ file \in [current : Entries, previous : Entries]
    /\ database \in Nat
    /\ pc \in {"idle", "pull", "migrate", "health", "smoke", "write"}
    /\ target \in Images \cup {NoImage}
    /\ prior \in Entries
    /\ smoked \subseteq Images
    /\ clean \in BOOLEAN

Init ==
    /\ file = [current |-> NoEntry, previous |-> NoEntry]
    /\ database = 0
    /\ pc = "idle"
    /\ target = NoImage
    /\ prior = NoEntry
    /\ smoked = {}
    /\ clean = TRUE

-----------------------------------------------------------------------------

Begin(i) ==
    /\ pc = "idle"
    /\ pc' = "pull"
    /\ target' = i
    /\ prior' = file.current
    /\ UNCHANGED <<file, database, smoked, clean>>

Deploy(i) == Begin(i)

\* Fault: the recorded revisions are not compared.
FaultAnyRevision == file.previous # NoEntry

MayRollBack ==
    /\ file.previous # NoEntry
    /\ file.previous.schema = file.current.schema

Rollback == MayRollBack /\ Begin(file.previous.image)

(***************************************************************************)
(* compose config and docker pull: nothing has changed yet.                *)
(***************************************************************************)
Pull ==
    /\ pc = "pull"
    /\ pc' = "migrate"
    /\ UNCHANGED <<file, database, target, prior, smoked, clean>>

\* Fault: the database is taken to the revision of the image either way.
FaultDowngrade ==
    /\ pc = "migrate"
    /\ database' = Head[target]
    /\ pc' = "health"
    /\ UNCHANGED <<file, target, prior, smoked, clean>>

(***************************************************************************)
(* The migrate service: alembic upgrade head, one transaction.  A revision *)
(* that the image does not know is an error.                               *)
(***************************************************************************)
Migrate ==
    /\ pc = "migrate"
    /\ database <= Head[target]
    /\ database' = Head[target]
    /\ pc' = "health"
    /\ UNCHANGED <<file, target, prior, smoked, clean>>

(***************************************************************************)
(* up --wait: the health checks ask for the image's own revision.          *)
(***************************************************************************)
WaitHealthy ==
    /\ pc = "health"
    /\ database = Head[target]
    /\ pc' = "smoke"
    /\ UNCHANGED <<file, database, target, prior, smoked, clean>>

Smoke ==
    /\ pc = "smoke"
    /\ smoked' = smoked \cup {target}
    /\ pc' = "write"
    /\ UNCHANGED <<file, database, target, prior, clean>>

End ==
    /\ pc' = "idle"
    /\ target' = NoImage
    /\ prior' = NoEntry

(***************************************************************************)
(* schema_revision is the constant CURRENT_SCHEMA_REVISION of the          *)
(* controller's checkout; write_state replaces the file in one rename.     *)
(***************************************************************************)
Record(current) ==
    /\ file' = [current |-> [image |-> target, schema |-> current],
                previous |-> prior]
    /\ clean' = TRUE
    /\ End
    /\ UNCHANGED <<database, smoked>>

\* Fault: the state is written when the services are healthy.
FaultWriteEarly ==
    /\ pc \in {"smoke", "write"}
    /\ \E current \in Revisions : Record(current)

WriteState ==
    /\ pc = "write"
    /\ \E current \in Revisions : Record(current)

Fail ==
    /\ pc # "idle"
    /\ clean' = FALSE
    /\ End
    /\ UNCHANGED <<file, database, smoked>>

Next ==
    \/ \E i \in Images : Deploy(i)
    \/ Rollback
    \/ Pull
    \/ Migrate
    \/ WaitHealthy
    \/ Smoke
    \/ WriteState
    \/ Fail

Spec == Init /\ [][Next]_vars

-----------------------------------------------------------------------------
(* Properties                                                              *)

(***************************************************************************)
(* Whatever failed half-way, and however often, the file names releases    *)
(* that passed the smoke test ("conserva el ultimo estado aprobado").      *)
(***************************************************************************)
ApprovedOnly ==
    \A e \in {file.current, file.previous} : e # NoEntry => e.image \in smoked

(***************************************************************************)
(* What the images need never goes back, through rollbacks and failures,   *)
(* and whatever the file says: the current release needs at least what the *)
(* previous one does, and the database has what the current one needs.     *)
(***************************************************************************)
Needs(e) == IF e = NoEntry THEN 0 ELSE Head[e.image]

ForwardOnly ==
    /\ Needs(file.previous) <= Needs(file.current)
    /\ Needs(file.current) <= database

(***************************************************************************)
(* A controller run from the checkout of the image it deploys records the  *)
(* revision of the image; one run from another checkout does not.          *)
(***************************************************************************)
RecordIsTrue(e) == e.schema = Needs(e)

(***************************************************************************)
(* When the last action succeeded and the file is true of its two images,  *)
(* a rollback that is allowed goes to an image of the very revision the    *)
(* database has: it can succeed.                                           *)
(***************************************************************************)
RollbackCanSucceed ==
    clean /\ pc = "idle" /\ MayRollBack
          /\ RecordIsTrue(file.previous) /\ RecordIsTrue(file.current) =>
        Needs(file.previous) = database
=============================================================================
