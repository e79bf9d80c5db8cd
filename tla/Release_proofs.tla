--------------------------- MODULE Release_proofs ---------------------------
(***************************************************************************)
(* Proofs about Release, for any set of images and any revisions.          *)
(***************************************************************************)
EXTENDS Release, TLAPS

(***************************************************************************)
(* What the file names was deployed; what it says of its schema may be     *)
(* that of another checkout.                                               *)
(***************************************************************************)
Recorded(e) == e = NoEntry \/ e.image \in Images

FileInv == Recorded(file.current) /\ Recorded(file.previous)

(***************************************************************************)
(* An action under way knows the release it replaces; once it has migrated *)
(* the database is at the revision of its image, and before it writes that *)
(* image has passed the smoke test.                                        *)
(***************************************************************************)
ActionInv ==
    /\ pc # "idle" => target \in Images /\ prior = file.current
    /\ pc \in {"health", "smoke", "write"} => database = Head[target]
    /\ pc = "write" => target \in smoked

(***************************************************************************)
(* Until something fails, only a migration takes the database beyond the   *)
(* current release.                                                        *)
(***************************************************************************)
CleanInv ==
    clean /\ pc \in {"idle", "pull", "migrate"} => database = Needs(file.current)

IInv == TypeOK /\ FileInv /\ ActionInv /\ CleanInv /\ ForwardOnly /\ ApprovedOnly

LEMMA EntryTypes ==
    /\ NoEntry \in Entries
    /\ \A i \in Images, current \in Revisions :
          LET e == [image |-> i, schema |-> current]
          IN  e \in Entries /\ Recorded(e) /\ Needs(e) = Head[i]
<1>1. NoEntry \in Entries
  BY DEF Entries, NoEntry
<1>2. ASSUME NEW i \in Images, NEW current \in Revisions
      PROVE  LET e == [image |-> i, schema |-> current]
             IN  e \in Entries /\ Recorded(e) /\ Needs(e) = Head[i]
  <2>1. current \in Nat
    BY SchemaConstants DEF Revisions
  <2>2. [image |-> i, schema |-> current] # NoEntry
    BY ReleaseConstants DEF NoEntry
  <2> QED
    BY <2>1, <2>2 DEF Entries, Recorded, Needs
<1> QED
  BY <1>1, <1>2

LEMMA InitHolds == Init => IInv
<1> SUFFICES ASSUME Init PROVE IInv
  OBVIOUS
<1>1. TypeOK
  BY EntryTypes DEF Init, TypeOK
<1>2. FileInv
  BY DEF Init, FileInv, Recorded
<1>3. ActionInv /\ CleanInv /\ ForwardOnly /\ ApprovedOnly
  BY DEF Init, ActionInv, CleanInv, ForwardOnly, ApprovedOnly, Needs, NoEntry
<1> QED
  BY <1>1, <1>2, <1>3 DEF IInv

(***************************************************************************)
(* Steps that leave the file alone.                                        *)
(***************************************************************************)
LEMMA BeginKeeps ==
    ASSUME IInv, NEW i \in Images, Begin(i)
    PROVE  IInv'
<1> USE DEF IInv, Begin
<1>1. TypeOK'
  BY DEF TypeOK
<1>2. FileInv' /\ ApprovedOnly' /\ ForwardOnly'
  BY DEF FileInv, Recorded, ApprovedOnly, ForwardOnly, Needs
<1>3. ActionInv' /\ CleanInv'
  BY DEF ActionInv, CleanInv, Needs
<1> QED
  BY <1>1, <1>2, <1>3

LEMMA RollbackKeeps ==
    ASSUME IInv, Rollback
    PROVE  IInv'
<1>1. file.previous.image \in Images
  BY DEF IInv, FileInv, Recorded, Rollback, MayRollBack
<1> QED
  BY <1>1, BeginKeeps DEF Rollback

LEMMA CommandKeeps ==
    ASSUME IInv, Pull \/ Migrate \/ WaitHealthy \/ Smoke
    PROVE  IInv'
<1> USE DEF IInv
<1>1. TypeOK'
  BY SchemaConstants, ReleaseConstants DEF TypeOK, ActionInv, Pull, Migrate, WaitHealthy, Smoke
<1>2. FileInv' /\ ApprovedOnly'
  BY DEF FileInv, Recorded, ApprovedOnly, Pull, Migrate, WaitHealthy, Smoke
<1>3. ForwardOnly'
  <2>1. CASE Migrate
    <3>1. Head[target] \in Nat /\ database \in Nat /\ database <= Head[target]
      BY <2>1, SchemaConstants, ReleaseConstants DEF Migrate, ActionInv, TypeOK
    <3>2. Needs(file.current) \in Nat
      BY SchemaConstants DEF FileInv, Recorded, Needs
    <3> QED
      BY <2>1, <3>1, <3>2 DEF Migrate, ForwardOnly, Needs
  <2>2. CASE Pull \/ WaitHealthy \/ Smoke
    BY <2>2 DEF ForwardOnly, Needs, Pull, WaitHealthy, Smoke
  <2> QED
    BY <2>1, <2>2
<1>4. ActionInv' /\ CleanInv'
  BY DEF ActionInv, CleanInv, Needs, Pull, Migrate, WaitHealthy, Smoke
<1> QED
  BY <1>1, <1>2, <1>3, <1>4

(***************************************************************************)
(* Whatever revision is recorded, the images are those that were deployed. *)
(***************************************************************************)
LEMMA WriteKeeps ==
    ASSUME IInv, WriteState
    PROVE  IInv'
<1> USE DEF IInv, Record
<1>1. PICK current \in Revisions : Record(current)
  BY DEF WriteState
<1> DEFINE entry == [image |-> target, schema |-> current]
<1>2. /\ target \in Images /\ target \in smoked
      /\ prior = file.current
      /\ database = Head[target]
  BY DEF ActionInv, WriteState
<1>3. /\ file' = [current |-> entry, previous |-> file.current]
      /\ database' = database /\ smoked' = smoked /\ clean' = TRUE
      /\ pc' = "idle" /\ target' = NoImage /\ prior' = NoEntry
  BY <1>1, <1>2 DEF End
<1>4. entry \in Entries /\ Recorded(entry) /\ Needs(entry) = Head[target]
  BY <1>2, EntryTypes
<1>5. entry.image = target
  OBVIOUS
<1> HIDE DEF entry
<1>6. file'.current = entry /\ file'.previous = file.current
  BY <1>3
<1>7. TypeOK'
  BY <1>3, <1>4, EntryTypes DEF TypeOK
<1>8. FileInv'
  BY <1>4, <1>6 DEF FileInv, Recorded
<1>9. ApprovedOnly'
  BY <1>2, <1>3, <1>5, <1>6 DEF ApprovedOnly
<1>10. Needs(file.current)' = Head[target] /\ Needs(file.previous)' = Needs(file.current)
  BY <1>4, <1>6 DEF Needs
<1>11. ForwardOnly'
  <2>1. Needs(file.current) <= database /\ Head[target] \in Nat
    BY <1>2, SchemaConstants DEF ForwardOnly
  <2> QED
    BY <1>2, <1>3, <1>10, <2>1 DEF ForwardOnly
<1>12. ActionInv' /\ CleanInv'
  BY <1>2, <1>3, <1>10 DEF ActionInv, CleanInv
<1> QED
  BY <1>7, <1>8, <1>9, <1>11, <1>12

LEMMA FailKeeps ==
    ASSUME IInv, Fail
    PROVE  IInv'
<1> USE DEF IInv, Fail, End
<1>1. TypeOK'
  BY EntryTypes DEF TypeOK
<1>2. FileInv' /\ ApprovedOnly' /\ ForwardOnly'
  BY DEF FileInv, Recorded, ApprovedOnly, ForwardOnly, Needs
<1>3. ActionInv' /\ CleanInv'
  BY DEF ActionInv, CleanInv, Needs
<1> QED
  BY <1>1, <1>2, <1>3

LEMMA NextKeeps == IInv /\ [Next]_vars => IInv'
<1> SUFFICES ASSUME IInv, [Next]_vars PROVE IInv'
  OBVIOUS
<1>1. ASSUME NEW i \in Images, Deploy(i) PROVE IInv'
  BY <1>1, BeginKeeps DEF Deploy
<1>2. CASE Rollback
  BY <1>2, RollbackKeeps
<1>3. CASE Pull \/ Migrate \/ WaitHealthy \/ Smoke
  BY <1>3, CommandKeeps
<1>4. CASE WriteState
  BY <1>4, WriteKeeps
<1>5. CASE Fail
  BY <1>5, FailKeeps
<1>6. CASE UNCHANGED vars
  BY <1>6 DEF vars, IInv, TypeOK, FileInv, Recorded, ActionInv, CleanInv,
              ForwardOnly, Needs, ApprovedOnly
<1> QED
  BY <1>1, <1>2, <1>3, <1>4, <1>5, <1>6 DEF Next

LEMMA Invariance == Spec => []IInv
BY InitHolds, NextKeeps, PTL DEF Spec

-----------------------------------------------------------------------------

(***************************************************************************)
(* Every variable of the controller keeps its type.                        *)
(***************************************************************************)
THEOREM TypeCorrect == Spec => []TypeOK
<1>1. IInv => TypeOK
  BY DEF IInv
<1> QED
  BY <1>1, Invariance, PTL

(***************************************************************************)
(* The state file only names releases that passed the smoke test.          *)
(***************************************************************************)
THEOREM FileIsApproved == Spec => []ApprovedOnly
<1>1. IInv => ApprovedOnly
  BY DEF IInv
<1> QED
  BY <1>1, Invariance, PTL

(***************************************************************************)
(* What the images need never goes back, from the previous release to the  *)
(* current one to the database, whatever revisions the file records.       *)
(***************************************************************************)
THEOREM RevisionsAscend == Spec => []ForwardOnly
<1>1. IInv => ForwardOnly
  BY DEF IInv
<1> QED
  BY <1>1, Invariance, PTL

(***************************************************************************)
(* After a success, a rollback that the controller allows, on a file that  *)
(* is true of its images, finds the database at the revision of the image  *)
(* it goes back to.                                                        *)
(***************************************************************************)
THEOREM RollbackIsSafe == Spec => []RollbackCanSucceed
<1>1. IInv => RollbackCanSucceed
  BY DEF IInv, CleanInv, RollbackCanSucceed, RecordIsTrue, MayRollBack
<1> QED
  BY <1>1, Invariance, PTL
=============================================================================
