------------------------------ MODULE ImportApi ------------------------------
(***************************************************************************)
(* POST /v1/imports (api.py) and the batch importer (importer.py) over one *)
(* PostgreSQL: the reservation of an idempotency key, the import           *)
(* transaction and the completion, which also writes the outbox row.       *)
(*                                                                         *)
(* A request is one call of create_import; a client that retries sends     *)
(* another request with the same key.  A CLI run is one call of            *)
(* import_csv with no reservation around it.  Reservation and completion   *)
(* are one short transaction each and one step each.  The import           *)
(* transaction is many statements, whose locks and READ COMMITTED          *)
(* snapshots decide what concurrent imports of related files do, so each   *)
(* statement is a step.                                                    *)
(***************************************************************************)
EXTENDS Integers, FiniteSets

CONSTANTS
    Requests,     \* calls of create_import
    CliRuns,      \* calls of import_csv from the command line
    Keys,         \* (actor_hash, idempotency_key_hash) pairs
    Files,        \* bodies, told apart by their SHA-256
    ValidFiles,   \* the bodies validate_csv accepts
    Emails,
    Rows,         \* Rows[f]: the validated rows of f, customer values by email
    NoKey, NoFile, NoCustomer,
    MaxAttempts   \* bound on the lease expiries explored, not a limit of the code

Handlers == Requests \cup CliRuns

Profiles == UNION {{Rows[f][e] : e \in DOMAIN Rows[f]} : f \in Files}

ASSUME ImportConstants ==
    /\ Requests \cap CliRuns = {}
    /\ ValidFiles \subseteq Files
    /\ IsFiniteSet(Emails)
    /\ \A f \in Files : DOMAIN Rows[f] \subseteq Emails
    /\ NoKey \notin Keys
    /\ NoFile \notin Files
    /\ NoCustomer \notin Profiles
    /\ MaxAttempts \in Nat \ {0}

AcceptedStatuses == {"imported", "already_imported"}

RejectedStatuses == {"validation_failed", "conflict"}

RefusedStatuses == RejectedStatuses \cup {"migration_required", "database_error"}

ResultStatuses == AcceptedStatuses \cup RefusedStatuses

(***************************************************************************)
(* Answers that do not show a stored operation: a reused key (409), the    *)
(* generic 503 of create_import, and a request never answered.             *)
(***************************************************************************)
Replies == {"none", "processing", "key_reused", "unavailable"} \cup ResultStatuses

VARIABLES
    ops,        \* api_operations, by key
    batches,    \* import_batches: the files with a committed row
    inserted,   \* import_batches.inserted_count, by file
    customers,  \* customers: the values stored under each email
    origin,     \* customers.import_batch_id, as the file of that batch
    outbox,     \* integration_outbox: the keys with an event
    pc,         \* where each handler is
    key, file,  \* what each handler was asked to import
    attempt,    \* the attempt_count its reservation returned
    fresh,      \* emails its SELECT did not find: new_records
    written,    \* the emails of fresh its open transaction has inserted
    result,     \* the ImportResult it holds
    reply       \* what its client was answered

database == <<ops, batches, inserted, customers, origin, outbox>>
handlers == <<pc, key, file, attempt, fresh, written, result, reply>>
vars == <<ops, batches, inserted, customers, origin, outbox,
          pc, key, file, attempt, fresh, written, result, reply>>

PcValues == {"idle", "validate", "batch", "select", "insert", "complete",
             "done", "crashed"}

Operations ==
    [sha      : Files \cup {NoFile},
     status   : {"absent", "processing"} \cup ResultStatuses,
     attempts : Nat,
     lease    : {"live", "expired"},
     inserted : Nat]

Absent == [sha |-> NoFile, status |-> "absent", attempts |-> 0,
           lease |-> "live", inserted |-> 0]

NoResult == [status |-> "database_error", inserted |-> 0]

TypeOK ==
    /\ ops \in [Keys -> Operations]
    /\ batches \subseteq Files
    /\ inserted \in [Files -> Nat]
    /\ customers \in [Emails -> Profiles \cup {NoCustomer}]
    /\ origin \in [Emails -> Files \cup {NoFile}]
    /\ outbox \subseteq Keys
    /\ pc \in [Handlers -> PcValues]
    /\ key \in [Handlers -> Keys \cup {NoKey}]
    /\ file \in [Handlers -> Files \cup {NoFile}]
    /\ attempt \in [Handlers -> Nat]
    /\ fresh \in [Handlers -> SUBSET Emails]
    /\ written \in [Handlers -> SUBSET Emails]
    /\ result \in [Handlers -> [status : ResultStatuses, inserted : Nat]]
    /\ reply \in [Handlers -> Replies]

Init ==
    /\ ops = [k \in Keys |-> Absent]
    /\ batches = {}
    /\ inserted = [f \in Files |-> 0]
    /\ customers = [e \in Emails |-> NoCustomer]
    /\ origin = [e \in Emails |-> NoFile]
    /\ outbox = {}
    /\ pc = [h \in Handlers |-> "idle"]
    /\ key = [h \in Handlers |-> NoKey]
    /\ file = [h \in Handlers |-> NoFile]
    /\ attempt = [h \in Handlers |-> 0]
    /\ fresh = [h \in Handlers |-> {}]
    /\ written = [h \in Handlers |-> {}]
    /\ result = [h \in Handlers |-> NoResult]
    /\ reply = [h \in Handlers |-> "none"]

-----------------------------------------------------------------------------
(* Reservation: reserve_operation, and what create_import does with it.    *)

(***************************************************************************)
(* The row of an operation that attempt n has just reserved for body f.    *)
(***************************************************************************)
Reserved(f, n) ==
    [sha |-> f, status |-> "processing", attempts |-> n, lease |-> "live",
     inserted |-> 0]

(***************************************************************************)
(* INSERT .. ON CONFLICT DO NOTHING took the key: a new operation.         *)
(***************************************************************************)
ReserveNew(h, k, f) ==
    /\ ops[k].status = "absent"
    /\ ops' = [ops EXCEPT ![k] = Reserved(f, 1)]
    /\ attempt' = [attempt EXCEPT ![h] = 1]
    /\ pc' = [pc EXCEPT ![h] = "validate"]
    /\ UNCHANGED reply

\* Fault: an operation that ended in database_error is taken for abandoned.
FaultRecoverFailed(k, f) ==
    /\ ops[k].status \in {"processing", "database_error"}
    /\ ops[k].sha = f
    /\ ops[k].lease = "expired"

CanRecover(k, f) ==
    /\ ops[k].status = "processing"
    /\ ops[k].sha = f
    /\ ops[k].lease = "expired"

\* Fault: the recovery renews the lease without a new attempt_count.
FaultRecoverSameAttempt(h, k, f) ==
    /\ CanRecover(k, f)
    /\ ops' = [ops EXCEPT ![k].lease = "live"]
    /\ attempt' = [attempt EXCEPT ![h] = ops[k].attempts]
    /\ pc' = [pc EXCEPT ![h] = "validate"]
    /\ UNCHANGED reply

(***************************************************************************)
(* The conditional UPDATE took over an operation whose lease ran out.      *)
(***************************************************************************)
ReserveRecovered(h, k, f) ==
    /\ CanRecover(k, f)
    /\ ops' = [ops EXCEPT ![k] = Reserved(f, ops[k].attempts + 1)]
    /\ attempt' = [attempt EXCEPT ![h] = ops[k].attempts + 1]
    /\ pc' = [pc EXCEPT ![h] = "validate"]
    /\ UNCHANGED reply

(***************************************************************************)
(* Neither applied: the request is answered from the stored row.           *)
(***************************************************************************)
Replay(h, k, f) ==
    /\ ops[k].status # "absent"
    /\ ~ CanRecover(k, f)
    /\ reply' = [reply EXCEPT ![h] = IF ops[k].sha = f THEN ops[k].status
                                     ELSE "key_reused"]
    /\ pc' = [pc EXCEPT ![h] = "done"]
    /\ UNCHANGED <<ops, attempt>>

Reserve(h, k, f) ==
    /\ h \in Requests
    /\ pc[h] = "idle"
    /\ key' = [key EXCEPT ![h] = k]
    /\ file' = [file EXCEPT ![h] = f]
    /\ \/ ReserveNew(h, k, f)
       \/ ReserveRecovered(h, k, f)
       \/ Replay(h, k, f)
    /\ UNCHANGED <<batches, inserted, customers, origin, outbox,
                   fresh, written, result>>

(***************************************************************************)
(* now() passes lease_expires_at: the handler died, or is just too slow.   *)
(***************************************************************************)
LeaseExpires(k) ==
    /\ ops[k].status = "processing"
    /\ ops[k].lease = "live"
    /\ ops[k].attempts < MaxAttempts
    /\ ops' = [ops EXCEPT ![k].lease = "expired"]
    /\ UNCHANGED <<batches, inserted, customers, origin, outbox, handlers>>

StartCli(h, f) ==
    /\ h \in CliRuns
    /\ pc[h] = "idle"
    /\ file' = [file EXCEPT ![h] = f]
    /\ pc' = [pc EXCEPT ![h] = "validate"]
    /\ UNCHANGED <<database, key, attempt, fresh, written, result, reply>>

-----------------------------------------------------------------------------
(* The import: import_csv and import_validated_records.                    *)

(***************************************************************************)
(* import_validated_records returns: its transaction is over, one way or   *)
(* the other, and the handler goes on to complete_operation.               *)
(***************************************************************************)
Return(h, status, count) ==
    /\ result' = [result EXCEPT ![h] = [status |-> status, inserted |-> count]]
    /\ pc' = [pc EXCEPT ![h] = "complete"]
    /\ fresh' = [fresh EXCEPT ![h] = {}]
    /\ written' = [written EXCEPT ![h] = {}]
    /\ UNCHANGED <<key, file, attempt, reply>>

(***************************************************************************)
(* validate_csv; PostgreSQL is opened only when the whole file is valid.   *)
(***************************************************************************)
Validate(h) ==
    /\ pc[h] = "validate"
    /\ \/ /\ file[h] \notin ValidFiles
          /\ Return(h, "validation_failed", 0)
       \/ /\ file[h] \in ValidFiles
          /\ pc' = [pc EXCEPT ![h] = "batch"]
          /\ UNCHANGED <<key, file, attempt, fresh, written, result, reply>>
    /\ UNCHANGED database

(***************************************************************************)
(* An open transaction holds the unique index entry of its batch row, and  *)
(* of each customer row it inserted, until it ends.                        *)
(***************************************************************************)
InTransaction(h) == pc[h] \in {"select", "insert"}

BatchLocked(h) ==
    \E g \in Handlers \ {h} : InTransaction(g) /\ file[g] = file[h]

EmailLocked(h, e) ==
    \E g \in Handlers \ {h} : InTransaction(g) /\ e \in written[g]

(***************************************************************************)
(* INSERT INTO import_batches .. ON CONFLICT (file_sha256) DO NOTHING.     *)
(***************************************************************************)
InsertBatch(h) ==
    /\ pc[h] = "batch"
    /\ ~ BatchLocked(h)
    /\ \/ /\ file[h] \in batches
          /\ Return(h, "already_imported", 0)
       \/ /\ file[h] \notin batches
          /\ pc' = [pc EXCEPT ![h] = "select"]
          /\ UNCHANGED <<key, file, attempt, fresh, written, result, reply>>
    /\ UNCHANGED database

Conflicts(f) ==
    {e \in DOMAIN Rows[f] : customers[e] \notin {NoCustomer, Rows[f][e]}}

NewEmails(f) == {e \in DOMAIN Rows[f] : customers[e] = NoCustomer}

(***************************************************************************)
(* SELECT the customers already stored under the file's emails.  A         *)
(* conflict rolls everything back; otherwise the rows not found are the    *)
(* ones to insert, by this snapshot.                                       *)
(***************************************************************************)
SelectExisting(h) ==
    /\ pc[h] = "select"
    /\ \/ /\ Conflicts(file[h]) # {}
          /\ Return(h, "conflict", 0)
       \/ /\ Conflicts(file[h]) = {}
          /\ fresh' = [fresh EXCEPT ![h] = NewEmails(file[h])]
          /\ pc' = [pc EXCEPT ![h] = "insert"]
          /\ UNCHANGED <<key, file, attempt, written, result, reply>>
    /\ UNCHANGED database

\* Fault: INSERT INTO customers .. ON CONFLICT (email) DO NOTHING.
FaultSkipTakenEmail(h, e) ==
    /\ pc[h] = "insert"
    /\ e \in fresh[h] \ written[h]
    /\ ~ EmailLocked(h, e)
    /\ IF customers[e] = NoCustomer
       THEN /\ written' = [written EXCEPT ![h] = @ \cup {e}]
            /\ UNCHANGED fresh
       ELSE /\ fresh' = [fresh EXCEPT ![h] = @ \ {e}]
            /\ UNCHANGED written
    /\ UNCHANGED <<database, pc, key, file, attempt, result, reply>>

\* Fault: the unique violation is reported as customer_conflict.
FaultUniqueIsConflict(h, e) ==
    /\ pc[h] = "insert"
    /\ e \in fresh[h] \ written[h]
    /\ ~ EmailLocked(h, e)
    /\ \/ /\ customers[e] = NoCustomer
          /\ written' = [written EXCEPT ![h] = @ \cup {e}]
          /\ UNCHANGED <<pc, key, file, attempt, fresh, result, reply>>
       \/ /\ customers[e] # NoCustomer
          /\ Return(h, "conflict", 0)
    /\ UNCHANGED database

(***************************************************************************)
(* One INSERT of the executemany.  It waits for an open transaction that   *)
(* inserted the same email; if another one has committed it since the      *)
(* SELECT, the unique constraint fails and the transaction with it.        *)
(***************************************************************************)
InsertCustomer(h, e) ==
    /\ pc[h] = "insert"
    /\ e \in fresh[h] \ written[h]
    /\ ~ EmailLocked(h, e)
    /\ \/ /\ customers[e] = NoCustomer
          /\ written' = [written EXCEPT ![h] = @ \cup {e}]
          /\ UNCHANGED <<pc, key, file, attempt, fresh, result, reply>>
       \/ /\ customers[e] # NoCustomer
          /\ Return(h, "database_error", 0)
    /\ UNCHANGED database

\* Fault: inserted_count counts the rows of the file, not the new ones.
FaultCountAllRows(h) ==
    /\ pc[h] = "insert"
    /\ written[h] = fresh[h]
    /\ batches' = batches \cup {file[h]}
    /\ inserted' = [inserted EXCEPT ![file[h]] = Cardinality(DOMAIN Rows[file[h]])]
    /\ customers' = [e \in Emails |-> IF e \in fresh[h] THEN Rows[file[h]][e]
                                      ELSE customers[e]]
    /\ origin' = [e \in Emails |-> IF e \in fresh[h] THEN file[h] ELSE origin[e]]
    /\ Return(h, "imported", Cardinality(fresh[h]))
    /\ UNCHANGED <<ops, outbox>>

(***************************************************************************)
(* The counts, and COMMIT.  The acknowledgement may be lost, and then      *)
(* psycopg raises and the handler reports what is in fact stored as        *)
(* database_error.                                                         *)
(***************************************************************************)
CommitImport(h) ==
    /\ pc[h] = "insert"
    /\ written[h] = fresh[h]
    /\ batches' = batches \cup {file[h]}
    /\ inserted' = [inserted EXCEPT ![file[h]] = Cardinality(fresh[h])]
    /\ customers' = [e \in Emails |-> IF e \in fresh[h] THEN Rows[file[h]][e]
                                      ELSE customers[e]]
    /\ origin' = [e \in Emails |-> IF e \in fresh[h] THEN file[h] ELSE origin[e]]
    /\ \/ Return(h, "imported", Cardinality(fresh[h]))
       \/ Return(h, "database_error", 0)
    /\ UNCHANGED <<ops, outbox>>

(***************************************************************************)
(* Any psycopg.Error rolls back: no connection, statement or lock timeout, *)
(* deadlock.  A schema that is not current is found when the transaction   *)
(* begins.                                                                 *)
(***************************************************************************)
ImportFails(h) ==
    /\ pc[h] \in {"batch", "select", "insert"}
    /\ \/ Return(h, "database_error", 0)
       \/ pc[h] = "batch" /\ Return(h, "migration_required", 0)
    /\ UNCHANGED database

-----------------------------------------------------------------------------
(* Completion: complete_operation and enqueue_completed_import.            *)

\* Fault: UPDATE api_operations .. WHERE operation_id = %s alone.
FaultUnfenced(h) == ops[key[h]].status # "absent"

HoldsAttempt(h) ==
    /\ ops[key[h]].status = "processing"
    /\ ops[key[h]].attempts = attempt[h]

\* Fault: every refusal is stored under one status the table does not allow.
FaultUnknownStatus(h) ==
    /\ HoldsAttempt(h)
    /\ ops' = [ops EXCEPT ![key[h]].status =
                  IF result[h].status \in AcceptedStatuses
                  THEN result[h].status ELSE "failed"]
    /\ outbox' = IF result[h].status \in AcceptedStatuses
                 THEN outbox \cup {key[h]} ELSE outbox

\* Fault: only an import that inserted something is notified.
FaultNotifyImportedOnly(h) ==
    /\ HoldsAttempt(h)
    /\ ops' = [ops EXCEPT ![key[h]].status = result[h].status,
                          ![key[h]].inserted = result[h].inserted]
    /\ outbox' = IF result[h].status = "imported"
                 THEN outbox \cup {key[h]} ELSE outbox

\* Fault: a refusal is notified too.
FaultNotifyRefusals(h) ==
    /\ HoldsAttempt(h)
    /\ ops' = [ops EXCEPT ![key[h]].status = result[h].status,
                          ![key[h]].inserted = result[h].inserted]
    /\ outbox' = outbox \cup {key[h]}

(***************************************************************************)
(* The UPDATE is fenced by attempt_count and status; an accepted result    *)
(* puts the event in the outbox in the same transaction.                   *)
(***************************************************************************)
StoreResult(h) ==
    /\ HoldsAttempt(h)
    /\ ops' = [ops EXCEPT ![key[h]].status = result[h].status,
                          ![key[h]].inserted = result[h].inserted]
    /\ outbox' = IF result[h].status \in AcceptedStatuses
                 THEN outbox \cup {key[h]} ELSE outbox

(***************************************************************************)
(* The call ends: its locals are gone, its client has an answer (or not).  *)
(***************************************************************************)
End(h, where, answer) ==
    /\ pc' = [pc EXCEPT ![h] = where]
    /\ reply' = [reply EXCEPT ![h] = answer]
    /\ attempt' = [attempt EXCEPT ![h] = 0]
    /\ fresh' = [fresh EXCEPT ![h] = {}]
    /\ written' = [written EXCEPT ![h] = {}]
    /\ result' = [result EXCEPT ![h] = NoResult]
    /\ UNCHANGED <<key, file>>

(***************************************************************************)
(* An attempt that lost the operation answers with the row as it is.       *)
(***************************************************************************)
LeaveResult(h) ==
    /\ ~ HoldsAttempt(h)
    /\ UNCHANGED <<ops, outbox>>

CompleteOperation(h) ==
    /\ h \in Requests
    /\ pc[h] = "complete"
    /\ StoreResult(h) \/ LeaveResult(h)
    /\ End(h, "done", ops'[key[h]].status)
    /\ UNCHANGED <<batches, inserted, customers, origin>>

(***************************************************************************)
(* complete_operation raised: 503, and the operation stays processing.     *)
(* (If only the acknowledgement was lost, the rows are as after            *)
(* CompleteOperation and the answer is the same.)                          *)
(***************************************************************************)
CompletionFails(h) ==
    /\ h \in Requests
    /\ pc[h] = "complete"
    /\ StoreResult(h) \/ UNCHANGED <<ops, outbox>>
    /\ End(h, "done", "unavailable")
    /\ UNCHANGED <<batches, inserted, customers, origin>>

FinishCli(h) ==
    /\ h \in CliRuns
    /\ pc[h] = "complete"
    /\ End(h, "done", result[h].status)
    /\ UNCHANGED database

(***************************************************************************)
(* The process dies; PostgreSQL rolls its open transaction back.           *)
(***************************************************************************)
Crash(h) ==
    /\ pc[h] \notin {"idle", "done", "crashed"}
    /\ End(h, "crashed", "none")
    /\ UNCHANGED database

-----------------------------------------------------------------------------

Step(h) ==
    \/ Validate(h)
    \/ InsertBatch(h)
    \/ SelectExisting(h)
    \/ \E e \in Emails : InsertCustomer(h, e)
    \/ CommitImport(h)
    \/ CompleteOperation(h)
    \/ FinishCli(h)

Finished ==
    /\ \A h \in Handlers : pc[h] \in {"done", "crashed"}
    /\ UNCHANGED vars

Next ==
    \/ \E h \in Handlers :
          \/ \E k \in Keys, f \in Files : Reserve(h, k, f)
          \/ \E f \in Files : StartCli(h, f)
          \/ Step(h)
          \/ ImportFails(h)
          \/ CompletionFails(h)
          \/ Crash(h)
    \/ \E k \in Keys : LeaseExpires(k)
    \/ Finished

Spec == Init /\ [][Next]_vars

(***************************************************************************)
(* A live thread runs its next statement; one that waits for a lock is     *)
(* cancelled by lock_timeout (3 s) if the lock is not released.            *)
(***************************************************************************)
Waiting(h) ==
    \/ pc[h] = "batch" /\ BatchLocked(h)
    \/ pc[h] = "insert" /\ \E e \in fresh[h] \ written[h] : EmailLocked(h, e)

\* Fault: no lock_timeout in POSTGRES_OPERATION_LIMITS.
FaultNoLockTimeout(h) == FALSE

LockTimeout(h) == Waiting(h) /\ ImportFails(h)

HandlersRun == \A h \in Handlers : WF_vars(Step(h)) /\ WF_vars(LockTimeout(h))

FairSpec == Spec /\ HandlersRun

-----------------------------------------------------------------------------
(* Properties                                                              *)

Processing(h) ==
    h \in Requests /\ pc[h] \in {"validate", "batch", "select", "insert", "complete"}

(***************************************************************************)
(* However late a handler is, and however often its operation was          *)
(* recovered, at most one running request holds the attempt that           *)
(* complete_operation will accept ("solo uno obtiene el nuevo intento").   *)
(***************************************************************************)
OneOwner ==
    \A g, h \in Requests :
        (/\ Processing(g) /\ Processing(h)
         /\ key[g] = key[h]
         /\ HoldsAttempt(g) /\ HoldsAttempt(h)) => g = h

(***************************************************************************)
(* A stored accepted result and its event exist together or not at all,    *)
(* and only over a committed batch of the very body the key is bound to.   *)
(***************************************************************************)
AcceptedIsDurable ==
    \A k \in Keys :
        /\ ops[k].status \in AcceptedStatuses <=> k \in outbox
        /\ k \in outbox => ops[k].sha \in batches

(***************************************************************************)
(* Imports are whole whatever runs beside them: a committed batch has every*)
(* row of its file stored with that file's values, and every customer comes*)
(* from a committed batch that has that row.                               *)
(***************************************************************************)
AllOrNothing ==
    /\ \A f \in batches : \A e \in DOMAIN Rows[f] : customers[e] = Rows[f][e]
    /\ \A e \in Emails :
          customers[e] # NoCustomer =>
              /\ origin[e] \in batches
              /\ e \in DOMAIN Rows[origin[e]]
              /\ customers[e] = Rows[origin[e]][e]

(***************************************************************************)
(* The counts reported are true: a batch's inserted_count is the number of *)
(* customers that refer to it, an "imported" operation reports that number,*)
(* and no two operations report the import of the same file.               *)
(***************************************************************************)
CountsAreTrue ==
    /\ \A f \in batches : inserted[f] = Cardinality({e \in Emails : origin[e] = f})
    /\ \A k \in Keys : ops[k].status = "imported" =>
          /\ ops[k].inserted = inserted[ops[k].sha]
          /\ \A j \in Keys \ {k} :
                ops[j].status = "imported" => ops[j].sha # ops[k].sha

(***************************************************************************)
(* Two requests with one key that were both told a final result were told  *)
(* the same one, about the same body, whichever attempt produced it.       *)
(***************************************************************************)
RepliesAgree ==
    \A g, h \in Requests :
        (/\ key[g] = key[h]
         /\ reply[g] \in ResultStatuses
         /\ reply[h] \in ResultStatuses) =>
            reply[g] = reply[h] /\ file[g] = file[h]

(***************************************************************************)
(* The whole of it implements the ledger the API promises.  A file that    *)
(* was refused for its contents or for a conflict (422, 409) contradicts   *)
(* the contract or a stored customer, and as no customer is ever changed   *)
(* it always will.                                                         *)
(***************************************************************************)
Outcome(status) ==
    IF status = "absent" THEN "none"
    ELSE IF status = "processing" THEN "pending"
    ELSE IF status \in AcceptedStatuses THEN "accepted"
    ELSE IF status \in RejectedStatuses THEN "rejected" ELSE "failed"

Ledger == INSTANCE ImportLedger
    WITH bound <- [k \in Keys |-> ops[k].sha],
         outcome <- [k \in Keys |-> Outcome(ops[k].status)],
         stored <- batches,
         notices <- outbox

ImplementsLedger == Ledger!Spec

(***************************************************************************)
(* Every request is answered unless its process dies: no set of concurrent *)
(* imports, in any order of their rows, waits for itself for ever.         *)
(***************************************************************************)
EveryRequestEnds ==
    \A h \in Handlers : pc[h] # "idle" ~> pc[h] \in {"done", "crashed"}

(***************************************************************************)
(* ADR-004: "no hay ventana entre importacion confirmada y evento          *)
(* olvidado".  A committed batch belongs to an operation that still can    *)
(* produce its event, or already has.                                      *)
(***************************************************************************)
NoForgottenEvent ==
    \A f \in batches : \E k \in Keys :
        ops[k].sha = f /\ (ops[k].status = "processing" \/ k \in outbox)
=============================================================================
