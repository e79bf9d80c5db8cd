-------------------------- MODULE ImportApi_proofs --------------------------
(***************************************************************************)
(* Theorems about ImportApi, for any number of requests, CLI runs, keys,   *)
(* files and customers.  TLC checks the same properties on small instances *)
(* (MCImportApi).                                                          *)
(***************************************************************************)
EXTENDS ImportApi, FiniteSetTheorems, TLAPS

(***************************************************************************)
(* What each handler's locals are, by where it is: the part of the         *)
(* inductive invariant that makes the types inductive.                     *)
(***************************************************************************)
Shape ==
    \A h \in Handlers :
        /\ pc[h] # "idle" => file[h] \in Files
        /\ h \in Requests /\ pc[h] # "idle" =>
              key[h] \in Keys /\ ops[key[h]].status # "absent"
        /\ pc[h] = "insert" => fresh[h] \subseteq DOMAIN Rows[file[h]]
        /\ pc[h] # "insert" => fresh[h] = {}
        /\ written[h] \subseteq fresh[h]

TypeInv == TypeOK /\ Shape

(***************************************************************************)
(* The number of rows of one import is a natural number.                   *)
(***************************************************************************)
LEMMA CountIsNat ==
    ASSUME NEW S \in SUBSET Emails
    PROVE  Cardinality(S) \in Nat
  <1>1. IsFiniteSet(S)
    BY FS_Subset, ImportConstants DEF ImportConstants
  <1> QED BY <1>1, FS_CardinalityType

LEMMA ProfileOfRow ==
    ASSUME NEW f \in Files, NEW e \in DOMAIN Rows[f]
    PROVE  Rows[f][e] \in Profiles
  BY DEF Profiles

(***************************************************************************)
(* The updates of one api_operations row keep it a row.                    *)
(***************************************************************************)
LEMMA ExpiredIsOperation ==
    ASSUME NEW t \in [Keys -> Operations], NEW k \in Keys
    PROVE  LET u == [t EXCEPT ![k].lease = "expired"]
           IN  /\ u \in [Keys -> Operations]
               /\ \A j \in Keys : /\ u[j].status = t[j].status
                                  /\ u[j].sha = t[j].sha
                                  /\ u[j].attempts = t[j].attempts
                                  /\ u[j].inserted = t[j].inserted
  BY DEF Operations

LEMMA StoredIsOperation ==
    ASSUME NEW t \in [Keys -> Operations], NEW k \in Keys, NEW u,
           NEW r \in [status : ResultStatuses, inserted : Nat],
           u = [t EXCEPT ![k].status = r.status, ![k].inserted = r.inserted]
    PROVE  /\ u \in [Keys -> Operations]
           /\ \A j \in Keys : /\ u[j].sha = t[j].sha
                              /\ u[j].attempts = t[j].attempts
                              /\ j # k => u[j] = t[j]
                              /\ t[j].status # "absent" => u[j].status # "absent"
           /\ u[k].status = r.status
           /\ u[k].inserted = r.inserted
  BY DEF Operations, ResultStatuses, AcceptedStatuses, RefusedStatuses, RejectedStatuses

LEMMA StoreResultFacts ==
    ASSUME NEW h, ops \in [Keys -> Operations], key[h] \in Keys,
           result[h] \in [status : ResultStatuses, inserted : Nat], StoreResult(h)
    PROVE  /\ ops' \in [Keys -> Operations]
           /\ \A j \in Keys : /\ ops'[j].sha = ops[j].sha
                              /\ ops'[j].attempts = ops[j].attempts
                              /\ j # key[h] => ops'[j] = ops[j]
                              /\ ops[j].status # "absent" => ops'[j].status # "absent"
           /\ ops'[key[h]].status = result[h].status
           /\ ops'[key[h]].inserted = result[h].inserted
  <1>1. ops' = [ops EXCEPT ![key[h]].status = result[h].status,
                           ![key[h]].inserted = result[h].inserted]
    BY DEF StoreResult
  <1> QED BY <1>1, StoredIsOperation

LEMMA TypeInit == Init => TypeInv
  BY DEF Init, TypeInv, TypeOK, Shape, Operations, Absent, NoResult, PcValues,
         Replies, ResultStatuses, AcceptedStatuses, RefusedStatuses, RejectedStatuses

(***************************************************************************)
(* One step per action of Next.                                            *)
(***************************************************************************)
LEMMA TypeStep == TypeInv /\ [Next]_vars => TypeInv'
  <1> SUFFICES ASSUME TypeInv, [Next]_vars PROVE TypeInv'
    OBVIOUS
  <1> USE DEF TypeInv, TypeOK, Shape
  <1>a. ASSUME NEW h \in Handlers, NEW k \in Keys, NEW f \in Files, Reserve(h, k, f)
        PROVE  TypeInv'
    <2>1. CASE ReserveNew(h, k, f)
      BY <1>a, <2>1 DEF Reserve, ReserveNew, Reserved, Operations, PcValues
    <2>2. CASE ReserveRecovered(h, k, f)
      <3>1. ops' \in [Keys -> Operations]
        BY <2>2 DEF ReserveRecovered, Reserved, Operations
      <3>2. \A j \in Keys : ops[j].status # "absent" => ops'[j].status # "absent"
        BY <2>2 DEF ReserveRecovered, Reserved, Operations
      <3>3. ops'[k].status # "absent"
        BY <2>2, <3>2 DEF ReserveRecovered, CanRecover
      <3>4. attempt' \in [Handlers -> Nat]
        BY <2>2 DEF ReserveRecovered, Reserved, Operations
      <3>5. TypeOK'
        BY <1>a, <2>2, <3>1, <3>4 DEF Reserve, ReserveRecovered, PcValues
      <3>6. Shape'
        BY <1>a, <2>2, <3>2, <3>3 DEF Reserve, ReserveRecovered
      <3> QED BY <3>5, <3>6
    <2>3. CASE Replay(h, k, f)
      BY <1>a, <2>3 DEF Reserve, Replay, Operations, PcValues, Replies
    <2> QED BY <1>a, <2>1, <2>2, <2>3 DEF Reserve
  <1>b. ASSUME NEW h \in Handlers, NEW f \in Files, StartCli(h, f)
        PROVE  TypeInv'
    BY <1>b, ImportConstants DEF StartCli, database, PcValues, ImportConstants
  <1>c. ASSUME NEW h \in Handlers, NEW s \in ResultStatuses, NEW n \in Nat,
               Return(h, s, n), pc[h] # "idle",
               UNCHANGED <<ops, outbox>>,
               batches' \subseteq Files, inserted' \in [Files -> Nat],
               customers' \in [Emails -> Profiles \cup {NoCustomer}],
               origin' \in [Emails -> Files \cup {NoFile}]
        PROVE  TypeInv'
    BY <1>c DEF Return, PcValues
  <1>d. ASSUME NEW h \in Handlers, Validate(h) PROVE TypeInv'
    <2>1. CASE file[h] \notin ValidFiles
      BY <1>c, <1>d, <2>1 DEF Validate, database,
         ResultStatuses, RefusedStatuses, RejectedStatuses
    <2>2. CASE file[h] \in ValidFiles
      BY <1>d, <2>2 DEF Validate, database, PcValues
    <2> QED BY <2>1, <2>2
  <1>e. ASSUME NEW h \in Handlers, InsertBatch(h) PROVE TypeInv'
    <2>1. CASE file[h] \in batches
      BY <1>c, <1>e, <2>1 DEF InsertBatch, database, ResultStatuses, AcceptedStatuses
    <2>2. CASE file[h] \notin batches
      BY <1>e, <2>2 DEF InsertBatch, database, PcValues
    <2> QED BY <2>1, <2>2
  <1>f. ASSUME NEW h \in Handlers, SelectExisting(h) PROVE TypeInv'
    <2>1. CASE Conflicts(file[h]) # {}
      BY <1>c, <1>f, <2>1 DEF SelectExisting, database,
         ResultStatuses, RefusedStatuses, RejectedStatuses
    <2>2. CASE Conflicts(file[h]) = {}
      <3>1. NewEmails(file[h]) \subseteq DOMAIN Rows[file[h]]
        BY DEF NewEmails
      <3>2. file[h] \in Files
        BY <1>f DEF SelectExisting
      <3>3. NewEmails(file[h]) \subseteq Emails
        BY <3>1, <3>2, ImportConstants DEF ImportConstants
      <3>4. TypeOK'
        BY <1>f, <2>2, <3>3 DEF SelectExisting, database, PcValues
      <3>5. Shape'
        BY <1>f, <2>2, <3>1 DEF SelectExisting, database
      <3> QED BY <3>4, <3>5
    <2> QED BY <2>1, <2>2
  <1>g. ASSUME NEW h \in Handlers, NEW e \in Emails, InsertCustomer(h, e)
        PROVE  TypeInv'
    <2>1. CASE customers[e] = NoCustomer
      <3>1. TypeOK'
        BY <1>g, <2>1 DEF InsertCustomer, database
      <3>2. Shape'
        BY <1>g, <2>1 DEF InsertCustomer, database
      <3> QED BY <3>1, <3>2
    <2>2. CASE customers[e] # NoCustomer
      BY <1>c, <1>g, <2>2 DEF InsertCustomer, database,
         ResultStatuses, RefusedStatuses, RejectedStatuses
    <2> QED BY <2>1, <2>2
  <1>h. ASSUME NEW h \in Handlers, CommitImport(h) PROVE TypeInv'
    <2>1. Cardinality(fresh[h]) \in Nat
      BY CountIsNat
    <2>2. file[h] \in Files /\ fresh[h] \subseteq DOMAIN Rows[file[h]]
      BY <1>h DEF CommitImport
    <2>3. \A e \in fresh[h] : Rows[file[h]][e] \in Profiles
      BY <2>2, ProfileOfRow
    <2>4. /\ batches' \subseteq Files
          /\ inserted' \in [Files -> Nat]
          /\ origin' \in [Emails -> Files \cup {NoFile}]
      BY <1>h, <2>1, <2>2 DEF CommitImport
    <2>5. customers' \in [Emails -> Profiles \cup {NoCustomer}]
      BY <1>h, <2>3 DEF CommitImport
    <2> QED BY <1>c, <1>h, <2>1, <2>4, <2>5
            DEF CommitImport, ResultStatuses, RefusedStatuses,
                RejectedStatuses, AcceptedStatuses
  <1>i. ASSUME NEW h \in Handlers, ImportFails(h) PROVE TypeInv'
    <2>1. /\ pc[h] # "idle"
          /\ UNCHANGED database
          /\ \E s \in ResultStatuses : Return(h, s, 0)
      BY <1>i DEF ImportFails, ResultStatuses, RefusedStatuses, RejectedStatuses
    <2> QED BY <1>c, <2>1 DEF database
  <1>j. ASSUME NEW h \in Handlers, NEW p \in {"done", "crashed"}, NEW r \in Replies,
               End(h, p, r), pc[h] # "idle",
               ops' \in [Keys -> Operations], outbox' \subseteq Keys,
               \A k \in Keys : ops[k].status # "absent" => ops'[k].status # "absent",
               UNCHANGED <<batches, inserted, customers, origin>>
        PROVE  TypeInv'
    <2>1. NoResult \in [status : ResultStatuses, inserted : Nat]
      BY DEF NoResult, ResultStatuses, RefusedStatuses, RejectedStatuses
    <2>2. TypeOK'
      BY <1>j, <2>1 DEF End, PcValues
    <2>3. Shape'
      BY <1>j DEF End
    <2> QED BY <2>2, <2>3
  <1>k. ASSUME NEW h \in Requests, pc[h] # "idle", StoreResult(h)
        PROVE  /\ ops' \in [Keys -> Operations] /\ outbox' \subseteq Keys
               /\ \A k \in Keys : ops[k].status # "absent" => ops'[k].status # "absent"
    <2>1. key[h] \in Keys /\ result[h] \in [status : ResultStatuses, inserted : Nat]
      BY <1>k DEF Handlers
    <2>2. /\ ops' \in [Keys -> Operations]
          /\ \A k \in Keys : ops[k].status # "absent" => ops'[k].status # "absent"
      BY <1>k, <2>1, StoreResultFacts
    <2>3. outbox' \subseteq Keys
      BY <1>k, <2>1 DEF StoreResult
    <2> QED BY <2>2, <2>3
  <1>l. ASSUME NEW h \in Handlers, CompleteOperation(h) PROVE TypeInv'
    <2>1. key[h] \in Keys /\ h \in Requests /\ pc[h] # "idle"
      BY <1>l DEF CompleteOperation
    <2>2. /\ ops' \in [Keys -> Operations] /\ outbox' \subseteq Keys
          /\ \A k \in Keys : ops[k].status # "absent" => ops'[k].status # "absent"
      BY <1>k, <1>l, <2>1 DEF CompleteOperation, LeaveResult
    <2>3. ops'[key[h]].status \in Replies
      <3>1. CASE StoreResult(h)
        BY <2>1, <3>1 DEF StoreResult, Replies, Operations
      <3>2. CASE LeaveResult(h)
        BY <1>l, <2>1, <3>2 DEF LeaveResult, CompleteOperation, Replies, Operations
      <3> QED BY <1>l, <3>1, <3>2 DEF CompleteOperation
    <2> QED BY <1>j, <1>l, <2>1, <2>2, <2>3 DEF CompleteOperation
  <1>m. ASSUME NEW h \in Handlers, CompletionFails(h) PROVE TypeInv'
    <2>1. h \in Requests /\ pc[h] # "idle"
      BY <1>m DEF CompletionFails
    <2>2. /\ ops' \in [Keys -> Operations] /\ outbox' \subseteq Keys
          /\ \A k \in Keys : ops[k].status # "absent" => ops'[k].status # "absent"
      BY <1>k, <1>m, <2>1 DEF CompletionFails
    <2> QED BY <1>j, <1>m, <2>1, <2>2 DEF CompletionFails, Replies
  <1>n. ASSUME NEW h \in Handlers, FinishCli(h) PROVE TypeInv'
    BY <1>j, <1>n DEF FinishCli, database, Replies
  <1>o. ASSUME NEW h \in Handlers, Crash(h) PROVE TypeInv'
    BY <1>j, <1>o DEF Crash, database, Replies
  <1>p. ASSUME NEW k \in Keys, LeaseExpires(k) PROVE TypeInv'
    <2>1. /\ ops' \in [Keys -> Operations]
          /\ \A j \in Keys : ops[j].status # "absent" => ops'[j].status # "absent"
      BY <1>p, ExpiredIsOperation DEF LeaseExpires
    <2>2. TypeOK'
      BY <1>p, <2>1 DEF LeaseExpires, handlers
    <2>3. Shape'
      BY <1>p, <2>1 DEF LeaseExpires, handlers
    <2> QED BY <2>2, <2>3
  <1>q. CASE UNCHANGED vars
    BY <1>q DEF vars
  <1> QED
    BY <1>a, <1>b, <1>d, <1>e, <1>f, <1>g, <1>h, <1>i, <1>l, <1>m, <1>n, <1>o, <1>p, <1>q
    DEF Next, Step, Finished

(***************************************************************************)
(* Every value the model holds keeps its type (TypeOK), on any instance.   *)
(***************************************************************************)
THEOREM TypeCorrect == Spec => []TypeOK
  <1>1. Init => TypeInv
    BY TypeInit
  <1>2. TypeInv /\ [Next]_vars => TypeInv'
    BY TypeStep
  <1>3. TypeInv => TypeOK
    BY DEF TypeInv
  <1> QED BY <1>1, <1>2, <1>3, PTL DEF Spec

LEMMA TypeInvariant == Spec => []TypeInv
  BY TypeInit, TypeStep, PTL DEF Spec

-----------------------------------------------------------------------------
(***************************************************************************)
(* Locks: an open transaction is the only one on its file, the rows it     *)
(* wrote are nobody else's and not yet stored, and the rows it did not     *)
(* have to write are stored with its own values.                           *)
(***************************************************************************)
LockInv ==
    /\ \A h \in Handlers : InTransaction(h) => file[h] \notin batches
    /\ \A g, h \in Handlers :
          InTransaction(g) /\ InTransaction(h) /\ file[g] = file[h] => g = h
    /\ \A h \in Handlers : \A e \in written[h] : customers[e] = NoCustomer
    /\ \A g, h \in Handlers : g # h => written[g] \cap written[h] = {}
    /\ \A h \in Handlers : pc[h] = "insert" =>
          \A e \in DOMAIN Rows[file[h]] \ fresh[h] : customers[e] = Rows[file[h]][e]

StoreInv == LockInv /\ AllOrNothing

LEMMA StoreInit == Init => StoreInv
  BY DEF Init, StoreInv, LockInv, AllOrNothing, InTransaction

(***************************************************************************)
(* A handler that leaves its transaction without committing.               *)
(***************************************************************************)
LEMMA StoreLeave ==
    ASSUME TypeInv, StoreInv, NEW h \in Handlers, NEW p \in PcValues,
           p \notin {"select", "insert"},
           pc' = [pc EXCEPT ![h] = p],
           fresh' = [fresh EXCEPT ![h] = {}],
           written' = [written EXCEPT ![h] = {}],
           UNCHANGED <<batches, customers, origin, file>>
    PROVE  StoreInv'
  <1> USE DEF TypeInv, TypeOK, StoreInv
  <1>1. LockInv'
    BY DEF LockInv, InTransaction
  <1>2. AllOrNothing'
    BY DEF AllOrNothing
  <1> QED BY <1>1, <1>2

(***************************************************************************)
(* A commit: the new batch is whole because what was not inserted was      *)
(* found equal, and older batches stay whole because only rows that were   *)
(* not stored are written.                                                 *)
(***************************************************************************)
LEMMA StoreCommit ==
    ASSUME TypeInv, StoreInv, NEW h \in Handlers, CommitImport(h)
    PROVE  StoreInv'
  <1> USE DEF TypeInv, TypeOK, StoreInv
  <1> DEFINE f == file[h]
  <1>1. /\ f \in Files /\ fresh[h] \subseteq DOMAIN Rows[f]
        /\ written[h] = fresh[h] /\ pc[h] = "insert"
    BY DEF CommitImport, Shape
  <1>2. /\ pc' = [pc EXCEPT ![h] = "complete"]
        /\ fresh' = [fresh EXCEPT ![h] = {}]
        /\ written' = [written EXCEPT ![h] = {}]
        /\ UNCHANGED file
    BY DEF CommitImport, Return
  <1>3. /\ batches' = batches \cup {f}
        /\ \A e \in Emails :
              /\ e \in fresh[h] => customers'[e] = Rows[f][e] /\ origin'[e] = f
              /\ e \notin fresh[h] => customers'[e] = customers[e] /\ origin'[e] = origin[e]
    BY DEF CommitImport
  <1>4. \A e \in fresh[h] : customers[e] = NoCustomer
    BY <1>1 DEF LockInv
  <1>5. \A g \in Files : DOMAIN Rows[g] \subseteq Emails
    BY ImportConstants DEF ImportConstants
  <1>6. \A g \in Files : \A e \in DOMAIN Rows[g] : Rows[g][e] # NoCustomer
    BY ProfileOfRow, ImportConstants DEF ImportConstants
  <1> HIDE DEF f
  <1>7. AllOrNothing'
    <2>1. ASSUME NEW b \in batches', NEW e \in DOMAIN Rows[b]
          PROVE  customers'[e] = Rows[b][e]
      <3>1. e \in Emails /\ b \in Files
        BY <1>1, <1>3, <1>5, <2>1
      <3>2. CASE b = f
        BY <1>1, <1>3, <3>1, <3>2 DEF LockInv, f
      <3>3. CASE b \in batches
        BY <1>3, <1>4, <1>6, <3>1, <3>3 DEF AllOrNothing
      <3> QED BY <1>3, <3>2, <3>3
    <2>2. ASSUME NEW e \in Emails, customers'[e] # NoCustomer
          PROVE  /\ origin'[e] \in batches'
                 /\ e \in DOMAIN Rows[origin'[e]]
                 /\ customers'[e] = Rows[origin'[e]][e]
      BY <1>1, <1>3, <2>2 DEF AllOrNothing
    <2> QED BY <2>1, <2>2 DEF AllOrNothing
  <1>8. LockInv'
    <2>1. \A g \in Handlers : InTransaction(g)' => g # h /\ InTransaction(g)
      BY <1>2 DEF InTransaction
    <2>2. \A g \in Handlers : InTransaction(g)' => file'[g] \notin batches'
      BY <1>1, <1>2, <1>3, <2>1 DEF LockInv, InTransaction, f
    <2>3. \A g, j \in Handlers :
             InTransaction(g)' /\ InTransaction(j)' /\ file'[g] = file'[j] => g = j
      BY <1>2, <2>1 DEF LockInv
    <2>4. \A g \in Handlers : \A e \in written'[g] : customers'[e] = NoCustomer
      BY <1>1, <1>2, <1>3 DEF LockInv
    <2>5. \A g, j \in Handlers : g # j => written'[g] \cap written'[j] = {}
      BY <1>2 DEF LockInv
    <2>6. ASSUME NEW g \in Handlers, pc'[g] = "insert",
                 NEW e \in DOMAIN Rows[file'[g]] \ fresh'[g]
          PROVE  customers'[e] = Rows[file'[g]][e]
      <3>1. /\ g # h /\ pc[g] = "insert" /\ file'[g] = file[g] /\ fresh'[g] = fresh[g]
            /\ file[g] \in Files
        BY <1>2, <2>6 DEF Shape
      <3>2. customers[e] = Rows[file[g]][e] /\ e \in Emails
        BY <1>5, <2>6, <3>1 DEF LockInv
      <3>3. customers[e] # NoCustomer
        BY <1>6, <2>6, <3>1, <3>2
      <3> QED BY <1>3, <1>4, <3>1, <3>2, <3>3
    <2> QED BY <2>2, <2>3, <2>4, <2>5, <2>6 DEF LockInv
  <1> QED BY <1>7, <1>8

LEMMA StoreStep == TypeInv /\ StoreInv /\ [Next]_vars => StoreInv'
  <1> SUFFICES ASSUME TypeInv, StoreInv, [Next]_vars PROVE StoreInv'
    OBVIOUS
  <1> USE DEF TypeInv, TypeOK
  <1>1. ASSUME NEW h \in Handlers, NEW p \in PcValues, pc[h] \notin {"select", "insert"},
               p \notin {"select", "insert"}, pc' = [pc EXCEPT ![h] = p],
               NEW f \in Files, file' = [file EXCEPT ![h] = f],
               UNCHANGED <<batches, customers, origin, fresh, written>>
        PROVE  StoreInv'
    BY <1>1 DEF StoreInv, LockInv, AllOrNothing, InTransaction
  <1>a. ASSUME NEW h \in Handlers, NEW k \in Keys, NEW f \in Files, Reserve(h, k, f)
        PROVE  StoreInv'
    BY <1>1, <1>a DEF Reserve, ReserveNew, ReserveRecovered, Replay, PcValues
  <1>b. ASSUME NEW h \in Handlers, NEW f \in Files, StartCli(h, f) PROVE StoreInv'
    BY <1>1, <1>b DEF StartCli, database, PcValues
  <1>c. ASSUME NEW h \in Handlers, NEW s, NEW n, Return(h, s, n),
               UNCHANGED database
        PROVE  StoreInv'
    BY <1>c, StoreLeave DEF Return, database, PcValues
  <1>d. ASSUME NEW h \in Handlers, Validate(h) PROVE StoreInv'
    <2>1. CASE file[h] \notin ValidFiles
      BY <1>c, <1>d, <2>1 DEF Validate
    <2>2. CASE file[h] \in ValidFiles
      <3>1. /\ pc[h] = "validate" /\ pc' = [pc EXCEPT ![h] = "batch"]
            /\ UNCHANGED <<file, fresh, written, batches, customers, origin>>
        BY <1>d, <2>2 DEF Validate, database
      <3>2. LockInv'
        BY <3>1 DEF StoreInv, LockInv, InTransaction
      <3>3. AllOrNothing'
        BY <3>1 DEF StoreInv, AllOrNothing
      <3> QED BY <3>2, <3>3 DEF StoreInv
    <2> QED BY <2>1, <2>2
  <1>e. ASSUME NEW h \in Handlers, InsertBatch(h) PROVE StoreInv'
    <2>1. CASE file[h] \in batches
      BY <1>c, <1>e, <2>1 DEF InsertBatch
    <2>2. CASE file[h] \notin batches
      <3>1. /\ pc[h] = "batch" /\ pc' = [pc EXCEPT ![h] = "select"]
            /\ UNCHANGED <<file, fresh, written, batches, customers, origin>>
        BY <1>e, <2>2 DEF InsertBatch, database
      <3>2. \A g \in Handlers \ {h} : InTransaction(g) => file[g] # file[h]
        BY <1>e DEF InsertBatch, BatchLocked
      <3>3. LockInv'
        BY <2>2, <3>1, <3>2 DEF StoreInv, LockInv, InTransaction
      <3>4. AllOrNothing'
        BY <3>1 DEF StoreInv, AllOrNothing
      <3> QED BY <3>3, <3>4 DEF StoreInv
    <2> QED BY <2>1, <2>2
  <1>f. ASSUME NEW h \in Handlers, SelectExisting(h) PROVE StoreInv'
    <2>1. CASE Conflicts(file[h]) # {}
      BY <1>c, <1>f, <2>1 DEF SelectExisting
    <2>2. CASE Conflicts(file[h]) = {}
      <3>1. \A e \in DOMAIN Rows[file[h]] \ NewEmails(file[h]) :
               customers[e] = Rows[file[h]][e]
        BY <2>2 DEF Conflicts, NewEmails
      <3>2. written[h] = {}
        BY <1>f DEF SelectExisting, Shape
      <3>3. /\ pc[h] = "select" /\ pc' = [pc EXCEPT ![h] = "insert"]
            /\ fresh' = [fresh EXCEPT ![h] = NewEmails(file[h])]
            /\ UNCHANGED <<file, written, batches, customers, origin>>
        BY <1>f, <2>2 DEF SelectExisting, database
      <3>4. LockInv'
        <4> DEFINE N == NewEmails(file[h])
        <4> HIDE DEF N
        <4>1. fresh' = [fresh EXCEPT ![h] = N]
          BY <3>3 DEF N
        <4>2. \A e \in DOMAIN Rows[file[h]] \ N : customers[e] = Rows[file[h]][e]
          BY <3>1 DEF N
        <4> QED BY <3>2, <3>3, <4>1, <4>2 DEF StoreInv, LockInv, InTransaction
      <3>5. AllOrNothing'
        BY <3>3 DEF StoreInv, AllOrNothing
      <3> QED BY <3>4, <3>5 DEF StoreInv
    <2> QED BY <2>1, <2>2
  <1>g. ASSUME NEW h \in Handlers, NEW e \in Emails, InsertCustomer(h, e) PROVE StoreInv'
    <2>1. CASE customers[e] = NoCustomer
      <3>1. \A g \in Handlers \ {h} : e \notin written[g]
        BY <1>g DEF InsertCustomer, EmailLocked, InTransaction, Shape
      <3>2. /\ written' = [written EXCEPT ![h] = @ \cup {e}]
            /\ UNCHANGED <<pc, file, fresh, batches, customers, origin>>
        BY <1>g, <2>1 DEF InsertCustomer, database
      <3> QED BY <2>1, <3>1, <3>2 DEF StoreInv, LockInv, AllOrNothing, InTransaction
    <2>2. CASE customers[e] # NoCustomer
      BY <1>c, <1>g, <2>2 DEF InsertCustomer
    <2> QED BY <2>1, <2>2
  <1>h. ASSUME NEW h \in Handlers, CommitImport(h) PROVE StoreInv'
    BY <1>h, StoreCommit
  <1>i. ASSUME NEW h \in Handlers, ImportFails(h) PROVE StoreInv'
    BY <1>c, <1>i DEF ImportFails
  <1>j. ASSUME NEW h \in Handlers, NEW p \in {"done", "crashed"}, NEW r, End(h, p, r),
               UNCHANGED <<batches, customers, origin>>
        PROVE  StoreInv'
    BY <1>j, StoreLeave DEF End, PcValues
  <1>l. ASSUME NEW h \in Handlers, CompleteOperation(h) PROVE StoreInv'
    BY <1>j, <1>l DEF CompleteOperation
  <1>m. ASSUME NEW h \in Handlers, CompletionFails(h) PROVE StoreInv'
    BY <1>j, <1>m DEF CompletionFails
  <1>n. ASSUME NEW h \in Handlers, FinishCli(h) PROVE StoreInv'
    BY <1>j, <1>n DEF FinishCli, database
  <1>o. ASSUME NEW h \in Handlers, Crash(h) PROVE StoreInv'
    BY <1>j, <1>o DEF Crash, database
  <1>p. ASSUME NEW k \in Keys, LeaseExpires(k) PROVE StoreInv'
    BY <1>p DEF LeaseExpires, handlers, StoreInv, LockInv, AllOrNothing, InTransaction
  <1>q. CASE UNCHANGED vars
    BY <1>q DEF vars, StoreInv, LockInv, AllOrNothing, InTransaction
  <1> QED
    BY <1>a, <1>b, <1>d, <1>e, <1>f, <1>g, <1>h, <1>i, <1>l, <1>m, <1>n, <1>o, <1>p, <1>q
    DEF Next, Step, Finished

(***************************************************************************)
(* Concurrent, failing and crashing imports never leave part of a file, a  *)
(* row of a file that was rolled back, or a row overwritten (AllOrNothing).*)
(***************************************************************************)
THEOREM ImportsAreWhole == Spec => []AllOrNothing
  <1>1. StoreInv => AllOrNothing
    BY DEF StoreInv
  <1> QED BY <1>1, TypeInvariant, StoreInit, StoreStep, PTL DEF Spec

-----------------------------------------------------------------------------
(***************************************************************************)
(* Ownership: a running request works on the body its key is bound to,     *)
(* under an attempt no other running request has; an accepted result in    *)
(* hand is about a committed batch; a final answer repeats the stored row. *)
(***************************************************************************)
OwnerInv ==
    /\ \A h \in Requests : Processing(h) =>
          ops[key[h]].sha = file[h] /\ attempt[h] <= ops[key[h]].attempts
    /\ \A g, h \in Requests :
          Processing(g) /\ Processing(h) /\ key[g] = key[h] /\ attempt[g] = attempt[h]
              => g = h
    /\ \A h \in Handlers :
          pc[h] = "complete" /\ result[h].status \in AcceptedStatuses => file[h] \in batches

ReplyInv ==
    \A h \in Requests : reply[h] \in ResultStatuses =>
        /\ pc[h] # "idle"
        /\ ops[key[h]].status = reply[h]
        /\ ops[key[h]].sha = file[h]

ResultInv == OwnerInv /\ AcceptedIsDurable /\ ReplyInv

LEMMA ResultInit == Init => ResultInv
  <1> SUFFICES ASSUME Init PROVE ResultInv
    OBVIOUS
  <1>1. {"none", "absent"} \cap ResultStatuses = {}
    BY DEF ResultStatuses, AcceptedStatuses, RefusedStatuses, RejectedStatuses
  <1>2. OwnerInv
    BY DEF Init, OwnerInv, Processing, Handlers
  <1>3. AcceptedIsDurable
    BY <1>1 DEF Init, AcceptedIsDurable, Absent, ResultStatuses
  <1>4. ReplyInv
    BY <1>1 DEF Init, ReplyInv, Handlers
  <1> QED BY <1>2, <1>3, <1>4 DEF ResultInv

(***************************************************************************)
(* A step that leaves the operations alone and moves one handler on, with  *)
(* a result that is true of the batches if it is an accepted one.          *)
(***************************************************************************)
LEMMA ResultMove ==
    ASSUME TypeInv, ResultInv, NEW h \in Handlers, NEW p \in PcValues,
           pc[h] \in {"validate", "batch", "select", "insert"}, p # "idle",
           pc' = [pc EXCEPT ![h] = p],
           UNCHANGED <<ops, outbox, key, file, attempt, reply>>,
           batches \subseteq batches', batches' \subseteq Files,
           \A g \in Handlers \ {h} : result'[g] = result[g],
           p = "complete" =>
               (result'[h].status \in AcceptedStatuses => file[h] \in batches')
    PROVE  ResultInv'
  <1> USE DEF TypeInv, TypeOK, ResultInv
  <1>1. \A g \in Requests : Processing(g)' => Processing(g)
    BY DEF Processing, Handlers
  <1>2. OwnerInv'
    BY <1>1 DEF OwnerInv
  <1>3. AcceptedIsDurable'
    BY DEF AcceptedIsDurable
  <1>4. ReplyInv'
    BY DEF ReplyInv, Handlers
  <1> QED BY <1>2, <1>3, <1>4

(***************************************************************************)
(* A call that ends.  `stored' says whether it stored its result.          *)
(***************************************************************************)
LEMMA ResultEnd ==
    ASSUME TypeInv, ResultInv, NEW h \in Handlers, NEW p \in {"done", "crashed"},
           NEW r, End(h, p, r), UNCHANGED batches,
           \/ UNCHANGED <<ops, outbox>>
           \/ h \in Requests /\ pc[h] = "complete" /\ StoreResult(h),
           h \in Requests /\ r \in ResultStatuses =>
               /\ Processing(h)
               /\ ops'[key[h]].status = r
    PROVE  ResultInv'
  <1> USE DEF TypeInv, TypeOK, ResultInv
  <1>1. /\ pc' = [pc EXCEPT ![h] = p] /\ p # "idle"
        /\ reply' = [reply EXCEPT ![h] = r]
        /\ attempt' = [attempt EXCEPT ![h] = 0]
        /\ UNCHANGED <<key, file>>
        /\ result' = [result EXCEPT ![h] = NoResult]
    BY DEF End
  <1>2. \A g \in Requests : Processing(g)' => Processing(g) /\ g # h
    BY <1>1 DEF Processing, Handlers
  <1>3. /\ \A k \in Keys : ops'[k].sha = ops[k].sha /\ ops'[k].attempts = ops[k].attempts
        /\ \A k \in Keys : ops[k].status \in ResultStatuses =>
                              ops'[k].status = ops[k].status
        /\ \A k \in Keys : ops'[k].status \in AcceptedStatuses <=> k \in outbox'
        /\ \A k \in Keys : k \in outbox' => ops'[k].sha \in batches
    <2>1. CASE UNCHANGED <<ops, outbox>>
      BY <2>1 DEF AcceptedIsDurable
    <2>2. CASE h \in Requests /\ pc[h] = "complete" /\ StoreResult(h)
      <3>1. /\ key[h] \in Keys /\ result[h] \in [status : ResultStatuses, inserted : Nat]
            /\ Processing(h)
        BY <2>2 DEF Shape, Processing, Handlers
      <3>2. /\ \A j \in Keys : /\ ops'[j].sha = ops[j].sha
                               /\ ops'[j].attempts = ops[j].attempts
                               /\ j # key[h] => ops'[j] = ops[j]
            /\ ops'[key[h]].status = result[h].status
        BY <2>2, <3>1, StoreResultFacts
      <3>3. ops[key[h]].status = "processing" /\ ops[key[h]].sha = file[h]
        BY <2>2, <3>1 DEF StoreResult, HoldsAttempt, OwnerInv
      <3>4. result[h].status \in AcceptedStatuses => file[h] \in batches
        BY <2>2 DEF OwnerInv
      <3>5. outbox' = IF result[h].status \in AcceptedStatuses
                      THEN outbox \cup {key[h]} ELSE outbox
        BY <2>2 DEF StoreResult
      <3>6. "processing" \notin ResultStatuses /\ AcceptedStatuses \subseteq ResultStatuses
        BY DEF ResultStatuses, AcceptedStatuses, RefusedStatuses, RejectedStatuses
      <3>7. key[h] \notin outbox
        BY <3>1, <3>3, <3>6 DEF AcceptedIsDurable
      <3> HIDE DEF TypeOK, TypeInv
      <3> QED BY <3>1, <3>2, <3>3, <3>4, <3>5, <3>6, <3>7 DEF AcceptedIsDurable
    <2> QED BY <2>1, <2>2
  <1>4. \A g \in Requests : pc[g] # "idle" => key[g] \in Keys
    BY DEF Shape, Handlers
  <1>5. \A g \in Requests : Processing(g) => key[g] \in Keys
    BY <1>4 DEF Processing
  <1>6. OwnerInv'
    <2>1. \A g \in Requests : Processing(g)' =>
             ops'[key'[g]].sha = file'[g] /\ attempt'[g] <= ops'[key'[g]].attempts
      BY <1>1, <1>2, <1>3, <1>5 DEF OwnerInv, Handlers
    <2>2. \A g, j \in Requests :
             Processing(g)' /\ Processing(j)' /\ key'[g] = key'[j]
                 /\ attempt'[g] = attempt'[j] => g = j
      BY <1>1, <1>2 DEF OwnerInv, Handlers
    <2>3. \A g \in Handlers :
             pc'[g] = "complete" /\ result'[g].status \in AcceptedStatuses
                 => file'[g] \in batches'
      BY <1>1 DEF OwnerInv
    <2> QED BY <2>1, <2>2, <2>3 DEF OwnerInv
  <1>7. AcceptedIsDurable'
    BY <1>3 DEF AcceptedIsDurable
  <1>8. ReplyInv'
    <2>1. ASSUME NEW g \in Requests, reply'[g] \in ResultStatuses
          PROVE  /\ pc'[g] # "idle"
                 /\ ops'[key'[g]].status = reply'[g]
                 /\ ops'[key'[g]].sha = file'[g]
      <3>1. CASE g = h
        BY <1>1, <1>3, <1>5, <2>1, <3>1 DEF OwnerInv
      <3>2. CASE g # h
        BY <1>1, <1>3, <1>4, <2>1, <3>2 DEF ReplyInv, Handlers
      <3> QED BY <3>1, <3>2
    <2> QED BY <2>1 DEF ReplyInv
  <1> QED BY <1>6, <1>7, <1>8

(***************************************************************************)
(* A reservation: a new row has no running request, a recovered one gets   *)
(* an attempt above all of theirs, and a replay repeats the row.           *)
(***************************************************************************)
LEMMA ResultReserve ==
    ASSUME TypeInv, ResultInv, NEW h \in Handlers, NEW k \in Keys, NEW f \in Files,
           Reserve(h, k, f)
    PROVE  ResultInv'
  <1> USE DEF TypeInv, TypeOK, ResultInv
  <1>1. /\ h \in Requests /\ pc[h] = "idle"
        /\ key' = [key EXCEPT ![h] = k] /\ file' = [file EXCEPT ![h] = f]
        /\ UNCHANGED <<batches, outbox, result>>
    BY DEF Reserve
  <1>2. reply[h] \notin ResultStatuses
    BY <1>1 DEF ReplyInv
  <1>3. \A g \in Requests : pc[g] # "idle" =>
           g # h /\ key[g] \in Keys /\ ops[key[g]].status # "absent"
    BY <1>1 DEF Shape, Handlers
  <1>4. /\ {"absent", "processing", "key_reused"} \cap ResultStatuses = {}
        /\ AcceptedStatuses \subseteq ResultStatuses
    BY DEF ResultStatuses, AcceptedStatuses, RefusedStatuses, RejectedStatuses
  <1>5. ASSUME NEW n \in Nat, ops' = [ops EXCEPT ![k] = Reserved(f, n)],
               attempt' = [attempt EXCEPT ![h] = n],
               pc' = [pc EXCEPT ![h] = "validate"], UNCHANGED reply,
               ops[k].status \notin ResultStatuses,
               ops[k].status # "absent" => ops[k].sha = f /\ n > ops[k].attempts
        PROVE  ResultInv'
    <2>1. /\ ops'[k].sha = f /\ ops'[k].attempts = n /\ ops'[k].status = "processing"
          /\ \A j \in Keys \ {k} : ops'[j] = ops[j]
      BY <1>5 DEF Reserved
    <2>2. \A g \in Requests \ {h} : Processing(g)' => Processing(g) /\ pc[g] # "idle"
      BY <1>5 DEF Processing, Handlers
    <2>3. \A g \in Requests \ {h} : Processing(g) /\ key[g] = k => attempt[g] < n
      BY <1>3, <1>5 DEF OwnerInv, Processing, Operations, Handlers
    <2>4. OwnerInv'
      <3>1. \A g \in Requests : Processing(g)' =>
               ops'[key'[g]].sha = file'[g] /\ attempt'[g] <= ops'[key'[g]].attempts
        <4>1. ASSUME NEW g \in Requests, Processing(g)'
              PROVE  ops'[key'[g]].sha = file'[g] /\ attempt'[g] <= ops'[key'[g]].attempts
          <5>1. CASE g = h
            BY <1>1, <1>5, <2>1, <5>1
          <5>2. CASE g # h /\ key[g] = k
            <6>1. Processing(g) /\ ops[k].status # "absent"
              BY <1>3, <2>2, <4>1, <5>2
            <6>2. ops[k].sha = file[g] /\ attempt[g] \in Nat /\ attempt[g] < n
              BY <2>3, <5>2, <6>1 DEF OwnerInv, Handlers
            <6> QED BY <1>1, <1>5, <2>1, <5>2, <6>1, <6>2 DEF Handlers
          <5>3. CASE g # h /\ key[g] # k
            BY <1>1, <1>3, <1>5, <2>1, <2>2, <4>1, <5>3 DEF OwnerInv, Handlers
          <5> QED BY <5>1, <5>2, <5>3
        <4> QED BY <4>1
      <3>2. \A g, j \in Requests :
               Processing(g)' /\ Processing(j)' /\ key'[g] = key'[j]
                   /\ attempt'[g] = attempt'[j] => g = j
        BY <1>1, <1>5, <2>2, <2>3 DEF OwnerInv, Handlers
      <3>3. \A g \in Handlers :
               pc'[g] = "complete" /\ result'[g].status \in AcceptedStatuses
                   => file'[g] \in batches'
        BY <1>1, <1>5 DEF OwnerInv
      <3> QED BY <3>1, <3>2, <3>3 DEF OwnerInv
    <2>5. AcceptedIsDurable'
      BY <1>1, <1>4, <1>5, <2>1 DEF AcceptedIsDurable
    <2>6. ReplyInv'
      BY <1>1, <1>2, <1>3, <1>5, <2>1 DEF ReplyInv, Handlers
    <2> QED BY <2>4, <2>5, <2>6
  <1>6. CASE ReserveNew(h, k, f)
    BY <1>4, <1>5, <1>6 DEF ReserveNew
  <1>7. CASE ReserveRecovered(h, k, f)
    <2>1. ops[k].attempts \in Nat
      BY DEF Operations
    <2>2. /\ ops' = [ops EXCEPT ![k] = Reserved(f, ops[k].attempts + 1)]
          /\ attempt' = [attempt EXCEPT ![h] = ops[k].attempts + 1]
          /\ pc' = [pc EXCEPT ![h] = "validate"]
          /\ UNCHANGED reply
          /\ ops[k].status = "processing" /\ ops[k].sha = f
      BY <1>7 DEF ReserveRecovered, CanRecover
    <2>3. /\ ops[k].attempts + 1 \in Nat
          /\ ops[k].attempts + 1 > ops[k].attempts
      BY <2>1
    <2> QED BY <1>4, <1>5, <2>2, <2>3
  <1>8. CASE Replay(h, k, f)
    <2>1. /\ pc' = [pc EXCEPT ![h] = "done"] /\ UNCHANGED <<ops, attempt>>
          /\ reply' = [reply EXCEPT ![h] = IF ops[k].sha = f THEN ops[k].status
                                           ELSE "key_reused"]
      BY <1>8 DEF Replay
    <2>2. \A g \in Requests : Processing(g)' => Processing(g) /\ g # h
      BY <1>1, <2>1 DEF Processing, Handlers
    <2>3. OwnerInv'
      BY <1>1, <2>1, <2>2 DEF OwnerInv, Handlers
    <2>4. AcceptedIsDurable'
      BY <1>1, <2>1 DEF AcceptedIsDurable
    <2>5. ReplyInv'
      BY <1>1, <1>4, <2>1 DEF ReplyInv, Handlers
    <2> QED BY <2>3, <2>4, <2>5
  <1> QED BY <1>6, <1>7, <1>8 DEF Reserve

LEMMA ResultStep == TypeInv /\ ResultInv /\ [Next]_vars => ResultInv'
  <1> SUFFICES ASSUME TypeInv, ResultInv, [Next]_vars PROVE ResultInv'
    OBVIOUS
  <1> USE DEF TypeInv, TypeOK
  <1>0. /\ \A s \in RefusedStatuses : s \notin AcceptedStatuses
        /\ {"validation_failed", "conflict", "migration_required", "database_error"}
              = RefusedStatuses
        /\ AcceptedStatuses \cap {"none", "processing", "unavailable"} = {}
        /\ ResultStatuses \cap {"none", "processing", "unavailable"} = {}
    BY DEF RefusedStatuses, RejectedStatuses, AcceptedStatuses, ResultStatuses
  <1>a. ASSUME NEW h \in Handlers, NEW k \in Keys, NEW f \in Files, Reserve(h, k, f)
        PROVE  ResultInv'
    BY <1>a, ResultReserve
  <1>b. ASSUME NEW h \in Handlers, NEW f \in Files, StartCli(h, f) PROVE ResultInv'
    <2>1. /\ h \notin Requests /\ pc' = [pc EXCEPT ![h] = "validate"]
          /\ file' = [file EXCEPT ![h] = f]
          /\ UNCHANGED <<ops, outbox, batches, key, attempt, result, reply>>
      BY <1>b, ImportConstants DEF StartCli, database, ImportConstants
    <2>2. \A g \in Requests : Processing(g)' => Processing(g) /\ g # h
      BY <2>1 DEF Processing, Handlers
    <2>3. OwnerInv'
      BY <2>1, <2>2 DEF ResultInv, OwnerInv, Handlers
    <2>4. AcceptedIsDurable'
      BY <2>1 DEF ResultInv, AcceptedIsDurable
    <2>5. ReplyInv'
      BY <2>1 DEF ResultInv, ReplyInv, Handlers
    <2> QED BY <2>3, <2>4, <2>5 DEF ResultInv
  <1>c. ASSUME NEW h \in Handlers, NEW s, NEW n, Return(h, s, n),
               pc[h] \in {"validate", "batch", "select", "insert"},
               UNCHANGED <<ops, outbox>>,
               batches \subseteq batches', batches' \subseteq Files,
               s \in AcceptedStatuses => file[h] \in batches'
        PROVE  ResultInv'
    BY <1>c, ResultMove DEF Return, PcValues
  <1>d. ASSUME NEW h \in Handlers, Validate(h) PROVE ResultInv'
    <2>1. CASE file[h] \notin ValidFiles
      BY <1>0, <1>c, <1>d, <2>1 DEF Validate, database
    <2>2. CASE file[h] \in ValidFiles
      BY <1>d, <2>2, ResultMove DEF Validate, database, PcValues
    <2> QED BY <2>1, <2>2
  <1>e. ASSUME NEW h \in Handlers, InsertBatch(h) PROVE ResultInv'
    <2>1. CASE file[h] \in batches
      BY <1>c, <1>e, <2>1 DEF InsertBatch, database
    <2>2. CASE file[h] \notin batches
      BY <1>e, <2>2, ResultMove DEF InsertBatch, database, PcValues
    <2> QED BY <2>1, <2>2
  <1>f. ASSUME NEW h \in Handlers, SelectExisting(h) PROVE ResultInv'
    <2>1. CASE Conflicts(file[h]) # {}
      BY <1>0, <1>c, <1>f, <2>1 DEF SelectExisting, database
    <2>2. CASE Conflicts(file[h]) = {}
      BY <1>f, <2>2, ResultMove DEF SelectExisting, database, PcValues
    <2> QED BY <2>1, <2>2
  <1>g. ASSUME NEW h \in Handlers, NEW e \in Emails, InsertCustomer(h, e) PROVE ResultInv'
    <2>1. CASE customers[e] = NoCustomer
      <3>1. UNCHANGED <<ops, outbox, key, file, attempt, reply, batches, result, pc>>
        BY <1>g, <2>1 DEF InsertCustomer, database
      <3> QED BY <3>1 DEF ResultInv, OwnerInv, AcceptedIsDurable, ReplyInv, Processing
    <2>2. CASE customers[e] # NoCustomer
      BY <1>0, <1>c, <1>g, <2>2 DEF InsertCustomer, database
    <2> QED BY <2>1, <2>2
  <1>h. ASSUME NEW h \in Handlers, CommitImport(h) PROVE ResultInv'
    <2>1. /\ pc[h] = "insert" /\ batches' = batches \cup {file[h]}
          /\ UNCHANGED <<ops, outbox>> /\ file[h] \in Files
      BY <1>h DEF CommitImport, Shape
    <2>2. \E s \in {"imported", "database_error"}, n \in {0, Cardinality(fresh[h])} :
             Return(h, s, n)
      BY <1>h DEF CommitImport
    <2> QED BY <1>c, <2>1, <2>2
  <1>i. ASSUME NEW h \in Handlers, ImportFails(h) PROVE ResultInv'
    <2>1. /\ pc[h] \in {"batch", "select", "insert"}
          /\ UNCHANGED database
          /\ \E s \in RefusedStatuses : Return(h, s, 0)
      BY <1>0, <1>i DEF ImportFails
    <2> QED BY <1>0, <1>c, <2>1 DEF database
  <1>l. ASSUME NEW h \in Handlers, CompleteOperation(h) PROVE ResultInv'
    <2>1. /\ h \in Requests /\ pc[h] = "complete" /\ Processing(h)
          /\ End(h, "done", ops'[key[h]].status) /\ UNCHANGED batches
          /\ \/ StoreResult(h)
             \/ UNCHANGED <<ops, outbox>>
      BY <1>l DEF CompleteOperation, LeaveResult, Processing
    <2> QED BY <2>1, ResultEnd
  <1>m. ASSUME NEW h \in Handlers, CompletionFails(h) PROVE ResultInv'
    <2>1. /\ h \in Requests /\ pc[h] = "complete"
          /\ End(h, "done", "unavailable") /\ UNCHANGED batches
          /\ \/ StoreResult(h)
             \/ UNCHANGED <<ops, outbox>>
      BY <1>m DEF CompletionFails
    <2> QED BY <1>0, <2>1, ResultEnd
  <1>n. ASSUME NEW h \in Handlers, FinishCli(h) PROVE ResultInv'
    <2>1. h \notin Requests
      BY <1>n, ImportConstants DEF FinishCli, ImportConstants
    <2> QED BY <1>n, <2>1, ResultEnd DEF FinishCli, database
  <1>o. ASSUME NEW h \in Handlers, Crash(h) PROVE ResultInv'
    BY <1>0, <1>o, ResultEnd DEF Crash, database
  <1>p. ASSUME NEW k \in Keys, LeaseExpires(k) PROVE ResultInv'
    <2>1. \A j \in Keys : /\ ops'[j].sha = ops[j].sha
                          /\ ops'[j].attempts = ops[j].attempts
                          /\ ops'[j].status = ops[j].status
      BY <1>p, ExpiredIsOperation DEF LeaseExpires
    <2>2. UNCHANGED <<batches, outbox, pc, key, file, attempt, result, reply>>
      BY <1>p DEF LeaseExpires, handlers
    <2>3. \A g \in Requests : pc[g] # "idle" => key[g] \in Keys
      BY DEF Shape, Handlers
    <2>4. OwnerInv'
      BY <2>1, <2>2, <2>3 DEF ResultInv, OwnerInv, Processing
    <2>5. AcceptedIsDurable'
      BY <2>1, <2>2 DEF ResultInv, AcceptedIsDurable
    <2>6. ReplyInv'
      BY <2>1, <2>2, <2>3 DEF ResultInv, ReplyInv
    <2> QED BY <2>4, <2>5, <2>6 DEF ResultInv
  <1>q. CASE UNCHANGED vars
    BY <1>q DEF vars, ResultInv, OwnerInv, AcceptedIsDurable, ReplyInv, Processing
  <1> QED
    BY <1>a, <1>b, <1>d, <1>e, <1>f, <1>g, <1>h, <1>i, <1>l, <1>m, <1>n, <1>o, <1>p, <1>q
    DEF Next, Step, Finished

LEMMA ResultInvariant == Spec => []ResultInv
  BY TypeInvariant, ResultInit, ResultStep, PTL DEF Spec

(***************************************************************************)
(* However many leases run out and whoever recovers, complete_operation    *)
(* accepts at most one of the running requests of a key (OneOwner).        *)
(***************************************************************************)
THEOREM SingleOwner == Spec => []OneOwner
  <1>1. ResultInv => OneOwner
    BY DEF ResultInv, OwnerInv, OneOwner, HoldsAttempt
  <1> QED BY <1>1, ResultInvariant, PTL

(***************************************************************************)
(* An accepted operation and its outbox event are never one without the    *)
(* other, and stand on a committed batch (AcceptedIsDurable).              *)
(***************************************************************************)
THEOREM AcceptedHasEvent == Spec => []AcceptedIsDurable
  <1>1. ResultInv => AcceptedIsDurable
    BY DEF ResultInv
  <1> QED BY <1>1, ResultInvariant, PTL

(***************************************************************************)
(* Retries, replays and late attempts of one key never give two different  *)
(* final answers (RepliesAgree).                                           *)
(***************************************************************************)
THEOREM AnswersAgree == Spec => []RepliesAgree
  <1>1. ResultInv => RepliesAgree
    BY DEF ResultInv, ReplyInv, RepliesAgree
  <1> QED BY <1>1, ResultInvariant, PTL

-----------------------------------------------------------------------------
(***************************************************************************)
(* Counts: who says "imported" of a file, an operation or a handler on its *)
(* way to say so, is alone, and knows the number of customers of its batch.*)
(***************************************************************************)
Importing(h) == pc[h] = "complete" /\ result[h].status = "imported"

CountInv ==
    /\ \A e \in Emails : customers[e] = NoCustomer => origin[e] = NoFile
    /\ \A h \in Handlers : Importing(h) =>
          /\ file[h] \in batches
          /\ result[h].inserted = inserted[file[h]]
          /\ \A g \in Handlers : Importing(g) /\ file[g] = file[h] => g = h
          /\ \A k \in Keys : ops[k].status = "imported" => ops[k].sha # file[h]
    /\ CountsAreTrue

LEMMA CountInit == Init => CountInv
  BY DEF Init, CountInv, CountsAreTrue, Importing, Absent

(***************************************************************************)
(* A step that commits nothing, stores nothing, and gives nobody an        *)
(* "imported" result.                                                      *)
(***************************************************************************)
LEMMA CountKeep ==
    ASSUME TypeInv, CountInv,
           UNCHANGED <<batches, inserted, customers, origin>>,
           \A h \in Handlers : Importing(h)' =>
               Importing(h) /\ file'[h] = file[h] /\ result'[h] = result[h],
           \A k \in Keys : ops'[k].status = "imported" =>
               /\ ops[k].status = "imported"
               /\ ops'[k].sha = ops[k].sha
               /\ ops'[k].inserted = ops[k].inserted
    PROVE  CountInv'
  <1>1. CountsAreTrue'
    BY DEF CountInv, CountsAreTrue
  <1>2. \A h \in Handlers : Importing(h)' =>
          /\ file'[h] \in batches'
          /\ result'[h].inserted = inserted'[file'[h]]
          /\ \A g \in Handlers : Importing(g)' /\ file'[g] = file'[h] => g = h
          /\ \A k \in Keys : ops'[k].status = "imported" => ops'[k].sha # file'[h]
    BY DEF CountInv
  <1> QED BY <1>1, <1>2 DEF CountInv

LEMMA CountCommit ==
    ASSUME TypeInv, StoreInv, ResultInv, CountInv, NEW h \in Handlers, CommitImport(h)
    PROVE  CountInv'
  <1> USE DEF TypeInv, TypeOK
  <1> DEFINE f == file[h]
             n == Cardinality(fresh[h])
  <1>1. /\ f \in Files /\ pc[h] = "insert" /\ f \notin batches
        /\ fresh[h] \subseteq Emails
        /\ \A e \in fresh[h] : customers[e] = NoCustomer
    BY DEF CommitImport, Shape, StoreInv, LockInv, InTransaction
  <1>2. /\ batches' = batches \cup {f}
        /\ inserted' = [inserted EXCEPT ![f] = n]
        /\ UNCHANGED <<ops, file>>
        /\ \A e \in Emails :
              /\ e \in fresh[h] => customers'[e] = Rows[f][e] /\ origin'[e] = f
              /\ e \notin fresh[h] => customers'[e] = customers[e] /\ origin'[e] = origin[e]
    BY DEF CommitImport, Return
  <1>3. /\ pc' = [pc EXCEPT ![h] = "complete"]
        /\ \E s \in {"imported", "database_error"} :
              result' = [result EXCEPT ![h] =
                            [status |-> s, inserted |-> IF s = "imported" THEN n ELSE 0]]
    BY DEF CommitImport, Return
  <1>4. /\ \A g \in Handlers \ {h} : Importing(g)' =>
              Importing(g) /\ result'[g] = result[g] /\ file[g] # f
        /\ Importing(h)' => result'[h].inserted = n
    BY <1>1, <1>3 DEF Importing, CountInv
  <1>5. \A k \in Keys : ops[k].status = "imported" =>
           ops[k].sha \in batches /\ ops[k].sha \in Files
    BY DEF ResultInv, AcceptedIsDurable, AcceptedStatuses
  <1>6. /\ \A e \in Emails : origin'[e] = f <=> e \in fresh[h]
        /\ \A b \in Files : b # f =>
              \A e \in Emails : origin'[e] = b <=> origin[e] = b
    <2>1. \A e \in Emails : origin[e] # f
      BY <1>1, ImportConstants DEF CountInv, StoreInv, AllOrNothing, ImportConstants
    <2>2. \A e \in fresh[h] : origin[e] = NoFile /\ NoFile \notin Files
      BY <1>1, ImportConstants DEF CountInv, ImportConstants
    <2> QED BY <1>1, <1>2, <2>1, <2>2
  <1>7. {e \in Emails : origin'[e] = f} = fresh[h]
    BY <1>1, <1>6
  <1>8. \A b \in batches : /\ b # f /\ inserted'[b] = inserted[b]
                           /\ {e \in Emails : origin'[e] = b} = {e \in Emails : origin[e] = b}
    BY <1>1, <1>2, <1>6
  <1>9. \A e \in Emails : customers'[e] = NoCustomer => origin'[e] = NoFile
    <2>1. \A e \in fresh[h] : Rows[f][e] # NoCustomer
      BY <1>1, ProfileOfRow, ImportConstants DEF ImportConstants, CommitImport, Shape
    <2> QED BY <1>2, <2>1 DEF CountInv
  <1>10. inserted'[f] = n
    BY <1>1, <1>2
  <1> HIDE DEF f
  <1>11. CountsAreTrue'
    <2>1. \A b \in batches' : inserted'[b] = Cardinality({e \in Emails : origin'[e] = b})
      <3>1. ASSUME NEW b \in batches
            PROVE  inserted'[b] = Cardinality({e \in Emails : origin'[e] = b})
        <4>1. inserted[b] = Cardinality({e \in Emails : origin[e] = b})
          BY DEF CountInv, CountsAreTrue
        <4> QED BY <1>8, <4>1
      <3>2. inserted'[f] = Cardinality({e \in Emails : origin'[e] = f})
        BY <1>7, <1>10
      <3> HIDE DEF n
      <3> QED BY <1>2, <3>1, <3>2
    <2>2. \A k \in Keys : ops'[k].status = "imported" =>
             /\ ops'[k].inserted = inserted'[ops'[k].sha]
             /\ \A j \in Keys \ {k} :
                   ops'[j].status = "imported" => ops'[j].sha # ops'[k].sha
      BY <1>2, <1>5, <1>8 DEF CountInv, CountsAreTrue
    <2> QED BY <2>1, <2>2 DEF CountsAreTrue
  <1>12. ASSUME NEW g \in Handlers, Importing(g)'
         PROVE  /\ file'[g] \in batches'
                /\ result'[g].inserted = inserted'[file'[g]]
                /\ \A j \in Handlers : Importing(j)' /\ file'[j] = file'[g] => j = g
                /\ \A k \in Keys : ops'[k].status = "imported" => ops'[k].sha # file'[g]
    <2>1. CASE g = h
      BY <1>1, <1>2, <1>4, <1>5, <1>10, <1>12, <2>1 DEF f
    <2>2. CASE g # h
      BY <1>1, <1>2, <1>4, <1>8, <1>12, <2>2 DEF f, CountInv
    <2> QED BY <2>1, <2>2
  <1> QED BY <1>9, <1>11, <1>12 DEF CountInv

LEMMA CountStore ==
    ASSUME TypeInv, ResultInv, CountInv, NEW h \in Requests, pc[h] = "complete",
           StoreResult(h), pc'[h] # "complete",
           \A g \in Handlers \ {h} : pc'[g] = pc[g] /\ result'[g] = result[g],
           UNCHANGED <<batches, inserted, customers, origin, file>>
    PROVE  CountInv'
  <1> USE DEF TypeInv, TypeOK
  <1> DEFINE k == key[h]
  <1>1. k \in Keys /\ result[h] \in [status : ResultStatuses, inserted : Nat]
        /\ h \in Handlers /\ Processing(h)
    BY DEF Shape, Processing, Handlers
  <1>2. /\ \A j \in Keys : ops'[j].sha = ops[j].sha /\ (j # k => ops'[j] = ops[j])
        /\ ops'[k].status = result[h].status
        /\ ops'[k].inserted = result[h].inserted
    BY <1>1, StoreResultFacts
  <1>3. ops[k].sha = file[h]
    BY <1>1 DEF ResultInv, OwnerInv
  <1>4. \A g \in Handlers : Importing(g)' =>
           g # h /\ Importing(g) /\ result'[g] = result[g]
    BY DEF Importing
  <1> HIDE DEF k
  <1>5. CASE result[h].status # "imported"
    <2>1. \A j \in Keys : ops'[j].status = "imported" =>
             /\ ops[j].status = "imported"
             /\ ops'[j].sha = ops[j].sha
             /\ ops'[j].inserted = ops[j].inserted
      BY <1>2, <1>5
    <2> QED BY <1>4, <2>1, CountKeep
  <1>6. CASE result[h].status = "imported"
    <2>1. /\ Importing(h) /\ file[h] \in batches
          /\ result[h].inserted = inserted[file[h]]
          /\ \A g \in Handlers : Importing(g) /\ file[g] = file[h] => g = h
          /\ \A j \in Keys : ops[j].status = "imported" => ops[j].sha # file[h]
      BY <1>1, <1>6 DEF Importing, CountInv
    <2>2. CountsAreTrue'
      BY <1>1, <1>2, <1>3, <1>6, <2>1 DEF CountInv, CountsAreTrue
    <2>3. ASSUME NEW g \in Handlers, Importing(g)'
          PROVE  /\ file'[g] \in batches'
                 /\ result'[g].inserted = inserted'[file'[g]]
                 /\ \A j \in Handlers : Importing(j)' /\ file'[j] = file'[g] => j = g
                 /\ \A j \in Keys : ops'[j].status = "imported" => ops'[j].sha # file'[g]
      <3>1. /\ g # h /\ Importing(g) /\ result'[g] = result[g]
            /\ file[g] \in batches /\ result[g].inserted = inserted[file[g]]
            /\ \A j \in Handlers : Importing(j) /\ file[j] = file[g] => j = g
            /\ \A j \in Keys : ops[j].status = "imported" => ops[j].sha # file[g]
        BY <1>4, <2>3 DEF CountInv
      <3>2. file[h] # file[g]
        BY <1>1, <2>1, <3>1
      <3>3. \A j \in Keys : ops'[j].status = "imported" => ops'[j].sha # file[g]
        BY <1>2, <1>3, <3>1, <3>2
      <3>4. \A j \in Handlers : Importing(j)' /\ file[j] = file[g] => j = g
        BY <1>4, <3>1
      <3> QED BY <3>1, <3>3, <3>4
    <2>4. \A e \in Emails : customers[e] = NoCustomer => origin[e] = NoFile
      BY DEF CountInv
    <2> QED BY <2>2, <2>3, <2>4 DEF CountInv
  <1> QED BY <1>5, <1>6

LEMMA CountStep ==
    TypeInv /\ StoreInv /\ ResultInv /\ CountInv /\ [Next]_vars => CountInv'
  <1> SUFFICES ASSUME TypeInv, StoreInv, ResultInv, CountInv, [Next]_vars PROVE CountInv'
    OBVIOUS
  <1> USE DEF TypeInv, TypeOK
  <1>a. ASSUME NEW h \in Handlers, NEW k \in Keys, NEW f \in Files, Reserve(h, k, f)
        PROVE  CountInv'
    <2>1. /\ pc[h] = "idle" /\ file' = [file EXCEPT ![h] = f]
          /\ UNCHANGED <<batches, inserted, customers, origin, result>>
      BY <1>a DEF Reserve
    <2>2. \E p \in {"validate", "done"} : pc' = [pc EXCEPT ![h] = p]
      BY <1>a DEF Reserve, ReserveNew, ReserveRecovered, Replay
    <2>3. \A j \in Keys : ops'[j].status = "imported" => ops'[j] = ops[j]
      BY <1>a DEF Reserve, ReserveNew, ReserveRecovered, Replay, Reserved
    <2>4. \A g \in Handlers : Importing(g)' =>
             Importing(g) /\ file'[g] = file[g] /\ result'[g] = result[g]
      BY <2>1, <2>2 DEF Importing
    <2> QED BY <2>1, <2>3, <2>4, CountKeep
  <1>b. ASSUME NEW h \in Handlers, NEW f \in Files, StartCli(h, f) PROVE CountInv'
    BY <1>b, CountKeep DEF StartCli, database, Importing
  <1>c. ASSUME NEW h \in Handlers, NEW s, NEW n, Return(h, s, n), s # "imported",
               UNCHANGED database
        PROVE  CountInv'
    <2>1. \A g \in Handlers : Importing(g)' =>
             Importing(g) /\ file'[g] = file[g] /\ result'[g] = result[g]
      BY <1>c DEF Return, Importing
    <2> QED BY <1>c, <2>1, CountKeep DEF database
  <1>d. ASSUME NEW h \in Handlers, NEW p, p # "complete", pc' = [pc EXCEPT ![h] = p],
               UNCHANGED <<file, result>>, UNCHANGED database
        PROVE  CountInv'
    <2>1. \A g \in Handlers : Importing(g)' =>
             Importing(g) /\ file'[g] = file[g] /\ result'[g] = result[g]
      BY <1>d DEF Importing
    <2> QED BY <1>d, <2>1, CountKeep DEF database
  <1>e. ASSUME NEW h \in Handlers, Validate(h) PROVE CountInv'
    BY <1>c, <1>d, <1>e DEF Validate
  <1>f. ASSUME NEW h \in Handlers, InsertBatch(h) PROVE CountInv'
    BY <1>c, <1>d, <1>f DEF InsertBatch
  <1>g. ASSUME NEW h \in Handlers, SelectExisting(h) PROVE CountInv'
    BY <1>c, <1>d, <1>g DEF SelectExisting
  <1>h. ASSUME NEW h \in Handlers, NEW e \in Emails, InsertCustomer(h, e) PROVE CountInv'
    <2>1. CASE customers[e] = NoCustomer
      BY <1>h, <2>1, CountKeep DEF InsertCustomer, database, Importing
    <2>2. CASE customers[e] # NoCustomer
      BY <1>c, <1>h, <2>2 DEF InsertCustomer
    <2> QED BY <2>1, <2>2
  <1>i. ASSUME NEW h \in Handlers, CommitImport(h) PROVE CountInv'
    BY <1>i, CountCommit
  <1>j. ASSUME NEW h \in Handlers, ImportFails(h) PROVE CountInv'
    BY <1>c, <1>j DEF ImportFails
  <1>k. ASSUME NEW h \in Handlers, NEW p \in {"done", "crashed"}, NEW r, End(h, p, r),
               UNCHANGED <<batches, inserted, customers, origin>>,
               \/ ops' = ops
               \/ h \in Requests /\ pc[h] = "complete" /\ StoreResult(h)
        PROVE  CountInv'
    <2>1. /\ pc' = [pc EXCEPT ![h] = p] /\ p # "complete"
          /\ result' = [result EXCEPT ![h] = NoResult] /\ UNCHANGED file
      BY <1>k DEF End
    <2>2. \A g \in Handlers : Importing(g)' =>
             Importing(g) /\ file'[g] = file[g] /\ result'[g] = result[g]
      BY <2>1 DEF Importing
    <2>3. CASE ops' = ops
      BY <1>k, <2>2, <2>3, CountKeep
    <2>4. CASE h \in Requests /\ pc[h] = "complete" /\ StoreResult(h)
      BY <1>k, <2>1, <2>4, CountStore
    <2> QED BY <1>k, <2>3, <2>4
  <1>l. ASSUME NEW h \in Handlers, CompleteOperation(h) \/ CompletionFails(h) PROVE CountInv'
    <2>1. PICK r : End(h, "done", r)
      BY <1>l DEF CompleteOperation, CompletionFails
    <2>2. /\ h \in Requests /\ pc[h] = "complete"
          /\ StoreResult(h) \/ ops' = ops
          /\ UNCHANGED <<batches, inserted, customers, origin>>
      BY <1>l DEF CompleteOperation, CompletionFails, LeaveResult
    <2> QED BY <1>k, <2>1, <2>2
  <1>m. ASSUME NEW h \in Handlers, FinishCli(h) \/ Crash(h) PROVE CountInv'
    <2>0. PICK p \in {"done", "crashed"} : \E r : End(h, p, r)
      BY <1>m DEF FinishCli, Crash
    <2>1. PICK r : End(h, p, r)
      BY <2>0
    <2>2. ops' = ops /\ UNCHANGED <<batches, inserted, customers, origin>>
      BY <1>m DEF FinishCli, Crash, database
    <2> QED BY <1>k, <2>1, <2>2
  <1>n. ASSUME NEW k \in Keys, LeaseExpires(k) PROVE CountInv'
    <2>1. \A j \in Keys : /\ ops'[j].sha = ops[j].sha
                          /\ ops'[j].inserted = ops[j].inserted
                          /\ ops'[j].status = ops[j].status
      BY <1>n, ExpiredIsOperation DEF LeaseExpires
    <2>2. UNCHANGED <<batches, inserted, customers, origin, pc, file, result>>
      BY <1>n DEF LeaseExpires, handlers
    <2> QED BY <2>1, <2>2, CountKeep DEF Importing
  <1>o. CASE UNCHANGED vars
    BY <1>o, CountKeep DEF vars, Importing
  <1> QED
    BY <1>a, <1>b, <1>e, <1>f, <1>g, <1>h, <1>i, <1>j, <1>l, <1>m, <1>n, <1>o
    DEF Next, Step, Finished

(***************************************************************************)
(* Every count the API reports is true of the customer table, and a file   *)
(* is reported imported by one operation at most (CountsAreTrue).          *)
(***************************************************************************)
THEOREM CountsReported == Spec => []CountsAreTrue
  <1>1. CountInv => CountsAreTrue
    BY DEF CountInv
  <1>2. Spec => []StoreInv
    BY TypeInvariant, StoreInit, StoreStep, PTL DEF Spec
  <1> QED BY <1>1, <1>2, TypeInvariant, ResultInvariant, CountInit, CountStep, PTL DEF Spec

-----------------------------------------------------------------------------
(***************************************************************************)
(* Refusals: a file that is not valid, or that contradicts a stored        *)
(* customer, will never be stored, because no customer is ever changed;    *)
(* and such a file is what a rejection, in hand or stored, is about.       *)
(***************************************************************************)
Hopeless(f) == f \notin ValidFiles \/ Conflicts(f) # {}

RefusalInv ==
    /\ batches \subseteq ValidFiles
    /\ \A h \in Handlers :
          pc[h] \in {"batch", "select", "insert"} => file[h] \in ValidFiles
    /\ \A h \in Handlers :
          pc[h] = "complete" /\ result[h].status \in RejectedStatuses => Hopeless(file[h])
    /\ \A k \in Keys : ops[k].status \in RejectedStatuses => Hopeless(ops[k].sha)

ImportInv == TypeInv /\ StoreInv /\ ResultInv /\ RefusalInv

LEMMA RefusalInit == Init => RefusalInv
  BY DEF Init, RefusalInv, Absent, RejectedStatuses

LEMMA HopelessIsNotStored ==
    ASSUME AllOrNothing, batches \subseteq ValidFiles, NEW f, Hopeless(f)
    PROVE  f \notin batches
  BY DEF AllOrNothing, Hopeless, Conflicts

LEMMA CustomersStay ==
    ASSUME TypeInv, StoreInv, [Next]_vars, NEW e \in Emails, customers[e] # NoCustomer
    PROVE  customers'[e] = customers[e]
  <1>1. ASSUME NEW h \in Handlers, CommitImport(h) PROVE customers'[e] = customers[e]
    <2>1. e \notin fresh[h]
      BY <1>1 DEF CommitImport, StoreInv, LockInv
    <2> QED BY <1>1, <2>1 DEF CommitImport
  <1>2. ASSUME UNCHANGED customers PROVE customers'[e] = customers[e]
    BY <1>2
  <1>3. ASSUME NEW h \in Handlers,
               \/ \E k \in Keys, f \in Files : Reserve(h, k, f)
               \/ \E f \in Files : StartCli(h, f)
               \/ Validate(h)
               \/ InsertBatch(h)
               \/ SelectExisting(h)
               \/ \E x \in Emails : InsertCustomer(h, x)
               \/ ImportFails(h)
               \/ CompleteOperation(h)
               \/ CompletionFails(h)
               \/ FinishCli(h)
               \/ Crash(h)
        PROVE  UNCHANGED customers
    BY <1>3 DEF Reserve, StartCli, Validate, InsertBatch, SelectExisting, InsertCustomer,
                ImportFails, CompleteOperation, CompletionFails, FinishCli, Crash, database
  <1>4. ASSUME NEW k \in Keys, LeaseExpires(k) PROVE UNCHANGED customers
    BY <1>4 DEF LeaseExpires
  <1>5. CASE UNCHANGED vars
    BY <1>5 DEF vars
  <1> QED BY <1>1, <1>2, <1>3, <1>4, <1>5 DEF Next, Step, Finished

LEMMA HopelessStays ==
    ASSUME TypeInv, StoreInv, [Next]_vars, NEW f, Hopeless(f)
    PROVE  Hopeless(f)'
  <1>1. CASE f \notin ValidFiles
    BY <1>1 DEF Hopeless
  <1>2. CASE f \in ValidFiles /\ Conflicts(f) # {}
    <2>1. PICK e \in DOMAIN Rows[f] : customers[e] \notin {NoCustomer, Rows[f][e]}
      BY <1>2 DEF Conflicts
    <2>2. e \in Emails
      BY <1>2, ImportConstants DEF ImportConstants
    <2>3. customers'[e] = customers[e]
      BY <2>1, <2>2, CustomersStay
    <2>4. e \in Conflicts(f)'
      BY <2>1, <2>3 DEF Conflicts
    <2> QED BY <2>4 DEF Hopeless
  <1> QED BY <1>1, <1>2 DEF Hopeless

(***************************************************************************)
(* One handler moves on; if it does so with a rejection, the file is       *)
(* hopeless.                                                               *)
(***************************************************************************)
LEMMA RefusalMove ==
    ASSUME TypeInv, StoreInv, RefusalInv, [Next]_vars, NEW h \in Handlers, NEW p,
           pc' = [pc EXCEPT ![h] = p],
           \A g \in Handlers \ {h} : file'[g] = file[g] /\ result'[g] = result[g],
           p \in {"batch", "select", "insert"} => file'[h] \in ValidFiles,
           p = "complete" /\ result'[h].status \in RejectedStatuses => Hopeless(file[h])',
           batches' \subseteq ValidFiles,
           \A k \in Keys, f \in Files \cup {NoFile} :
              ops'[k].status \in RejectedStatuses /\ ops'[k].sha = f => Hopeless(f)',
           ops' \in [Keys -> Operations]
    PROVE  RefusalInv'
  <1> USE DEF TypeInv, TypeOK
  <1>1. ASSUME NEW g \in Handlers, pc'[g] \in {"batch", "select", "insert"}
        PROVE  file'[g] \in ValidFiles
    BY <1>1 DEF RefusalInv
  <1>2. ASSUME NEW g \in Handlers, pc'[g] = "complete", result'[g].status \in RejectedStatuses
        PROVE  Hopeless(file[g])'
    <2>1. CASE g = h
      BY <1>2, <2>1
    <2>2. CASE g # h
      <3>1. /\ pc[g] = "complete" /\ result[g].status \in RejectedStatuses
            /\ file'[g] = file[g] /\ file[g] \in Files
        BY <1>2, <2>2 DEF Shape
      <3>2. Hopeless(file[g])
        BY <3>1 DEF RefusalInv
      <3>3. PICK f \in Files : f = file[g] /\ f = file'[g]
        BY <3>1
      <3>4. Hopeless(f)'
        BY <3>2, <3>3, HopelessStays
      <3> QED BY <3>3, <3>4
    <2> QED BY <2>1, <2>2
  <1>3. ASSUME NEW k \in Keys, ops'[k].status \in RejectedStatuses
        PROVE  Hopeless(ops[k].sha)'
    <2>1. PICK f \in Files \cup {NoFile} : ops'[k].sha = f
      BY DEF Operations
    <2> QED BY <1>3, <2>1
  <1> QED BY <1>1, <1>2, <1>3 DEF RefusalInv

LEMMA RefusalStay ==
    ASSUME TypeInv, StoreInv, RefusalInv, [Next]_vars,
           UNCHANGED <<batches, pc, file, result>>,
           \A k \in Keys : ops'[k].sha = ops[k].sha /\ ops'[k].status = ops[k].status
    PROVE  RefusalInv'
  <1>1. ASSUME NEW h \in Handlers, pc'[h] = "complete", result'[h].status \in RejectedStatuses
        PROVE  Hopeless(file[h])'
    <2>1. PICK f : f = file[h]
      OBVIOUS
    <2>2. Hopeless(f)
      BY <1>1, <2>1 DEF RefusalInv
    <2> QED BY <2>1, <2>2, HopelessStays
  <1>2. ASSUME NEW k \in Keys, ops'[k].status \in RejectedStatuses
        PROVE  Hopeless(ops[k].sha)'
    <2>1. PICK f : f = ops[k].sha
      OBVIOUS
    <2>2. Hopeless(f)
      BY <1>2, <2>1 DEF RefusalInv
    <2>3. Hopeless(f)'
      BY <2>2, HopelessStays
    <2> QED BY <2>1, <2>3
  <1> QED BY <1>1, <1>2 DEF RefusalInv

LEMMA RefusalStep ==
    TypeInv /\ TypeInv' /\ StoreInv /\ ResultInv /\ RefusalInv /\ [Next]_vars => RefusalInv'
  <1> SUFFICES ASSUME TypeInv, TypeInv', StoreInv, ResultInv, RefusalInv, [Next]_vars
               PROVE  RefusalInv'
    OBVIOUS
  <1>0. ops' \in [Keys -> Operations]
    BY DEF TypeInv, TypeOK
  <1>1. ASSUME \A k \in Keys : ops'[k].status \in RejectedStatuses =>
                  ops[k].status \in RejectedStatuses /\ ops[k].sha = ops'[k].sha,
               NEW k \in Keys, NEW f, ops'[k].status \in RejectedStatuses, ops'[k].sha = f
        PROVE  Hopeless(f)'
    <2>1. Hopeless(f)
      BY <1>1 DEF RefusalInv
    <2> QED BY <2>1, HopelessStays
  <1>2. ASSUME UNCHANGED ops, NEW k \in Keys, NEW f,
               ops'[k].status \in RejectedStatuses, ops'[k].sha = f
        PROVE  Hopeless(f)'
    BY <1>1, <1>2
  <1> USE DEF TypeInv, TypeOK
  <1>3. batches \subseteq ValidFiles
    BY DEF RefusalInv
  <1>a. ASSUME NEW h \in Handlers, NEW k \in Keys, NEW f \in Files, Reserve(h, k, f)
        PROVE  RefusalInv'
    <2>1. /\ file' = [file EXCEPT ![h] = f] /\ UNCHANGED <<batches, result>>
      BY <1>a DEF Reserve
    <2>2. \E p \in {"validate", "done"} : pc' = [pc EXCEPT ![h] = p]
      BY <1>a DEF Reserve, ReserveNew, ReserveRecovered, Replay
    <2>3. \A j \in Keys : ops'[j].status \in RejectedStatuses =>
             ops[j].status \in RejectedStatuses /\ ops[j].sha = ops'[j].sha
      <3>1. CASE UNCHANGED ops
        BY <3>1
      <3>2. ASSUME NEW n, ops' = [ops EXCEPT ![k] = Reserved(f, n)]
            PROVE  \A j \in Keys : ops'[j].status \in RejectedStatuses => ops'[j] = ops[j]
        BY <3>2 DEF Reserved, RejectedStatuses
      <3> QED
        BY <1>a, <3>1, <3>2 DEF Reserve, ReserveNew, ReserveRecovered, Replay
    <2> QED BY <1>0, <1>1, <1>3, <2>1, <2>2, <2>3, RefusalMove
  <1>b. ASSUME NEW h \in Handlers, NEW f \in Files, StartCli(h, f) PROVE RefusalInv'
    <2>1. /\ file' = [file EXCEPT ![h] = f] /\ pc' = [pc EXCEPT ![h] = "validate"]
          /\ UNCHANGED <<ops, batches, result>>
      BY <1>b DEF StartCli, database
    <2> QED BY <1>0, <1>2, <1>3, <2>1, RefusalMove
  <1>c. ASSUME NEW h \in Handlers, NEW s, NEW n, Return(h, s, n), UNCHANGED ops,
               batches' \subseteq ValidFiles,
               s \in RejectedStatuses => Hopeless(file[h])
        PROVE  RefusalInv'
    <2>1. /\ pc' = [pc EXCEPT ![h] = "complete"] /\ UNCHANGED file
          /\ \A g \in Handlers \ {h} : result'[g] = result[g]
          /\ result'[h].status = s
      BY <1>c DEF Return
    <2>2. s \in RejectedStatuses => Hopeless(file[h])'
      <3>1. PICK f : f = file[h]
        OBVIOUS
      <3>2. s \in RejectedStatuses => Hopeless(f)'
        BY <1>c, <3>1, HopelessStays
      <3> QED BY <2>1, <3>1, <3>2
    <2> QED BY <1>0, <1>2, <1>c, <2>1, <2>2, RefusalMove
  <1>d. ASSUME NEW h \in Handlers, NEW p \in {"batch", "select", "insert"},
               pc' = [pc EXCEPT ![h] = p], UNCHANGED <<file, result>>, UNCHANGED database,
               file[h] \in ValidFiles
        PROVE  RefusalInv'
    <2>1. UNCHANGED <<ops, batches>>
      BY <1>d DEF database
    <2> QED BY <1>0, <1>2, <1>3, <1>d, <2>1, RefusalMove
  <1>e. ASSUME NEW h \in Handlers, Validate(h) PROVE RefusalInv'
    <2>1. UNCHANGED <<ops, batches>>
      BY <1>e DEF Validate, database
    <2>2. CASE file[h] \notin ValidFiles
      BY <1>3, <1>c, <1>e, <2>1, <2>2 DEF Validate, Hopeless
    <2>3. CASE file[h] \in ValidFiles
      BY <1>d, <1>e, <2>3 DEF Validate
    <2> QED BY <2>2, <2>3
  <1>f. ASSUME NEW h \in Handlers, InsertBatch(h) PROVE RefusalInv'
    <2>1. UNCHANGED <<ops, batches>> /\ file[h] \in ValidFiles
      BY <1>f DEF InsertBatch, database, RefusalInv
    <2>2. CASE file[h] \in batches
      BY <1>3, <1>c, <1>f, <2>1, <2>2 DEF InsertBatch, RejectedStatuses
    <2>3. CASE file[h] \notin batches
      BY <1>d, <1>f, <2>1, <2>3 DEF InsertBatch
    <2> QED BY <2>2, <2>3
  <1>g. ASSUME NEW h \in Handlers, SelectExisting(h) PROVE RefusalInv'
    <2>1. UNCHANGED <<ops, batches>> /\ file[h] \in ValidFiles
      BY <1>g DEF SelectExisting, database, RefusalInv
    <2>2. CASE Conflicts(file[h]) # {}
      BY <1>3, <1>c, <1>g, <2>1, <2>2 DEF SelectExisting, Hopeless
    <2>3. CASE Conflicts(file[h]) = {}
      BY <1>d, <1>g, <2>1, <2>3 DEF SelectExisting
    <2> QED BY <2>2, <2>3
  <1>h. ASSUME NEW h \in Handlers, NEW e \in Emails, InsertCustomer(h, e) PROVE RefusalInv'
    <2>1. UNCHANGED <<ops, batches>> /\ file[h] \in ValidFiles /\ pc[h] = "insert"
      BY <1>h DEF InsertCustomer, database, RefusalInv
    <2>2. CASE customers[e] = NoCustomer
      <3>1. pc' = [pc EXCEPT ![h] = "insert"] /\ UNCHANGED <<file, result>>
        BY <1>h, <2>1, <2>2 DEF InsertCustomer
      <3> QED BY <1>0, <1>2, <1>3, <2>1, <3>1, RefusalMove
    <2>3. CASE customers[e] # NoCustomer
      BY <1>3, <1>c, <1>h, <2>1, <2>3 DEF InsertCustomer, RejectedStatuses
    <2> QED BY <2>2, <2>3
  <1>i. ASSUME NEW h \in Handlers, CommitImport(h) PROVE RefusalInv'
    <2>1. UNCHANGED ops /\ file[h] \in ValidFiles /\ batches' = batches \cup {file[h]}
      BY <1>i DEF CommitImport, RefusalInv
    <2>2. PICK s \in {"imported", "database_error"}, n \in {0, Cardinality(fresh[h])} :
                  Return(h, s, n)
      BY <1>i DEF CommitImport
    <2> QED BY <1>3, <1>c, <2>1, <2>2 DEF RejectedStatuses
  <1>j. ASSUME NEW h \in Handlers, ImportFails(h) PROVE RefusalInv'
    <2>1. UNCHANGED <<ops, batches>>
      BY <1>j DEF ImportFails, database
    <2>2. PICK s \in {"database_error", "migration_required"} : Return(h, s, 0)
      BY <1>j DEF ImportFails
    <2> QED BY <1>3, <1>c, <2>1, <2>2 DEF RejectedStatuses
  <1>k. ASSUME NEW h \in Handlers, NEW p \in {"done", "crashed"}, NEW r, End(h, p, r),
               UNCHANGED batches,
               \/ ops' = ops
               \/ h \in Requests /\ pc[h] = "complete" /\ StoreResult(h)
        PROVE  RefusalInv'
    <2>1. /\ pc' = [pc EXCEPT ![h] = p] /\ UNCHANGED file
          /\ \A g \in Handlers \ {h} : result'[g] = result[g]
      BY <1>k DEF End
    <2>2. CASE ops' = ops
      BY <1>0, <1>2, <1>3, <1>k, <2>1, <2>2, RefusalMove
    <2>3. CASE h \in Requests /\ pc[h] = "complete" /\ StoreResult(h)
      <3>1. /\ key[h] \in Keys /\ Processing(h) /\ h \in Handlers
            /\ result[h] \in [status : ResultStatuses, inserted : Nat]
        BY <2>3 DEF Shape, Processing, Handlers
      <3>a. /\ \A j \in Keys : ops'[j].sha = ops[j].sha /\ (j # key[h] => ops'[j] = ops[j])
            /\ ops'[key[h]].status = result[h].status
        <4>1. ops \in [Keys -> Operations] /\ StoreResult(h)
          BY <2>3
        <4> HIDE DEF TypeInv, TypeOK
        <4> QED BY <3>1, <4>1, StoreResultFacts
      <3>b. ops[key[h]].sha = file[h]
        BY <2>3, <3>1 DEF ResultInv, OwnerInv
      <3>2. /\ \A j \in Keys : ops'[j].sha = ops[j].sha /\ (j # key[h] => ops'[j] = ops[j])
            /\ ops'[key[h]].status = result[h].status
            /\ ops[key[h]].sha = file[h]
        BY <3>a, <3>b
      <3>3. ASSUME NEW j \in Keys, NEW f, ops'[j].status \in RejectedStatuses, ops'[j].sha = f
            PROVE  Hopeless(f)'
        <4>1. Hopeless(f)
          BY <2>3, <3>1, <3>2, <3>3 DEF RefusalInv
        <4> QED BY <4>1, HopelessStays
      <3> QED BY <1>0, <1>3, <1>k, <2>1, <3>3, RefusalMove
    <2> QED BY <1>k, <2>2, <2>3
  <1>l. ASSUME NEW h \in Handlers, CompleteOperation(h) \/ CompletionFails(h)
        PROVE  RefusalInv'
    <2>1. PICK r : End(h, "done", r)
      BY <1>l DEF CompleteOperation, CompletionFails
    <2>2. /\ h \in Requests /\ pc[h] = "complete"
          /\ StoreResult(h) \/ ops' = ops
          /\ UNCHANGED batches
      BY <1>l DEF CompleteOperation, CompletionFails, LeaveResult
    <2> QED BY <1>k, <2>1, <2>2
  <1>m. ASSUME NEW h \in Handlers, FinishCli(h) \/ Crash(h) PROVE RefusalInv'
    <2>1. PICK p \in {"done", "crashed"} : \E r : End(h, p, r)
      BY <1>m DEF FinishCli, Crash
    <2>2. PICK r : End(h, p, r)
      BY <2>1
    <2>3. ops' = ops /\ UNCHANGED batches
      BY <1>m DEF FinishCli, Crash, database
    <2> QED BY <1>k, <2>2, <2>3
  <1>n. ASSUME NEW k \in Keys, LeaseExpires(k) PROVE RefusalInv'
    <2>1. \A j \in Keys : ops'[j].sha = ops[j].sha /\ ops'[j].status = ops[j].status
      BY <1>n, ExpiredIsOperation DEF LeaseExpires
    <2>2. UNCHANGED <<batches, pc, file, result>>
      BY <1>n DEF LeaseExpires, handlers
    <2> QED BY <2>1, <2>2, RefusalStay
  <1>o. CASE UNCHANGED vars
    BY <1>o, RefusalStay DEF vars
  <1> QED
    BY <1>a, <1>b, <1>e, <1>f, <1>g, <1>h, <1>i, <1>j, <1>l, <1>m, <1>n, <1>o
    DEF Next, Step, Finished

(***************************************************************************)
(* The whole of the inductive invariant.                                   *)
(***************************************************************************)
LEMMA ImportInit == Init => ImportInv
  BY TypeInit, StoreInit, ResultInit, RefusalInit DEF ImportInv

LEMMA ImportKeeps == ImportInv /\ [Next]_vars => ImportInv'
  BY TypeStep, StoreStep, ResultStep, RefusalStep DEF ImportInv

LEMMA ImportInvariant == Spec => []ImportInv
  BY ImportInit, ImportKeeps, PTL DEF Spec

(***************************************************************************)
(* What was rejected stays out: while an operation says validation_failed  *)
(* or conflict, its body is not stored, by a request with any other key or *)
(* by the CLI, however late the rejection was recorded and whatever was    *)
(* imported meanwhile (importer.py, api_store.py).                         *)
(***************************************************************************)
RejectedIsNotStored ==
    \A k \in Keys : ops[k].status \in RejectedStatuses => ops[k].sha \notin batches

THEOREM RejectedStaysOut == Spec => []RejectedIsNotStored
  <1>1. ImportInv => RejectedIsNotStored
    BY HopelessIsNotStored DEF ImportInv, StoreInv, RefusalInv, RejectedIsNotStored
  <1> QED BY <1>1, ImportInvariant, PTL

-----------------------------------------------------------------------------
(* The refinement: every step is a step of ImportLedger, or a stutter.     *)

LEMMA LedgerInit == Init => Ledger!Init
  BY DEF Init, Ledger!Init, Outcome, Absent

LEMMA LedgerStutter ==
    ASSUME UNCHANGED <<batches, outbox>>,
           \A k \in Keys : ops'[k].sha = ops[k].sha
                           /\ Outcome(ops'[k].status) = Outcome(ops[k].status)
    PROVE  UNCHANGED Ledger!ledger
  BY DEF Ledger!ledger

LEMMA LedgerReserve ==
    ASSUME TypeInv, NEW h \in Handlers, NEW k \in Keys, NEW f \in Files,
           Reserve(h, k, f)
    PROVE  Ledger!Next \/ UNCHANGED Ledger!ledger
  <1> USE DEF TypeInv, TypeOK
  <1>1. UNCHANGED <<batches, outbox>>
    BY DEF Reserve
  <1>2. CASE ReserveNew(h, k, f)
    <2>1. /\ ops' = [ops EXCEPT ![k] = Reserved(f, 1)]
          /\ ops[k].status = "absent"
      BY <1>2 DEF ReserveNew
    <2>2. Ledger!Open(k, f)
      BY <1>1, <2>1 DEF Ledger!Open, Outcome, Reserved
    <2> QED BY <2>2 DEF Ledger!Next
  <1>3. CASE ReserveRecovered(h, k, f)
    <2>1. /\ ops' = [ops EXCEPT ![k] = Reserved(f, ops[k].attempts + 1)]
          /\ ops[k].status = "processing" /\ ops[k].sha = f
      BY <1>3 DEF ReserveRecovered, CanRecover
    <2>2. \A j \in Keys : ops'[j].sha = ops[j].sha /\ ops'[j].status = ops[j].status
      BY <2>1 DEF Reserved
    <2> QED BY <1>1, <2>2, LedgerStutter
  <1>4. CASE Replay(h, k, f)
    BY <1>1, <1>4, LedgerStutter DEF Replay
  <1> QED BY <1>2, <1>3, <1>4 DEF Reserve

LEMMA LedgerStore ==
    ASSUME ImportInv, NEW h \in Requests, pc[h] = "complete",
           StoreResult(h), UNCHANGED batches
    PROVE  Ledger!Next
  <1> USE DEF ImportInv, TypeInv, TypeOK
  <1> DEFINE k == key[h]
             s == result[h].status
  <1>1. k \in Keys /\ result[h] \in [status : ResultStatuses, inserted : Nat]
        /\ Processing(h)
    BY DEF Shape, Processing, Handlers
  <1>2. /\ \A j \in Keys : /\ ops'[j].sha = ops[j].sha
                           /\ j # k => ops'[j].status = ops[j].status
        /\ ops'[k].status = s
    BY <1>1, StoreResultFacts
  <1>3. /\ ops[k].status = "processing" /\ ops[k].sha = file[h]
        /\ s \in AcceptedStatuses => file[h] \in batches
        /\ s \in ResultStatuses
    BY <1>1 DEF StoreResult, HoldsAttempt, ResultInv, OwnerInv, Handlers
  <1>4. outbox' = IF s \in AcceptedStatuses THEN outbox \cup {k} ELSE outbox
    BY DEF StoreResult
  <1>5. Outcome("processing") = "pending"
    BY DEF Outcome, AcceptedStatuses
  <1> HIDE DEF k, s
  <1>6. CASE s \in AcceptedStatuses
    <2>1. Outcome(s) = "accepted"
      BY <1>6 DEF Outcome, AcceptedStatuses
    <2>2. Ledger!Accept(k)
      BY <1>1, <1>2, <1>3, <1>4, <1>5, <1>6, <2>1 DEF Ledger!Accept
    <2> QED BY <1>1, <2>2 DEF Ledger!Next, k
  <1>7. CASE s \in RejectedStatuses
    <2>1. Outcome(s) = "rejected"
      BY <1>7 DEF Outcome, AcceptedStatuses, RejectedStatuses
    <2>2. file[h] \notin batches
      <3>1. Hopeless(file[h])
        BY <1>7 DEF RefusalInv, Handlers, s
      <3> QED BY <3>1, HopelessIsNotStored DEF StoreInv, RefusalInv
    <2>3. s \notin AcceptedStatuses
      BY <1>7 DEF AcceptedStatuses, RejectedStatuses
    <2>4. Ledger!Reject(k)
      BY <1>1, <1>2, <1>3, <1>4, <1>5, <2>1, <2>2, <2>3 DEF Ledger!Reject
    <2> QED BY <1>1, <2>4 DEF Ledger!Next, k
  <1>8. CASE s \notin AcceptedStatuses /\ s \notin RejectedStatuses
    <2>1. Outcome(s) = "failed"
      BY <1>3, <1>8 DEF Outcome, ResultStatuses, AcceptedStatuses, RefusedStatuses,
                        RejectedStatuses
    <2>2. Ledger!Fail(k)
      BY <1>1, <1>2, <1>3, <1>4, <1>5, <1>8, <2>1 DEF Ledger!Fail
    <2> QED BY <1>1, <2>2 DEF Ledger!Next, k
  <1> QED BY <1>6, <1>7, <1>8

LEMMA LedgerCommit ==
    ASSUME ImportInv, [Next]_vars, NEW h \in Handlers, CommitImport(h)
    PROVE  Ledger!Next
  <1>1. /\ file[h] \in Files /\ batches' = batches \cup {file[h]}
        /\ UNCHANGED <<ops, outbox>>
    BY DEF CommitImport, ImportInv, TypeInv, Shape
  <1>2. AllOrNothing' /\ batches' \subseteq ValidFiles
    BY ImportKeeps DEF ImportInv, StoreInv, RefusalInv
  <1>3. ASSUME NEW k \in Keys, ops[k].sha = file[h], ops[k].status \in RejectedStatuses
        PROVE  FALSE
    <2>1. PICK f : f = file[h]
      OBVIOUS
    <2>2. Hopeless(f)
      BY <1>3, <2>1 DEF ImportInv, RefusalInv
    <2>3. Hopeless(f)'
      BY <2>2, HopelessStays DEF ImportInv
    <2>4. f \notin batches'
      BY <1>2, <2>3 DEF AllOrNothing, Hopeless, Conflicts
    <2> QED BY <1>1, <2>1, <2>4
  <1>4. \A k \in Keys :
           Outcome(ops[k].status) = "rejected" => ops[k].status \in RejectedStatuses
    BY DEF Outcome
  <1>5. Ledger!Store(file[h])
    BY <1>1, <1>3, <1>4 DEF Ledger!Store
  <1> QED BY <1>1, <1>5 DEF Ledger!Next

LEMMA LedgerStep ==
    ImportInv /\ [Next]_vars => [Ledger!Next]_(Ledger!ledger)
  <1> SUFFICES ASSUME ImportInv, [Next]_vars
               PROVE  Ledger!Next \/ UNCHANGED Ledger!ledger
    OBVIOUS
  <1>0. TypeInv
    BY DEF ImportInv
  <1>1. UNCHANGED <<ops, batches, outbox>> => UNCHANGED Ledger!ledger
    BY LedgerStutter
  <1>a. ASSUME NEW h \in Handlers, NEW k \in Keys, NEW f \in Files, Reserve(h, k, f)
        PROVE  Ledger!Next \/ UNCHANGED Ledger!ledger
    BY <1>0, <1>a, LedgerReserve
  <1>b. ASSUME NEW h \in Handlers,
               \/ \E f \in Files : StartCli(h, f)
               \/ Validate(h)
               \/ InsertBatch(h)
               \/ SelectExisting(h)
               \/ \E e \in Emails : InsertCustomer(h, e)
               \/ ImportFails(h)
               \/ FinishCli(h)
               \/ Crash(h)
        PROVE  UNCHANGED <<ops, batches, outbox>>
    BY <1>b DEF StartCli, Validate, InsertBatch, SelectExisting, InsertCustomer,
                ImportFails, FinishCli, Crash, database
  <1>c. ASSUME NEW h \in Handlers, CommitImport(h) PROVE Ledger!Next
    BY <1>c, LedgerCommit
  <1>d. ASSUME NEW h \in Handlers, CompleteOperation(h) \/ CompletionFails(h)
        PROVE  Ledger!Next \/ UNCHANGED Ledger!ledger
    <2>1. /\ h \in Requests /\ pc[h] = "complete" /\ UNCHANGED batches
          /\ StoreResult(h) \/ UNCHANGED <<ops, outbox>>
      BY <1>d DEF CompleteOperation, CompletionFails, LeaveResult
    <2> QED BY <1>1, <2>1, LedgerStore
  <1>e. ASSUME NEW k \in Keys, LeaseExpires(k) PROVE UNCHANGED Ledger!ledger
    <2>1. \A j \in Keys : ops'[j].sha = ops[j].sha /\ ops'[j].status = ops[j].status
      BY <1>0, <1>e, ExpiredIsOperation DEF LeaseExpires, TypeInv, TypeOK
    <2>2. UNCHANGED <<batches, outbox>>
      BY <1>e DEF LeaseExpires
    <2> QED BY <2>1, <2>2, LedgerStutter
  <1>f. CASE UNCHANGED vars
    BY <1>1, <1>f DEF vars
  <1> QED BY <1>1, <1>a, <1>b, <1>c, <1>d, <1>e, <1>f DEF Next, Step, Finished

(***************************************************************************)
(* The import API implements the ledger: a key is bound to one body and    *)
(* decided once, accepted only over stored rows and together with its      *)
(* notice to the partner (ImplementsLedger).                               *)
(***************************************************************************)
THEOREM Refinement == Spec => ImplementsLedger
  <1>1. Spec => Ledger!Init /\ [][Ledger!Next]_(Ledger!ledger)
    BY LedgerInit, LedgerStep, ImportInvariant, PTL DEF Spec
  <1> QED BY <1>1 DEF ImplementsLedger, Ledger!Spec
=============================================================================
