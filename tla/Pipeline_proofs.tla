--------------------------- MODULE Pipeline_proofs ---------------------------
(***************************************************************************)
(* Proofs about Pipeline, for any number of requests, keys, files and      *)
(* customers.  The pipeline runs the import API unchanged, so what is      *)
(* proved of ImportApi holds in it.                                        *)
(***************************************************************************)
EXTENDS Pipeline, ImportApi_proofs

-----------------------------------------------------------------------------
(* The parts keep their promises in the whole                              *)

(***************************************************************************)
(* Every step of the pipeline is a step of the import API or leaves its    *)
(* state alone, and likewise for the events.                               *)
(***************************************************************************)
THEOREM RunsImports == PipelineSpec => Spec
<1>1. PipelineInit => Init
  BY DEF PipelineInit
<1>2. [PipelineNext]_pipelineVars => [Next]_vars
  BY DEF PipelineNext, pipelineVars, ImportStep, DeliveryStep, GrowsLate, CountImports,
         CountEvents, ScrapeFails
<1> QED
  BY <1>1, <1>2, PTL DEF PipelineSpec, Spec

THEOREM RunsDelivery == PipelineSpec => Events!Spec
<1>1. PipelineInit => Events!Init
  BY DEF PipelineInit
<1>2. [PipelineNext]_pipelineVars => [Events!Next]_(Events!delivery)
  BY DEF PipelineNext, pipelineVars, ImportStep, DeliveryStep, GrowsLate, CountImports,
         CountEvents, ScrapeFails, delivery, Events!Next, Events!delivery
<1> QED
  BY <1>1, <1>2, PTL DEF PipelineSpec, Events!Spec

(***************************************************************************)
(* So a client that looks through the whole system sees the ledger of      *)
(* ImportLedger (ImplementsLedger), and the partner the promise of         *)
(* AtLeastOnce.                                                            *)
(***************************************************************************)
THEOREM PipelineKeepsPromises == PipelineSpec => ImplementsLedger /\ Events!Spec
BY RunsImports, Refinement, RunsDelivery, PTL

-----------------------------------------------------------------------------
(* What the counts count                                                   *)

Known == {k \in Keys : ops[k].status # "absent"}
Running == {k \in Keys : ops[k].status = "processing"}
Failed == {k \in Keys : ops[k].status \in FailedStatuses}
Accepted == {k \in Keys : ops[k].status \in AcceptedStatuses}

(***************************************************************************)
(* The outbox of the import API is the events of the delivery.             *)
(***************************************************************************)
Coupled == \A k \in Keys : k \in outbox <=> state[k] # "absent"

(***************************************************************************)
(* What has been counted is no more than what there is now.                *)
(***************************************************************************)
CountsAreOld ==
    /\ scrape = "outbox" =>
          /\ counted.total <= Cardinality(Known)
          /\ counted.failed <= Cardinality(Failed)
          /\ counted.total - counted.processing - counted.failed <= Cardinality(outbox)
          /\ snapshot.imports.total <= counted.total
          /\ snapshot.imports.failed <= counted.failed
    /\ snapshot.imports.total <= Cardinality(Known)
    /\ snapshot.imports.failed <= Cardinality(Failed)
    /\ snapshot.outbox.delivered <= Cardinality(In("delivered"))
    /\ snapshot.outbox.dead <= Cardinality(In("dead"))

PInv ==
    /\ ImportInv
    /\ PipelineTypeOK
    /\ Coupled
    /\ received \subseteq outbox
    /\ CountsAreOld
    /\ SnapshotAddsUp

LEMMA KeysSubset ==
    ASSUME NEW S, S \subseteq Keys
    PROVE  IsFiniteSet(S) /\ Cardinality(S) \in Nat
<1>1. IsFiniteSet(Keys) /\ S \in SUBSET Keys
  BY PipelineConstants
<1> QED
  BY <1>1, FS_Subset, FS_CardinalityType

LEMMA MoreKeys ==
    ASSUME NEW S, NEW T, T \subseteq Keys, S \subseteq T
    PROVE  Cardinality(S) <= Cardinality(T)
BY KeysSubset, FS_Subset

Partition(D, A, B, C) ==
    /\ D \subseteq Keys
    /\ D = (A \cup B) \cup C
    /\ A \cap B = {} /\ A \cap C = {} /\ B \cap C = {}

LEMMA ThreeParts ==
    ASSUME NEW A, NEW B, NEW C, NEW D, Partition(D, A, B, C)
    PROVE  /\ Cardinality(D) = Cardinality(A) + Cardinality(B) + Cardinality(C)
           /\ Cardinality(A) \in Nat /\ Cardinality(B) \in Nat /\ Cardinality(C) \in Nat
<1> USE DEF Partition
<1>1. /\ IsFiniteSet(A) /\ IsFiniteSet(B) /\ IsFiniteSet(C) /\ IsFiniteSet(A \cup B)
      /\ Cardinality(A) \in Nat /\ Cardinality(B) \in Nat /\ Cardinality(C) \in Nat
  BY KeysSubset
<1>2. Cardinality(A \cup B) = Cardinality(A) + Cardinality(B) - Cardinality(A \cap B)
  BY <1>1, FS_Union
<1>3. Cardinality(D) =
         Cardinality(A \cup B) + Cardinality(C) - Cardinality((A \cup B) \cap C)
  BY <1>1, FS_Union
<1>4. Cardinality((A \cup B) \cap C) = 0 /\ Cardinality(A \cap B) = 0
  <2>1. (A \cup B) \cap C = {}
    OBVIOUS
  <2> QED
    BY <2>1, FS_EmptySet
<1>5. Cardinality(A \cup B) = Cardinality(A) + Cardinality(B)
  BY <1>1, <1>2, <1>4
<1>6. Cardinality(D) = Cardinality(A \cup B) + Cardinality(C)
  BY <1>1, <1>3, <1>4, <1>5
<1> QED
  BY <1>1, <1>5, <1>6

(***************************************************************************)
(* Each operation that is neither running nor refused has its event.       *)
(***************************************************************************)
LEMMA ImportsAddUp ==
    ASSUME TypeInv, ResultInv
    PROVE  /\ Cardinality(Known) - Cardinality(Running) - Cardinality(Failed) = Cardinality(outbox)
           /\ Cardinality(Known) \in Nat /\ Cardinality(Running) \in Nat
           /\ Cardinality(Failed) \in Nat /\ Cardinality(outbox) \in Nat
<1>1. \A k \in Keys : ops[k].status \in {"absent", "processing"} \cup ResultStatuses
  BY DEF TypeInv, TypeOK, Operations
<1>2. Known = (Running \cup Failed) \cup Accepted
  BY <1>1 DEF Known, Running, Failed, Accepted, FailedStatuses, ResultStatuses,
              RefusedStatuses, RejectedStatuses, AcceptedStatuses
<1>3. Running \cap Failed = {} /\ Running \cap Accepted = {} /\ Failed \cap Accepted = {}
  BY DEF Running, Failed, Accepted, FailedStatuses, RefusedStatuses, RejectedStatuses,
         AcceptedStatuses
<1>4. Accepted = outbox
  BY DEF Accepted, ResultInv, AcceptedIsDurable, TypeInv, TypeOK
<1>5. Partition(Known, Running, Failed, Accepted)
  BY <1>2, <1>3 DEF Known, Partition
<1>6. /\ Cardinality(Known) = Cardinality(Running) + Cardinality(Failed) + Cardinality(Accepted)
      /\ Cardinality(Running) \in Nat
      /\ Cardinality(Failed) \in Nat
      /\ Cardinality(Accepted) \in Nat
  BY <1>5, ThreeParts
<1> QED
  BY <1>4, <1>6

LEMMA EventsAddUp ==
    ASSUME PipelineTypeOK, Coupled, outbox \subseteq Keys
    PROVE  /\ Cardinality(In("open")) + Cardinality(In("delivered")) + Cardinality(In("dead"))
                 = Cardinality(outbox)
           /\ Cardinality(In("open")) \in Nat /\ Cardinality(In("delivered")) \in Nat
           /\ Cardinality(In("dead")) \in Nat
<1>1. outbox = (In("open") \cup In("delivered")) \cup In("dead")
  BY DEF In, Coupled, PipelineTypeOK
<1>2. /\ In("open") \cap In("delivered") = {}
      /\ In("open") \cap In("dead") = {}
      /\ In("delivered") \cap In("dead") = {}
  BY DEF In
<1>3. Partition(outbox, In("open"), In("delivered"), In("dead"))
  BY <1>1, <1>2 DEF Partition
<1> QED
  BY <1>3, ThreeParts

-----------------------------------------------------------------------------
(* What only grows                                                         *)

LEMMA OperationsEnd ==
    ASSUME ImportInv, TypeInv', [Next]_vars
    PROVE  Known \subseteq Known' /\ Failed \subseteq Failed' /\ outbox \subseteq outbox'
<1>1. [Ledger!Next]_(Ledger!ledger)
  BY LedgerStep
<1>2. /\ \A k \in Keys : Outcome(ops[k].status) # "none" => Outcome(ops'[k].status) # "none"
      /\ \A k \in Keys : Outcome(ops[k].status) \in {"rejected", "failed"} =>
                           Outcome(ops'[k].status) \in {"rejected", "failed"}
      /\ outbox \subseteq outbox'
  <2> DEFINE o == [k \in Keys |-> Outcome(ops[k].status)]
             p == [k \in Keys |-> Outcome(ops'[k].status)]
  <2>1. \/ p = o
        \/ \E k \in Keys : o[k] \in {"none", "pending"}
                           /\ \E x \in {"pending", "accepted", "rejected", "failed"} : p = [o EXCEPT ![k] = x]
    BY <1>1 DEF Ledger!Next, Ledger!ledger, Ledger!Open, Ledger!Store, Ledger!Accept,
                Ledger!Reject, Ledger!Fail
  <2>2. outbox \subseteq outbox'
    BY <1>1 DEF Ledger!Next, Ledger!ledger, Ledger!Open, Ledger!Store, Ledger!Accept,
                Ledger!Reject, Ledger!Fail
  <2> HIDE DEF o, p
  <2>3. DOMAIN o = Keys /\ \A k \in Keys : o[k] = Outcome(ops[k].status) /\ p[k] = Outcome(ops'[k].status)
    BY DEF o, p
  <2> QED
    BY <2>1, <2>2, <2>3
<1>3. \A s \in {"absent", "processing"} \cup ResultStatuses :
         /\ Outcome(s) = "none" <=> s = "absent"
         /\ Outcome(s) \in {"rejected", "failed"} <=> s \in FailedStatuses
  BY DEF Outcome, FailedStatuses, ResultStatuses, RefusedStatuses, RejectedStatuses,
         AcceptedStatuses
<1>4. \A k \in Keys : /\ ops[k].status \in {"absent", "processing"} \cup ResultStatuses
                      /\ ops'[k].status \in {"absent", "processing"} \cup ResultStatuses
  BY DEF ImportInv, TypeInv, TypeOK, Operations
<1>5. Known \subseteq Known'
  BY <1>2, <1>3, <1>4 DEF Known
<1>6. Failed \subseteq Failed'
  BY <1>2, <1>3, <1>4 DEF Failed
<1> QED
  BY <1>2, <1>5, <1>6

LEMMA EventsEnd ==
    ASSUME PipelineTypeOK, [Events!Next]_(Events!delivery)
    PROVE  /\ In("delivered") \subseteq In("delivered")'
           /\ In("dead") \subseteq In("dead")'
           /\ \A k \in Keys : state[k] # "absent" => state'[k] # "absent"
BY DEF PipelineTypeOK, In, Events!Next, Events!delivery, Events!Publish, Events!Receive,
       Events!Deliver, Events!GiveUp

-----------------------------------------------------------------------------
(* The inductive invariant                                                 *)

LEMMA PipelineStarts == PipelineInit => PInv
<1> SUFFICES ASSUME PipelineInit PROVE PInv
  OBVIOUS
<1>1. ImportInv
  BY ImportInit DEF PipelineInit
<1>2. /\ outbox = {} /\ received = {} /\ late = {} /\ scrape = "idle"
      /\ state = [k \in Keys |-> "absent"]
      /\ counted = NoImports
      /\ snapshot = [imports |-> NoImports, outbox |-> NoEvents]
  BY DEF PipelineInit, Init, Events!Init
<1>3. NoImports \in ImportCounts /\ NoEvents \in OutboxCounts
  BY DEF NoImports, ImportCounts, NoEvents, OutboxCounts
<1>4. PipelineTypeOK
  BY <1>2, <1>3 DEF PipelineTypeOK, Snapshots
<1>5. CountsAreOld
  <2>1. /\ Cardinality(Known) \in Nat /\ Cardinality(Failed) \in Nat
        /\ Cardinality(In("delivered")) \in Nat /\ Cardinality(In("dead")) \in Nat
    BY KeysSubset DEF Known, Failed, In
  <2> QED
    BY <1>2, <2>1 DEF CountsAreOld, NoImports, NoEvents
<1>6. Coupled /\ received \subseteq outbox
  BY <1>2 DEF Coupled
<1>7. SnapshotAddsUp
  BY <1>2 DEF SnapshotAddsUp, NoImports, NoEvents
<1> QED
  BY <1>1, <1>4, <1>5, <1>6, <1>7 DEF PInv

(***************************************************************************)
(* Both parts move by their own steps, and keep what they know.            *)
(***************************************************************************)
LEMMA PartsMove ==
    ASSUME PInv, [PipelineNext]_pipelineVars
    PROVE  /\ [Next]_vars
           /\ [Events!Next]_(Events!delivery)
           /\ ImportInv' /\ TypeInv' /\ ResultInv'
<1>1. [Next]_vars
  BY DEF PipelineNext, pipelineVars, ImportStep, DeliveryStep, GrowsLate, CountImports,
         CountEvents, ScrapeFails
<1>2. [Events!Next]_(Events!delivery)
  BY DEF PipelineNext, pipelineVars, ImportStep, DeliveryStep, GrowsLate, CountImports,
         CountEvents, ScrapeFails, delivery, Events!Next, Events!delivery
<1>3. ImportInv' /\ TypeInv' /\ ResultInv'
  BY <1>1, ImportKeeps DEF PInv, ImportInv
<1> QED
  BY <1>1, <1>2, <1>3

(***************************************************************************)
(* The two sides of the outbox stay coupled: an event appears on both at   *)
(* once, and only an event that exists is received.                        *)
(***************************************************************************)
LEMMA CoupledStep ==
    ASSUME PInv, [PipelineNext]_pipelineVars
    PROVE  Coupled' /\ received' \subseteq outbox'
<1> USE DEF PInv, ImportInv, Coupled, PipelineTypeOK
<1>1. CASE ImportStep
  <2>1. CASE outbox' = outbox /\ UNCHANGED delivery
    BY <2>1 DEF delivery
  <2>2. ASSUME NEW k \in Keys, outbox' = outbox \cup {k}, Events!Publish(k)
        PROVE  Coupled' /\ received' \subseteq outbox'
    BY <2>2 DEF Events!Publish
  <2> QED
    BY <1>1, <2>1, <2>2 DEF ImportStep
<1>2. ASSUME NEW k \in Keys, DeliveryStep(k)
      PROVE  Coupled' /\ received' \subseteq outbox'
  <2>1. outbox' = outbox
    BY <1>2 DEF DeliveryStep, vars
  <2> QED
    BY <1>2, <2>1 DEF DeliveryStep, Events!Receive, Events!Deliver, Events!GiveUp
<1>3. CASE UNCHANGED <<vars, delivery>>
  BY <1>3 DEF vars, delivery
<1>4. /\ \A k \in Keys : GrowsLate(k) => UNCHANGED <<vars, delivery>>
      /\ CountImports \/ CountEvents \/ ScrapeFails => UNCHANGED <<vars, delivery>>
      /\ UNCHANGED pipelineVars => UNCHANGED <<vars, delivery>>
  BY DEF GrowsLate, CountImports, CountEvents, ScrapeFails, pipelineVars
<1> QED
  BY <1>1, <1>2, <1>3, <1>4 DEF PipelineNext

LEMMA PipelineTypeStep ==
    ASSUME PInv, [PipelineNext]_pipelineVars
    PROVE  PipelineTypeOK'
<1> USE DEF PInv, ImportInv, PipelineTypeOK
<1>1. /\ state' \in [Keys -> {"absent", "open", "delivered", "dead"}]
      /\ received' \subseteq Keys
  BY PartsMove DEF Events!Next, Events!delivery, Events!Publish, Events!Receive,
     Events!Deliver, Events!GiveUp
<1>2. late' \subseteq Keys
  BY DEF PipelineNext, pipelineVars, ImportStep, DeliveryStep, GrowsLate, CountImports,
         CountEvents, ScrapeFails, metrics
<1>3. scrape' \in {"idle", "outbox"}
  BY DEF PipelineNext, pipelineVars, ImportStep, DeliveryStep, GrowsLate, CountImports,
         CountEvents, ScrapeFails, metrics
<1>4. counted' \in ImportCounts /\ snapshot' \in Snapshots
  <2>1. NoImports \in ImportCounts
    BY DEF NoImports, ImportCounts
  <2>2. CASE UNCHANGED <<counted, snapshot>>
    BY <2>2
  <2>3. CASE CountImports
    <3>1. /\ Cardinality(Known) \in Nat /\ Cardinality(Running) \in Nat
          /\ Cardinality(Failed) \in Nat
          /\ Cardinality({k \in Keys : ExpiredProcessing(k)}) \in Nat
      BY KeysSubset DEF Known, Running, Failed
    <3> QED
      BY <2>3, <3>1 DEF CountImports, ImportCounts, Known, Running, Failed
  <2>4. CASE CountEvents
    <3>1. /\ Cardinality(In("open")) \in Nat /\ Cardinality(In("delivered")) \in Nat
          /\ Cardinality(In("dead")) \in Nat
      BY KeysSubset DEF In
    <3> QED
      BY <2>1, <2>4, <3>1 DEF CountEvents, Snapshots, OutboxCounts
  <2>5. CASE ScrapeFails
    BY <2>1, <2>5 DEF ScrapeFails
  <2> QED
    BY <2>2, <2>3, <2>4, <2>5 DEF PipelineNext, pipelineVars, ImportStep, DeliveryStep,
       GrowsLate, metrics
<1> QED
  BY <1>1, <1>2, <1>3, <1>4

-----------------------------------------------------------------------------
(* The counts                                                              *)

(***************************************************************************)
(* What the counts are compared with only grows.                           *)
(***************************************************************************)
LEMMA CountsGrow ==
    ASSUME PInv, [PipelineNext]_pipelineVars
    PROVE  /\ Cardinality(Known) <= Cardinality(Known')
           /\ Cardinality(Failed) <= Cardinality(Failed')
           /\ Cardinality(outbox) <= Cardinality(outbox')
           /\ Cardinality(In("delivered")) <= Cardinality(In("delivered")')
           /\ Cardinality(In("dead")) <= Cardinality(In("dead")')
<1>1. /\ Known \subseteq Known' /\ Failed \subseteq Failed' /\ outbox \subseteq outbox'
  BY PartsMove, OperationsEnd DEF PInv, ImportInv
<1>2. In("delivered") \subseteq In("delivered")' /\ In("dead") \subseteq In("dead")'
  BY PartsMove, EventsEnd DEF PInv
<1>3. /\ Known' \subseteq Keys /\ Failed' \subseteq Keys
      /\ In("delivered")' \subseteq Keys /\ In("dead")' \subseteq Keys
  BY DEF Known, Failed, In
<1>4. outbox' \subseteq Keys
  BY PartsMove DEF TypeInv, TypeOK
<1> QED
  BY <1>1, <1>2, <1>3, <1>4, MoreKeys

LEMMA CountsAreNat ==
    ASSUME PipelineTypeOK, outbox \subseteq Keys
    PROVE  /\ Cardinality(Known) \in Nat /\ Cardinality(Failed) \in Nat
           /\ Cardinality(outbox) \in Nat
           /\ Cardinality(In("delivered")) \in Nat /\ Cardinality(In("dead")) \in Nat
           /\ counted.total \in Nat /\ counted.processing \in Nat
           /\ counted.failed \in Nat
           /\ snapshot.imports.total \in Nat /\ snapshot.imports.failed \in Nat
           /\ snapshot.imports.processing \in Nat
           /\ snapshot.outbox.open \in Nat
           /\ snapshot.outbox.delivered \in Nat /\ snapshot.outbox.dead \in Nat
<1>1. /\ Known \subseteq Keys /\ Failed \subseteq Keys
      /\ In("delivered") \subseteq Keys /\ In("dead") \subseteq Keys
  BY DEF Known, Failed, In
<1> QED
  BY <1>1, KeysSubset DEF PipelineTypeOK, ImportCounts, Snapshots, OutboxCounts

LEMMA CountsStep ==
    ASSUME PInv, [PipelineNext]_pipelineVars
    PROVE  /\ CountsAreOld' /\ SnapshotAddsUp'
           /\ snapshot.imports.total <= snapshot'.imports.total
           /\ snapshot.imports.failed <= snapshot'.imports.failed
           /\ snapshot.outbox.delivered <= snapshot'.outbox.delivered
           /\ snapshot.outbox.dead <= snapshot'.outbox.dead
<1> DEFINE known == Cardinality(Known)
           failed == Cardinality(Failed)
           events == Cardinality(outbox)
           delivered == Cardinality(In("delivered"))
           dead == Cardinality(In("dead"))
<1>1. /\ known \in Nat /\ failed \in Nat /\ events \in Nat
      /\ delivered \in Nat /\ dead \in Nat
      /\ counted.total \in Nat /\ counted.processing \in Nat /\ counted.failed \in Nat
      /\ snapshot.imports.total \in Nat /\ snapshot.imports.failed \in Nat
      /\ snapshot.imports.processing \in Nat /\ snapshot.outbox.open \in Nat
      /\ snapshot.outbox.delivered \in Nat /\ snapshot.outbox.dead \in Nat
  BY CountsAreNat DEF PInv, ImportInv, TypeInv, TypeOK
<1>2. /\ known' \in Nat /\ failed' \in Nat /\ events' \in Nat
      /\ delivered' \in Nat /\ dead' \in Nat
  <2>1. PipelineTypeOK' /\ outbox' \subseteq Keys
    BY PipelineTypeStep, PartsMove DEF TypeInv, TypeOK
  <2>2. /\ Known' \subseteq Keys /\ Failed' \subseteq Keys
        /\ In("delivered")' \subseteq Keys /\ In("dead")' \subseteq Keys
    BY DEF Known, Failed, In
  <2> QED
    BY <2>1, <2>2, KeysSubset
<1>3. /\ known <= known' /\ failed <= failed' /\ events <= events'
      /\ delivered <= delivered' /\ dead <= dead'
  BY CountsGrow
<1>4. /\ scrape = "outbox" =>
            /\ counted.total <= known
            /\ counted.failed <= failed
            /\ counted.total - counted.processing - counted.failed <= events
            /\ snapshot.imports.total <= counted.total
            /\ snapshot.imports.failed <= counted.failed
      /\ snapshot.imports.total <= known
      /\ snapshot.imports.failed <= failed
      /\ snapshot.outbox.delivered <= delivered
      /\ snapshot.outbox.dead <= dead
      /\ SnapshotAddsUp
  BY DEF PInv, CountsAreOld
<1>5. /\ scrape' = "outbox" =>
            /\ counted'.total <= known'
            /\ counted'.failed <= failed'
            /\ counted'.total - counted'.processing - counted'.failed <= events'
            /\ snapshot'.imports.total <= counted'.total
            /\ snapshot'.imports.failed <= counted'.failed
      /\ snapshot'.imports.total <= known'
      /\ snapshot'.imports.failed <= failed'
      /\ snapshot'.outbox.delivered <= delivered'
      /\ snapshot'.outbox.dead <= dead'
      => CountsAreOld'
  BY DEF CountsAreOld
<1>6. CASE UNCHANGED metrics
  <2>1. UNCHANGED <<scrape, counted, snapshot>>
    BY <1>6 DEF metrics
  <2>2. SnapshotAddsUp'
    BY <1>4, <2>1 DEF SnapshotAddsUp
  <2> HIDE DEF known, failed, events, delivered, dead
  <2> QED
    BY <1>1, <1>2, <1>3, <1>4, <1>5, <2>1, <2>2
<1>7. CASE CountImports
  <2>1. /\ counted'.total = known
        /\ counted'.processing = Cardinality(Running)
        /\ counted'.failed = failed
        /\ UNCHANGED snapshot
    BY <1>7 DEF CountImports, Known, Running, Failed
  <2>2. known - Cardinality(Running) - failed = events /\ Cardinality(Running) \in Nat
    BY ImportsAddUp DEF PInv, ImportInv
  <2>3. SnapshotAddsUp'
    BY <1>4, <2>1 DEF SnapshotAddsUp
  <2> HIDE DEF known, failed, events, delivered, dead
  <2> QED
    BY <1>1, <1>2, <1>3, <1>4, <1>5, <2>1, <2>2, <2>3
<1>8. CASE CountEvents
  <2>1. /\ scrape = "outbox" /\ scrape' = "idle"
        /\ snapshot'.imports = counted
        /\ snapshot'.outbox.open = Cardinality(In("open"))
        /\ snapshot'.outbox.delivered = delivered
        /\ snapshot'.outbox.dead = dead
    BY <1>8 DEF CountEvents
  <2>2. Cardinality(In("open")) + delivered + dead = events
    BY EventsAddUp DEF PInv, ImportInv, TypeInv, TypeOK
  <2>3. SnapshotAddsUp'
    BY <1>4, <2>1, <2>2 DEF SnapshotAddsUp
  <2> HIDE DEF known, failed, events, delivered, dead
  <2> QED
    BY <1>1, <1>2, <1>3, <1>4, <1>5, <2>1, <2>3
<1>9. CASE ScrapeFails
  <2>1. scrape' = "idle" /\ UNCHANGED snapshot
    BY <1>9 DEF ScrapeFails
  <2>2. SnapshotAddsUp'
    BY <1>4, <2>1 DEF SnapshotAddsUp
  <2> HIDE DEF known, failed, events, delivered, dead
  <2> QED
    BY <1>1, <1>2, <1>3, <1>4, <1>5, <2>1, <2>2
<1>10. \/ UNCHANGED metrics \/ CountImports \/ CountEvents \/ ScrapeFails
  BY DEF PipelineNext, pipelineVars, ImportStep, DeliveryStep, GrowsLate
<1> QED
  BY <1>6, <1>7, <1>8, <1>9, <1>10

LEMMA PipelineStep == PInv /\ [PipelineNext]_pipelineVars => PInv'
BY PartsMove, CoupledStep, PipelineTypeStep, CountsStep DEF PInv

LEMMA PipelineInvariant == PipelineSpec => []PInv
BY PipelineStarts, PipelineStep, PTL DEF PipelineSpec

-----------------------------------------------------------------------------
(* The theorems                                                            *)

(***************************************************************************)
(* The events, the counts and the snapshots keep their types               *)
(* (PipelineTypeOK).                                                       *)
(***************************************************************************)
THEOREM PipelineTypeCorrect == PipelineSpec => []PipelineTypeOK
<1>1. PInv => PipelineTypeOK
  BY DEF PInv
<1> QED
  BY <1>1, PipelineInvariant, PTL

(***************************************************************************)
(* End to end, the partner hears only of accepted imports over files that  *)
(* are stored whole (PartnerIsToldTheTruth): the event comes from the      *)
(* outbox, the outbox from an accepted operation, and the operation from a *)
(* committed batch, which ImportsAreWhole says is whole.                   *)
(***************************************************************************)
THEOREM PartnerHearsTheTruth == PipelineSpec => []PartnerIsToldTheTruth
<1>1. PInv /\ AllOrNothing => PartnerIsToldTheTruth
  BY DEF PInv, ImportInv, ResultInv, AcceptedIsDurable, AllOrNothing, PartnerIsToldTheTruth,
         PipelineTypeOK
<1> QED
  BY <1>1, PipelineInvariant, RunsImports, ImportsAreWhole, PTL

(***************************************************************************)
(* However many imports end between the two counts, no snapshot shows an   *)
(* accepted import without its event (SnapshotAddsUp).                     *)
(***************************************************************************)
THEOREM SnapshotsAreConsistent == PipelineSpec => []SnapshotAddsUp
<1>1. PInv => SnapshotAddsUp
  BY DEF PInv
<1> QED
  BY <1>1, PipelineInvariant, PTL

(***************************************************************************)
(* The gauges of the final states never go down (SnapshotsAscend).         *)
(***************************************************************************)
THEOREM GaugesAscend == PipelineSpec => SnapshotsAscend
<1>1. PInv /\ [PipelineNext]_pipelineVars =>
         [/\ snapshot.imports.total <= snapshot'.imports.total
          /\ snapshot.imports.failed <= snapshot'.imports.failed
          /\ snapshot.outbox.delivered <= snapshot'.outbox.delivered
          /\ snapshot.outbox.dead <= snapshot'.outbox.dead]_pipelineVars
  BY CountsStep
<1> QED
  BY <1>1, PipelineInvariant, PTL DEF PipelineSpec, SnapshotsAscend
=============================================================================
