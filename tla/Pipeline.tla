------------------------------ MODULE Pipeline ------------------------------
(***************************************************************************)
(* An import from the client to the partner, and what the operator sees of *)
(* it.  ImportApi writes the outbox; its events have the fate AtLeastOnce  *)
(* allows, which Delivery is shown to implement; collect_snapshot          *)
(* (operations.py), behind GET /metrics and fde-ops-check, counts both     *)
(* tables in two statements, and evaluate_alerts looks at the counts.      *)
(***************************************************************************)
EXTENDS ImportApi

ASSUME PipelineConstants == IsFiniteSet(Keys)

VARIABLES
    state,      \* the event of each key, as AtLeastOnce has it
    received,   \* the keys whose event the partner has recorded
    late,       \* events older than pending_warning_seconds
    scrape,     \* where collect_snapshot is
    counted,    \* its import_row
    snapshot    \* the last snapshot it returned

delivery == <<state, received>>
metrics == <<scrape, counted, snapshot>>
pipelineVars == <<vars, delivery, late, metrics>>

Events == INSTANCE AtLeastOnce WITH Events <- Keys

ImportCounts == [total : Nat, processing : Nat, failed : Nat, expired : Nat]

OutboxCounts == [open : Nat, delivered : Nat, dead : Nat, delayed : BOOLEAN]

Snapshots == [imports : ImportCounts, outbox : OutboxCounts]

NoImports == [total |-> 0, processing |-> 0, failed |-> 0, expired |-> 0]

NoEvents == [open |-> 0, delivered |-> 0, dead |-> 0, delayed |-> FALSE]

PipelineTypeOK ==
    /\ state \in [Keys -> {"absent", "open", "delivered", "dead"}]
    /\ received \subseteq Keys
    /\ late \subseteq Keys
    /\ scrape \in {"idle", "outbox"}
    /\ counted \in ImportCounts
    /\ snapshot \in Snapshots

PipelineInit ==
    /\ Init
    /\ Events!Init
    /\ late = {}
    /\ scrape = "idle"
    /\ counted = NoImports
    /\ snapshot = [imports |-> NoImports, outbox |-> NoEvents]

-----------------------------------------------------------------------------
(* The import, and its event                                               *)

(***************************************************************************)
(* The row complete_operation inserts is the event, pending.               *)
(***************************************************************************)
ImportStep ==
    /\ Next
    /\ \/ outbox' = outbox /\ UNCHANGED delivery
       \/ \E k \in Keys : outbox' = outbox \cup {k} /\ Events!Publish(k)
    /\ UNCHANGED <<late, metrics>>

DeliveryStep(k) ==
    /\ Events!Receive(k) \/ Events!Deliver(k) \/ Events!GiveUp(k)
    /\ UNCHANGED <<vars, late, metrics>>

GrowsLate(k) ==
    /\ state[k] = "open"
    /\ late' = late \cup {k}
    /\ UNCHANGED <<vars, delivery, metrics>>

-----------------------------------------------------------------------------
(* collect_snapshot: two statements, each with its own snapshot            *)

\* Fault: the list of failures lacks database_error.
FaultSomeFailures == RefusedStatuses \ {"database_error"}

FailedStatuses == RefusedStatuses

\* Fault: only a lease that is still live counts.
FaultLiveLease(k) == ops[k].status = "processing" /\ ops[k].lease = "live"

ExpiredProcessing(k) == ops[k].status = "processing" /\ ops[k].lease = "expired"

CountImports ==
    /\ scrape = "idle"
    /\ scrape' = "outbox"
    /\ counted' =
          [total      |-> Cardinality({k \in Keys : ops[k].status # "absent"}),
           processing |-> Cardinality({k \in Keys : ops[k].status = "processing"}),
           failed     |-> Cardinality({k \in Keys : ops[k].status \in FailedStatuses}),
           expired    |-> Cardinality({k \in Keys : ExpiredProcessing(k)})]
    /\ UNCHANGED <<vars, delivery, late, snapshot>>

In(s) == {k \in Keys : state[k] = s}

CountEvents ==
    /\ scrape = "outbox"
    /\ scrape' = "idle"
    /\ snapshot' =
          [imports |-> counted,
           outbox  |-> [open      |-> Cardinality(In("open")),
                        delivered |-> Cardinality(In("delivered")),
                        dead      |-> Cardinality(In("dead")),
                        delayed   |-> In("open") \cap late # {}]]
    /\ counted' = NoImports
    /\ UNCHANGED <<vars, delivery, late>>

(***************************************************************************)
(* psycopg raises: 503, or the command exits without a snapshot.           *)
(***************************************************************************)
ScrapeFails ==
    /\ scrape = "outbox"
    /\ scrape' = "idle"
    /\ counted' = NoImports
    /\ UNCHANGED <<vars, delivery, late, snapshot>>

(***************************************************************************)
(* evaluate_alerts, and the rules of deploy/prometheus-alerts.yml.         *)
(***************************************************************************)
Alerts ==
    {a \in {"expired_processing_lease", "outbox_dead_letter", "outbox_delivery_delayed"} :
        \/ a = "expired_processing_lease" /\ snapshot.imports.expired > 0
        \/ a = "outbox_dead_letter" /\ snapshot.outbox.dead > 0
        \/ a = "outbox_delivery_delayed" /\ snapshot.outbox.delayed}

PipelineNext ==
    \/ ImportStep
    \/ \E k \in Keys : DeliveryStep(k) \/ GrowsLate(k)
    \/ CountImports
    \/ CountEvents
    \/ ScrapeFails

PipelineSpec == PipelineInit /\ [][PipelineNext]_pipelineVars

(***************************************************************************)
(* Time passes, events settle (Delivery!EventSettles), and the operator's  *)
(* scrapes do not fail for ever.                                           *)
(***************************************************************************)
PipelineFairSpec ==
    /\ PipelineSpec
    /\ HandlersRun
    /\ \A k \in Keys :
          /\ WF_vars(LeaseExpires(k))
          /\ WF_delivery(Events!Deliver(k) \/ Events!GiveUp(k))
    /\ WF_pipelineVars(CountImports)
    /\ SF_pipelineVars(CountEvents)

-----------------------------------------------------------------------------
(* Properties                                                              *)

(***************************************************************************)
(* End to end: the partner hears only of keys that were accepted, over a   *)
(* file whose every row is stored with its values.                         *)
(***************************************************************************)
PartnerIsToldTheTruth ==
    \A k \in received :
        /\ ops[k].status \in AcceptedStatuses
        /\ ops[k].sha \in batches
        /\ \A e \in DOMAIN Rows[ops[k].sha] : customers[e] = Rows[ops[k].sha][e]

(***************************************************************************)
(* In every snapshot the imports that are neither processing nor failed    *)
(* have their events, though the two tables are counted one after the      *)
(* other while both change.                                                *)
(***************************************************************************)
SnapshotAddsUp ==
    LET i == snapshot.imports
        o == snapshot.outbox
    IN  i.total - i.processing - i.failed <= o.open + o.delivered + o.dead

(***************************************************************************)
(* What has ended stays ended, so the gauges of the final states ascend    *)
(* from one snapshot to the next.                                          *)
(***************************************************************************)
SnapshotsAscend ==
    [][/\ snapshot.imports.total <= snapshot'.imports.total
       /\ snapshot.imports.failed <= snapshot'.imports.failed
       /\ snapshot.outbox.delivered <= snapshot'.outbox.delivered
       /\ snapshot.outbox.dead <= snapshot'.outbox.dead]_pipelineVars

(***************************************************************************)
(* docs/operations-contract.md: the operator can tell "si existen trabajos *)
(* abandonados" and whether delivery is "atrasada o agotada".  Whatever    *)
(* dies, a reserved operation comes to a refusal, to an event the partner  *)
(* has, or to an alert.                                                    *)
(***************************************************************************)
NothingIsAbandonedUnseen ==
    \A k \in Keys : ops[k].status = "processing" ~>
        \/ ops[k].status \in RefusedStatuses
        \/ state[k] = "delivered"
        \/ state[k] = "dead" /\ "outbox_dead_letter" \in Alerts
        \/ ops[k].status = "processing" /\ "expired_processing_lease" \in Alerts
=============================================================================
