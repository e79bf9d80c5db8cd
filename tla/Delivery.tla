------------------------------ MODULE Delivery ------------------------------
(***************************************************************************)
(* The integration outbox (integration_store.py), the workers that drain   *)
(* it (integration_worker.py) and the partner that receives the webhooks   *)
(* (partner_api.py).                                                       *)
(*                                                                         *)
(* A claim and a mark are one transaction each and one step each; between  *)
(* them a worker only holds what the claim returned.  The partner's        *)
(* transaction is three statements and a step each: one process serves one *)
(* request at a time (its handler awaits nothing after the body), but two  *)
(* processes over one database may serve requests for one event at once,   *)
(* as soon as a worker gives up waiting.  Time appears as the moments that *)
(* matter: a backoff elapses, a lease expires, a worker stops waiting.     *)
(***************************************************************************)
EXTENDS Integers, FiniteSets, SequencesExt

CONSTANTS
    Events,              \* event_id, one for each accepted operation
    Workers,             \* integration_worker processes
    NoEvent,
    MaxAttempts,         \* INTEGRATION_MAX_ATTEMPTS
    SimulatedFailures,   \* PARTNER_SIMULATED_FAILURES
    PartnerProcesses,    \* how many processes of the partner share its database
    MaxFaults            \* bound on the crashes, dropped connections and
                         \* overtaken leases explored, not in the code

ASSUME DeliveryConstants ==
    /\ NoEvent \notin Events
    /\ MaxAttempts \in Nat \ {0}
    /\ SimulatedFailures \in Nat
    /\ PartnerProcesses \in Nat \ {0}
    /\ MaxFaults \in Nat

VARIABLES
    outbox,     \* integration_outbox, by event
    queue,      \* the open events that are due, in the order of available_at
    pc,         \* where each worker is
    held,       \* the event its claim returned
    token,      \* the attempt_count its claim returned
    outcome,    \* its DeliveryResult
    requests,   \* webhook requests, one for each attempt that was sent
    tries,      \* partner_delivery_attempts.attempt_count, by event
    receipts,   \* partner_receipts
    faults      \* what is left of MaxFaults

worker == <<pc, held, token, outcome>>
partner == <<requests, tries, receipts>>
vars == <<outbox, queue, pc, held, token, outcome,
          requests, tries, receipts, faults>>

Rows ==
    [status  : {"absent", "pending", "delivering", "delivered", "dead_letter"},
     attempt : Nat,
     lease   : {"none", "live", "expired"},
     failure : {"none", "transient", "permanent"}]

Absent == [status |-> "absent", attempt |-> 0, lease |-> "none", failure |-> "none"]

Outcomes == {"none", "delivered", "transient", "permanent"}

(***************************************************************************)
(* A request on the network or in the partner's transaction, and the ways  *)
(* it is answered: 200 (duplicate false or true), 503, a 4xx, or not at    *)
(* all because its connection went away.                                   *)
(***************************************************************************)
Open == {"sent", "selected", "counted"}
Answered == {"accepted", "duplicate", "unavailable", "rejected", "dropped"}

Requests == [event : Events, attempt : Nat, stage : Open \cup Answered]

TypeOK ==
    /\ outbox \in [Events -> Rows]
    /\ queue \in Seq(Events)
    /\ pc \in [Workers -> {"poll", "send", "wait", "mark", "down"}]
    /\ held \in [Workers -> Events \cup {NoEvent}]
    /\ token \in [Workers -> Nat]
    /\ outcome \in [Workers -> Outcomes]
    /\ requests \subseteq Requests
    /\ tries \in [Events -> Nat]
    /\ receipts \subseteq Events
    /\ faults \in Nat

Init ==
    /\ outbox = [e \in Events |-> Absent]
    /\ queue = <<>>
    /\ pc = [w \in Workers |-> "poll"]
    /\ held = [w \in Workers |-> NoEvent]
    /\ token = [w \in Workers |-> 0]
    /\ outcome = [w \in Workers |-> "none"]
    /\ requests = {}
    /\ tries = [e \in Events |-> 0]
    /\ receipts = {}
    /\ faults = MaxFaults

-----------------------------------------------------------------------------
(* The outbox                                                              *)

(***************************************************************************)
(* complete_operation stores an accepted result: the row is pending, and   *)
(* available at once.                                                      *)
(***************************************************************************)
Publish(e) ==
    /\ outbox[e].status = "absent"
    /\ outbox' = [outbox EXCEPT ![e].status = "pending"]
    /\ queue' = Append(queue, e)
    /\ UNCHANGED <<worker, partner, faults>>

BackoffElapses(e) ==
    /\ outbox[e].status = "pending"
    /\ e \notin ToSet(queue)
    /\ queue' = Append(queue, e)
    /\ UNCHANGED <<outbox, worker, partner, faults>>

(***************************************************************************)
(* now() passes lease_expires_at.  The lease outlasts the HTTP timeout, so *)
(* it overtakes only a worker that hangs, and each time is a fault.        *)
(***************************************************************************)
Held(e) == \E w \in Workers : held[w] = e /\ token[w] = outbox[e].attempt

LeaseExpires(e) ==
    /\ outbox[e].status = "delivering"
    /\ outbox[e].lease = "live"
    /\ outbox' = [outbox EXCEPT ![e].lease = "expired"]
    /\ \/ ~ Held(e) /\ UNCHANGED faults
       \/ faults > 0 /\ faults' = faults - 1
    /\ UNCHANGED <<queue, worker, partner>>

\* Fault: the claim looks for pending events only.
FaultPendingOnly(e) == outbox[e].status = "pending"

Claimable(e) ==
    \/ outbox[e].status = "pending"
    \/ outbox[e].status = "delivering" /\ outbox[e].lease = "expired"

(***************************************************************************)
(* The event to claim: the first available one by available_at.            *)
(***************************************************************************)
Candidate(e) ==
    \E i \in DOMAIN queue :
        /\ queue[i] = e
        /\ Claimable(e)
        /\ \A j \in 1 .. i - 1 : ~ Claimable(queue[j])

\* Fault: attempt_count is not increased by the claim.
FaultSameToken(w) ==
    \E e \in Events :
        /\ pc[w] = "poll"
        /\ Candidate(e)
        /\ outbox' = [outbox EXCEPT ![e].status = "delivering", ![e].lease = "live"]
        /\ pc' = [pc EXCEPT ![w] = "send"]
        /\ held' = [held EXCEPT ![w] = e]
        /\ token' = [token EXCEPT ![w] = outbox[e].attempt]
        /\ UNCHANGED <<queue, outcome, partner, faults>>

(***************************************************************************)
(* claim_next_event                                                        *)
(***************************************************************************)
ClaimNextEvent(w) ==
    \E e \in Events :
        /\ pc[w] = "poll"
        /\ Candidate(e)
        /\ outbox' = [outbox EXCEPT ![e].status = "delivering",
                                    ![e].attempt = @ + 1,
                                    ![e].lease = "live"]
        /\ pc' = [pc EXCEPT ![w] = "send"]
        /\ held' = [held EXCEPT ![w] = e]
        /\ token' = [token EXCEPT ![w] = outbox[e].attempt + 1]
        /\ UNCHANGED <<queue, outcome, partner, faults>>

-----------------------------------------------------------------------------
(* The worker: deliver_event and the two marks                             *)

Send(w) ==
    /\ pc[w] = "send"
    /\ requests' = requests \cup
           {[event |-> held[w], attempt |-> token[w], stage |-> "sent"]}
    /\ pc' = [pc EXCEPT ![w] = "wait"]
    /\ UNCHANGED <<outbox, queue, held, token, outcome, tries, receipts, faults>>

Conclude(w, result) ==
    /\ pc' = [pc EXCEPT ![w] = "mark"]
    /\ outcome' = [outcome EXCEPT ![w] = result]
    /\ UNCHANGED <<outbox, queue, held, token, partner, faults>>

(***************************************************************************)
(* URLError: no connection, so the partner never sees a request.           *)
(***************************************************************************)
Unreachable(w) == pc[w] = "send" /\ Conclude(w, "transient")

(***************************************************************************)
(* TimeoutError: the worker stops waiting, the partner does not know.      *)
(***************************************************************************)
TimesOut(w) == pc[w] = "wait" /\ Conclude(w, "transient")

(***************************************************************************)
(* 2xx is a delivery; classify_http_status retries 408, 425, 429 and 5xx.  *)
(***************************************************************************)
Classify(stage) ==
    CASE stage \in {"accepted", "duplicate"} -> "delivered"
      [] stage = "unavailable" -> "transient"
      [] stage = "rejected" -> "permanent"

HearAnswer(w) ==
    /\ pc[w] = "wait"
    /\ \E r \in requests :
          /\ r.event = held[w]
          /\ r.attempt = token[w]
          /\ r.stage \in Answered \ {"dropped"}
          /\ Conclude(w, Classify(r.stage))

\* Fault: WHERE event_id = %s alone.
FaultUnfenced(w) == TRUE

HoldsAttempt(w) ==
    /\ outbox[held[w]].status = "delivering"
    /\ outbox[held[w]].attempt = token[w]

Dequeue(e) ==
    \/ \E i \in DOMAIN queue : queue[i] = e /\ queue' = RemoveAt(queue, i)
    \/ e \notin ToSet(queue) /\ UNCHANGED queue

(***************************************************************************)
(* mark_delivered                                                          *)
(***************************************************************************)
MarkDelivered(w) ==
    /\ outcome[w] = "delivered"
    /\ HoldsAttempt(w)
    /\ outbox' = [outbox EXCEPT ![held[w]].status = "delivered",
                                ![held[w]].lease = "none"]
    /\ Dequeue(held[w])

\* Fault: attempt_count + 1 >= max_attempts.
FaultExhaustedEarly(w) == token[w] + 1 >= MaxAttempts

\* Fault: attempt_count > max_attempts.
FaultExhaustedLate(w) == token[w] > MaxAttempts

Exhausted(w) == token[w] >= MaxAttempts

\* Fault: a failure is stored under a status the table does not allow.
FaultFailedStatus(w) ==
    /\ outcome[w] \in {"transient", "permanent"}
    /\ HoldsAttempt(w)
    /\ outbox' = [outbox EXCEPT ![held[w]].status = "failed",
                                ![held[w]].lease = "none",
                                ![held[w]].failure = outcome[w]]
    /\ Dequeue(held[w])

(***************************************************************************)
(* mark_failed_attempt: again after a backoff, or never again.             *)
(***************************************************************************)
MarkFailedAttempt(w) ==
    /\ outcome[w] \in {"transient", "permanent"}
    /\ HoldsAttempt(w)
    /\ outbox' = [outbox EXCEPT
           ![held[w]].status = IF outcome[w] = "transient" /\ ~ Exhausted(w)
                               THEN "pending" ELSE "dead_letter",
           ![held[w]].lease = "none",
           ![held[w]].failure = outcome[w]]
    /\ Dequeue(held[w])

StaleAttempt(w) ==
    /\ ~ HoldsAttempt(w)
    /\ UNCHANGED <<outbox, queue>>

LetGo(w, where) ==
    /\ pc' = [pc EXCEPT ![w] = where]
    /\ held' = [held EXCEPT ![w] = NoEvent]
    /\ token' = [token EXCEPT ![w] = 0]
    /\ outcome' = [outcome EXCEPT ![w] = "none"]

Mark(w) ==
    /\ pc[w] = "mark"
    /\ MarkDelivered(w) \/ MarkFailedAttempt(w) \/ StaleAttempt(w)
    /\ LetGo(w, "poll")
    /\ UNCHANGED <<partner, faults>>

(***************************************************************************)
(* process_one raises, or the process dies: psycopg.Error in a claim or a  *)
(* mark, SIGKILL, a connection reset.  Nothing of it survives.             *)
(***************************************************************************)
Crash(w) ==
    /\ pc[w] # "down"
    /\ faults > 0
    /\ faults' = faults - 1
    /\ LetGo(w, "down")
    /\ UNCHANGED <<outbox, queue, partner>>

(***************************************************************************)
(* A connection that closes before the answer is neither URLError nor      *)
(* TimeoutError (http.client.RemoteDisconnected), so nobody catches it.    *)
(***************************************************************************)
HearDropped(w) ==
    /\ pc[w] = "wait"
    /\ \E r \in requests :
          /\ r.event = held[w]
          /\ r.attempt = token[w]
          /\ r.stage = "dropped"
    /\ LetGo(w, "down")
    /\ UNCHANGED <<outbox, queue, partner, faults>>

(***************************************************************************)
(* restart: unless-stopped                                                 *)
(***************************************************************************)
Restart(w) ==
    /\ pc[w] = "down"
    /\ pc' = [pc EXCEPT ![w] = "poll"]
    /\ UNCHANGED <<outbox, queue, held, token, outcome, partner, faults>>

-----------------------------------------------------------------------------
(* The partner: receive_import_event and record_partner_delivery           *)

Move(r, stage) ==
    requests' = (requests \ {r}) \cup {[r EXCEPT !.stage = stage]}

(***************************************************************************)
(* An answer of the 400s, before anything is stored: a signature too old   *)
(* when it arrives, a secret or a URL that does not match.                 *)
(***************************************************************************)
Reject(r) ==
    /\ r.stage = "sent"
    /\ Move(r, "rejected")
    /\ UNCHANGED <<outbox, queue, worker, tries, receipts, faults>>

ProcessFree ==
    Cardinality({r \in requests : r.stage \in {"selected", "counted"}}) < PartnerProcesses

SelectReceipt(r) ==
    /\ r.stage = "sent"
    /\ ProcessFree
    /\ Move(r, IF r.event \in receipts THEN "duplicate" ELSE "selected")
    /\ UNCHANGED <<outbox, queue, worker, tries, receipts, faults>>

(***************************************************************************)
(* The upsert of partner_delivery_attempts holds the row until the         *)
(* transaction ends.  The first SimulatedFailures of an event commit the   *)
(* count and answer 503.                                                   *)
(***************************************************************************)
AttemptLocked(e) == \E r \in requests : r.event = e /\ r.stage = "counted"

CountAttempt(r) ==
    /\ r.stage = "selected"
    /\ ~ AttemptLocked(r.event)
    /\ \/ /\ tries[r.event] < SimulatedFailures
          /\ tries' = [tries EXCEPT ![r.event] = @ + 1]
          /\ Move(r, "unavailable")
       \/ /\ tries[r.event] >= SimulatedFailures
          /\ Move(r, "counted")
          /\ UNCHANGED tries
    /\ UNCHANGED <<outbox, queue, worker, receipts, faults>>

\* Fault: INSERT INTO partner_receipts .. ON CONFLICT DO NOTHING.
FaultInsertReceipt(r) ==
    /\ r.stage = "counted"
    /\ Move(r, "accepted")
    /\ receipts' = receipts \cup {r.event}
    /\ tries' = [tries EXCEPT ![r.event] = @ + 1]
    /\ UNCHANGED <<outbox, queue, worker, faults>>

(***************************************************************************)
(* The primary key refuses a second receipt, and the count with it.  When  *)
(* the acknowledgement of the COMMIT is lost, the answer to what has been  *)
(* received is 503.                                                        *)
(***************************************************************************)
InsertReceipt(r) ==
    /\ r.stage = "counted"
    /\ \/ /\ r.event \notin receipts
          /\ \E answer \in {"accepted", "unavailable"} : Move(r, answer)
          /\ receipts' = receipts \cup {r.event}
          /\ tries' = [tries EXCEPT ![r.event] = @ + 1]
       \/ /\ r.event \in receipts
          /\ Move(r, "unavailable")
          /\ UNCHANGED <<tries, receipts>>
    /\ UNCHANGED <<outbox, queue, worker, faults>>

(***************************************************************************)
(* Any psycopg.Error, or a schema that is not current: rolled back, 503.   *)
(***************************************************************************)
PartnerFails(r) ==
    /\ r.stage \in Open
    /\ Move(r, "unavailable")
    /\ UNCHANGED <<outbox, queue, worker, tries, receipts, faults>>

(***************************************************************************)
(* The partner dies with the request, or a proxy closes the connection,    *)
(* before the COMMIT or after it.                                          *)
(***************************************************************************)
PartnerDrops(r) ==
    /\ r.stage \in Open \cup {"accepted"}
    /\ faults > 0
    /\ faults' = faults - 1
    /\ Move(r, "dropped")
    /\ UNCHANGED <<outbox, queue, worker, tries, receipts>>

-----------------------------------------------------------------------------

WorkerStep(w) ==
    ClaimNextEvent(w) \/ Send(w) \/ TimesOut(w) \/ Mark(w) \/ Restart(w)

PartnerStep(r) ==
    \/ Reject(r)
    \/ SelectReceipt(r)
    \/ CountAttempt(r)
    \/ InsertReceipt(r)
    \/ PartnerFails(r)
    \/ PartnerDrops(r)

(***************************************************************************)
(* Every event is settled: the workers poll an outbox that has nothing for *)
(* them.                                                                   *)
(***************************************************************************)
Settled(e) == outbox[e].status \in {"delivered", "dead_letter"}

AllSettled ==
    /\ \A e \in Events : Settled(e)
    /\ UNCHANGED vars

Next ==
    \/ \E e \in Events : Publish(e) \/ BackoffElapses(e) \/ LeaseExpires(e)
    \/ \E w \in Workers :
          WorkerStep(w) \/ Unreachable(w) \/ HearAnswer(w) \/ HearDropped(w) \/ Crash(w)
    \/ \E r \in requests : PartnerStep(r)
    \/ AllSettled

Spec == Init /\ [][Next]_vars

(***************************************************************************)
(* A running worker goes on, and the HTTP timeout ends every wait; compose *)
(* restarts a dead one; the clock passes a backoff, and the lease of a     *)
(* worker that is gone.  Nothing is asked of the partner.                  *)
(***************************************************************************)
LeaseRunsOut(e) == ~ Held(e) /\ LeaseExpires(e)

FairSpec ==
    /\ Spec
    /\ \A w \in Workers : WF_vars(WorkerStep(w))
    /\ \A e \in Events : WF_vars(BackoffElapses(e)) /\ WF_vars(LeaseRunsOut(e))

-----------------------------------------------------------------------------
(* Properties                                                              *)

(***************************************************************************)
(* However many requests of one event overlap, are repeated after a        *)
(* timeout or arrive after the event was settled, the partner takes the    *)
(* event for new once, and says it has the event only if it does.          *)
(***************************************************************************)
OneEffect ==
    /\ \A r, s \in requests :
          r.event = s.event /\ r.stage = "accepted" /\ s.stage = "accepted" => r = s
    /\ \A r \in requests : r.stage \in {"accepted", "duplicate"} => r.event \in receipts

(***************************************************************************)
(* Whatever leases ran out under whatever workers, the outbox accepts the  *)
(* mark of at most one of them ("un worker viejo no puede completar el     *)
(* intento nuevo").                                                        *)
(***************************************************************************)
OneHolder ==
    \A v, w \in Workers :
        (/\ held[v] # NoEvent
         /\ held[v] = held[w]
         /\ HoldsAttempt(v) /\ HoldsAttempt(w)) => v = w

(***************************************************************************)
(* An event is abandoned only on a refusal that a retry cannot cure, or    *)
(* with its budget of attempts used up.                                    *)
(***************************************************************************)
DeadLetterJustified ==
    \A e \in Events : outbox[e].status = "dead_letter" =>
        \/ outbox[e].failure = "permanent"
        \/ outbox[e].failure = "transient" /\ outbox[e].attempt >= MaxAttempts

(***************************************************************************)
(* What the budget is worth when attempts can end unmarked: each one past  *)
(* MaxAttempts has been paid for by a worker that died or hung beyond its  *)
(* lease, or by a connection that was dropped, and by one of those only.   *)
(***************************************************************************)
OverrunIsPaid ==
    \A e \in Events : outbox[e].attempt <= MaxAttempts + (MaxFaults - faults)

(***************************************************************************)
(* The workers and the partner implement at-least-once delivery: delivered *)
(* means received, and what is settled stays settled.                      *)
(***************************************************************************)
Promise == INSTANCE AtLeastOnce
    WITH state <- [e \in Events |->
             IF outbox[e].status \in {"pending", "delivering"} THEN "open"
             ELSE IF outbox[e].status = "dead_letter" THEN "dead"
             ELSE outbox[e].status],
         received <- receipts

ImplementsAtLeastOnce == Promise!Spec

(***************************************************************************)
(* No event is left behind: through crashes, expired leases and a partner  *)
(* that is silent for ever, each one is delivered or ends in dead_letter   *)
(* once the faults stop.                                                   *)
(***************************************************************************)
EventSettles ==
    \A e \in Events : outbox[e].status = "pending" ~> Settled(e)

(***************************************************************************)
(* docs/integration-discovery.md: "Tras cinco intentos fallidos pasa a     *)
(* dead_letter y exige intervencion; no reintenta para siempre".           *)
(***************************************************************************)
NoAttemptBeyondBudget == \A e \in Events : outbox[e].attempt <= MaxAttempts
=============================================================================
