--------------------------- MODULE Delivery_proofs ---------------------------
(***************************************************************************)
(* Proofs about Delivery, for any number of events, workers, partner       *)
(* processes, attempts and faults.                                         *)
(***************************************************************************)
EXTENDS Delivery, SequenceTheorems, TLAPS

-----------------------------------------------------------------------------
(* Types                                                                   *)

LEMMA AbsentIsRow == Absent \in Rows
BY DEF Absent, Rows

LEMMA DequeueType ==
    ASSUME NEW e \in Events, queue \in Seq(Events), Dequeue(e)
    PROVE  queue' \in Seq(Events)
<1>1. CASE \E i \in DOMAIN queue : queue[i] = e /\ queue' = RemoveAt(queue, i)
  <2>1. PICK i \in DOMAIN queue : queue' = RemoveAt(queue, i)
    BY <1>1
  <2>2. i \in 1 .. Len(queue) /\ Len(queue) \in Nat
    BY <2>1
  <2>3. SubSeq(queue, 1, i - 1) \in Seq(Events)
    BY <2>2, SubSeqProperties
  <2>4. SubSeq(queue, i + 1, Len(queue)) \in Seq(Events)
    BY <2>2, SubSeqProperties
  <2> QED
    BY <2>1, <2>3, <2>4, ConcatProperties DEF RemoveAt
<1>2. CASE UNCHANGED queue
  BY <1>2
<1> QED
  BY <1>1, <1>2 DEF Dequeue

LEMMA EnqueueType ==
    ASSUME NEW e \in Events, queue \in Seq(Events), queue' = Append(queue, e)
    PROVE  queue' \in Seq(Events)
BY AppendProperties

LEMMA MoveType ==
    ASSUME requests \subseteq Requests, NEW r \in requests,
           NEW stage \in Open \cup Answered, Move(r, stage)
    PROVE  requests' \subseteq Requests
BY DEF Move, Requests

-----------------------------------------------------------------------------
(* What each action writes to a row of the outbox                          *)

Statuses == {"absent", "pending", "delivering", "delivered", "dead_letter"}

OthersStay(e) == \A o \in Events \ {e} : outbox'[o] = outbox[o]

LEMMA ClaimedRow ==
    ASSUME NEW row \in Rows, NEW new,
           new = [row EXCEPT !.status = "delivering", !.attempt = @ + 1, !.lease = "live"]
    PROVE  /\ new \in Rows
           /\ new.status = "delivering"
           /\ new.attempt = row.attempt + 1
<1>1. row.attempt + 1 \in Nat
  BY DEF Rows
<1>2. new = [row EXCEPT !.status = "delivering", !.attempt = row.attempt + 1, !.lease = "live"]
  BY DEF Rows
<1> QED
  BY <1>1, <1>2 DEF Rows

LEMMA ClaimWrites ==
    ASSUME TypeOK, NEW w \in Workers, ClaimNextEvent(w)
    PROVE  \E e \in Events :
               /\ Claimable(e)
               /\ outbox' \in [Events -> Rows]
               /\ outbox'[e].status = "delivering"
               /\ outbox'[e].attempt = outbox[e].attempt + 1
               /\ OthersStay(e)
               /\ pc' = [pc EXCEPT ![w] = "send"]
               /\ held' = [held EXCEPT ![w] = e]
               /\ token' = [token EXCEPT ![w] = outbox[e].attempt + 1]
<1>1. PICK e \in Events :
          /\ Candidate(e)
          /\ outbox' = [outbox EXCEPT ![e].status = "delivering",
                                      ![e].attempt = @ + 1,
                                      ![e].lease = "live"]
          /\ pc' = [pc EXCEPT ![w] = "send"]
          /\ held' = [held EXCEPT ![w] = e]
          /\ token' = [token EXCEPT ![w] = outbox[e].attempt + 1]
  BY DEF ClaimNextEvent
<1>2. outbox[e] \in Rows /\ DOMAIN outbox = Events
  BY DEF TypeOK
<1>3. outbox' = [outbox EXCEPT ![e] = [outbox[e] EXCEPT !.status = "delivering",
                                                       !.attempt = @ + 1,
                                                       !.lease = "live"]]
  BY <1>1, <1>2
<1>4. /\ outbox'[e] \in Rows
      /\ outbox'[e].status = "delivering"
      /\ outbox'[e].attempt = outbox[e].attempt + 1
  BY <1>2, <1>3, ClaimedRow
<1>5. outbox' \in [Events -> Rows] /\ OthersStay(e)
  BY <1>2, <1>3, <1>4 DEF TypeOK, OthersStay
<1> QED
  BY <1>1, <1>4, <1>5 DEF Candidate

LEMMA DeliveredWrites ==
    ASSUME TypeOK, NEW w \in Workers, held[w] \in Events, MarkDelivered(w)
    PROVE  /\ outbox' \in [Events -> Rows]
           /\ outbox'[held[w]].status = "delivered"
           /\ outbox'[held[w]].attempt = outbox[held[w]].attempt
           /\ OthersStay(held[w])
<1> DEFINE e == held[w]
<1>1. outbox[e] \in Rows /\ DOMAIN outbox = Events
  BY DEF TypeOK
<1>2. outbox' = [outbox EXCEPT ![e] = [outbox[e] EXCEPT !.status = "delivered",
                                                       !.lease = "none"]]
  BY <1>1 DEF MarkDelivered
<1>3. /\ outbox'[e] \in Rows
      /\ outbox'[e].status = "delivered"
      /\ outbox'[e].attempt = outbox[e].attempt
  <2>1. outbox'[e] = [outbox[e] EXCEPT !.status = "delivered", !.lease = "none"]
    BY <1>1, <1>2
  <2>2. "delivered" \in Statuses
    BY DEF Statuses
  <2> QED
    BY <1>1, <2>1, <2>2 DEF Rows, Statuses
<1> QED
  BY <1>1, <1>2, <1>3 DEF TypeOK, OthersStay

LEMMA FailedWrites ==
    ASSUME TypeOK, NEW w \in Workers, held[w] \in Events, MarkFailedAttempt(w)
    PROVE  /\ outbox' \in [Events -> Rows]
           /\ outbox'[held[w]].status =
                  IF outcome[w] = "transient" /\ ~ Exhausted(w) THEN "pending" ELSE "dead_letter"
           /\ outbox'[held[w]].failure = outcome[w]
           /\ outbox'[held[w]].attempt = outbox[held[w]].attempt
           /\ OthersStay(held[w])
<1> DEFINE e == held[w]
           again == outcome[w] = "transient" /\ ~ Exhausted(w)
           s == IF again THEN "pending" ELSE "dead_letter"
<1>1. outbox[e] \in Rows /\ DOMAIN outbox = Events
  BY DEF TypeOK
<1>2. outcome[w] \in {"transient", "permanent"} /\ s \in Statuses
  BY DEF MarkFailedAttempt, Statuses
<1>3. outbox' = [outbox EXCEPT ![e].status = s, ![e].lease = "none",
                              ![e].failure = outcome[w]]
  BY DEF MarkFailedAttempt
<1> HIDE DEF s
<1>4. outbox' = [outbox EXCEPT ![e] = [outbox[e] EXCEPT !.status = s, !.lease = "none",
                                                       !.failure = outcome[w]]]
  BY <1>1, <1>3
<1>5. /\ outbox'[e] \in Rows
      /\ outbox'[e].status = s
      /\ outbox'[e].failure = outcome[w]
      /\ outbox'[e].attempt = outbox[e].attempt
  <2>1. outbox'[e] = [outbox[e] EXCEPT !.status = s, !.lease = "none", !.failure = outcome[w]]
    BY <1>1, <1>4
  <2> HIDE DEF e
  <2> QED
    BY <1>1, <1>2, <2>1 DEF Rows, Statuses
<1>6. outbox' \in [Events -> Rows] /\ OthersStay(e)
  BY <1>1, <1>4, <1>5 DEF TypeOK, OthersStay
<1> QED
  BY <1>5, <1>6 DEF s

LEMMA ExpiryWrites ==
    ASSUME TypeOK, NEW e \in Events, LeaseExpires(e)
    PROVE  /\ outbox' \in [Events -> Rows]
           /\ outbox'[e].status = outbox[e].status
           /\ outbox'[e].attempt = outbox[e].attempt
           /\ outbox'[e].failure = outbox[e].failure
           /\ OthersStay(e)
BY DEF TypeOK, Rows, LeaseExpires, OthersStay

LEMMA PublishWrites ==
    ASSUME TypeOK, NEW e \in Events, Publish(e)
    PROVE  /\ outbox' \in [Events -> Rows]
           /\ outbox'[e].status = "pending"
           /\ outbox'[e].attempt = outbox[e].attempt
           /\ OthersStay(e)
BY DEF TypeOK, Rows, Publish, OthersStay

-----------------------------------------------------------------------------
(* Type correctness                                                        *)

LEMMA CountsUp ==
    ASSUME TypeOK, NEW e \in Events,
           tries' = [tries EXCEPT ![e] = @ + 1] \/ tries' = tries
    PROVE  tries' \in [Events -> Nat]
BY DEF TypeOK

LEMMA RequestStepTypes ==
    ASSUME TypeOK, NEW r \in requests, PartnerStep(r)
    PROVE  TypeOK'
<1> USE DEF TypeOK, worker, partner
<1>0. r.event \in Events /\ r.stage \in Open \cup Answered
  BY DEF Requests
<1>1. CASE Reject(r)
  BY <1>1, MoveType DEF Reject, Answered
<1>2. CASE SelectReceipt(r)
  <2>1. PICK s \in Open \cup Answered : Move(r, s)
    BY <1>2 DEF SelectReceipt, Open, Answered
  <2> QED
    BY <1>2, <2>1, MoveType DEF SelectReceipt
<1>3. CASE CountAttempt(r)
  <2>1. PICK s \in Open \cup Answered : Move(r, s)
    BY <1>3 DEF CountAttempt, Open, Answered
  <2>2. tries' = [tries EXCEPT ![r.event] = @ + 1] \/ tries' = tries
    BY <1>3 DEF CountAttempt
  <2>3. tries' \in [Events -> Nat]
    <3> HIDE DEF TypeOK
    <3> QED
      BY <2>2, <1>0, CountsUp
  <2> QED
    BY <1>3, <2>1, <2>3, MoveType DEF CountAttempt
<1>4. CASE InsertReceipt(r)
  <2>1. PICK s \in Open \cup Answered : Move(r, s)
    BY <1>4 DEF InsertReceipt, Open, Answered
  <2>2. /\ tries' = [tries EXCEPT ![r.event] = @ + 1] \/ tries' = tries
        /\ receipts' \in {receipts, receipts \cup {r.event}}
    BY <1>4 DEF InsertReceipt
  <2>3. tries' \in [Events -> Nat] /\ receipts' \subseteq Events
    <3>1. receipts' \subseteq Events
      BY <2>2, <1>0
    <3> HIDE DEF TypeOK
    <3> QED
      BY <2>2, <3>1, <1>0, CountsUp
  <2> QED
    BY <1>4, <2>1, <2>3, MoveType DEF InsertReceipt
<1>5. CASE PartnerFails(r)
  BY <1>5, MoveType DEF PartnerFails, Answered
<1>6. CASE PartnerDrops(r)
  <2>1. faults' \in Nat
    BY <1>6 DEF PartnerDrops
  <2> QED
    BY <1>6, <2>1, MoveType DEF PartnerDrops, Answered
<1> QED
  BY <1>1, <1>2, <1>3, <1>4, <1>5, <1>6 DEF PartnerStep

LEMMA EventStepTypes ==
    ASSUME TypeOK, NEW e \in Events, Publish(e) \/ BackoffElapses(e) \/ LeaseExpires(e)
    PROVE  TypeOK'
<1> USE DEF TypeOK, worker, partner
<1>1. CASE Publish(e)
  <2>1. queue' \in Seq(Events)
    BY <1>1, EnqueueType DEF Publish
  <2>2. outbox' \in [Events -> Rows]
    BY <1>1, PublishWrites
  <2> QED
    BY <1>1, <2>1, <2>2 DEF Publish
<1>2. CASE BackoffElapses(e)
  BY <1>2, EnqueueType DEF BackoffElapses
<1>3. CASE LeaseExpires(e)
  <2>1. outbox' \in [Events -> Rows]
    BY <1>3, ExpiryWrites
  <2>2. faults' \in Nat
    BY <1>3 DEF LeaseExpires
  <2> QED
    BY <1>3, <2>1, <2>2 DEF LeaseExpires
<1> QED
  BY <1>1, <1>2, <1>3

LEMMA MarkTypes ==
    ASSUME TypeOK, NEW w \in Workers, held[w] \in Events, Mark(w)
    PROVE  outbox' \in [Events -> Rows] /\ queue' \in Seq(Events)
<1> USE DEF TypeOK
<1>1. CASE MarkDelivered(w)
  BY <1>1, DeliveredWrites, DequeueType DEF MarkDelivered
<1>2. CASE MarkFailedAttempt(w)
  BY <1>2, FailedWrites, DequeueType DEF MarkFailedAttempt
<1>3. CASE StaleAttempt(w)
  BY <1>3 DEF StaleAttempt
<1> QED
  BY <1>1, <1>2, <1>3 DEF Mark

LEMMA LetGoTypes ==
    ASSUME TypeOK, NEW w \in Workers, NEW where \in {"poll", "down"}, LetGo(w, where)
    PROVE  /\ pc' \in [Workers -> {"poll", "send", "wait", "mark", "down"}]
           /\ held' \in [Workers -> Events \cup {NoEvent}]
           /\ token' \in [Workers -> Nat]
           /\ outcome' \in [Workers -> Outcomes]
BY DEF TypeOK, LetGo, Outcomes

LEMMA ConcludeTypes ==
    ASSUME TypeOK, NEW w \in Workers, NEW result \in Outcomes, Conclude(w, result)
    PROVE  TypeOK'
BY DEF TypeOK, Conclude, Outcomes, partner

LEMMA ClassifyType ==
    ASSUME NEW stage \in Answered \ {"dropped"}
    PROVE  /\ Classify(stage) \in {"delivered", "transient", "permanent"}
           /\ Classify(stage) = "delivered" => stage \in {"accepted", "duplicate"}
BY DEF Classify, Answered

-----------------------------------------------------------------------------
(* The inductive invariant                                                 *)

(***************************************************************************)
(* A worker holds an event from its claim to its mark, the row it holds is *)
(* published, and the row's attempt never falls behind the worker's.       *)
(***************************************************************************)
WorkersHold ==
    \A w \in Workers :
        /\ held[w] # NoEvent <=> pc[w] \in {"send", "wait", "mark"}
        /\ outcome[w] # "none" => pc[w] = "mark"
        /\ held[w] # NoEvent => /\ outbox[held[w]].status # "absent"
                                /\ token[w] <= outbox[held[w]].attempt

TokensDiffer ==
    \A v, w \in Workers :
        held[v] # NoEvent /\ held[v] = held[w] /\ token[v] = token[w] => v = w

DeliveredIsReceived == \A w \in Workers : outcome[w] = "delivered" => held[w] \in receipts

RequestsArePublished == \A r \in requests : outbox[r.event].status # "absent"

DInv ==
    /\ TypeOK
    /\ WorkersHold
    /\ TokensDiffer
    /\ DeliveredIsReceived
    /\ RequestsArePublished
    /\ OneEffect
    /\ DeadLetterJustified

LEMMA InitDInv == Init => DInv
<1> SUFFICES ASSUME Init PROVE DInv
  OBVIOUS
<1> USE DEF Init
<1>1. TypeOK
  BY DeliveryConstants, AbsentIsRow DEF TypeOK, Outcomes
<1> QED
  BY <1>1 DEF DInv, WorkersHold, TokensDiffer, DeliveredIsReceived, RequestsArePublished,
       OneEffect, DeadLetterJustified, Absent

LEMMA HeldByBusy ==
    ASSUME TypeOK, WorkersHold, NEW w \in Workers, pc[w] \in {"send", "wait", "mark"}
    PROVE  held[w] \in Events
BY DEF TypeOK, WorkersHold

LEMMA WorkerActionTypes ==
    ASSUME TypeOK, WorkersHold, NEW w \in Workers,
           \/ WorkerStep(w) \/ Unreachable(w) \/ HearAnswer(w) \/ HearDropped(w)
           \/ Crash(w)
    PROVE  TypeOK'
<1> USE DEF partner
<1>1. CASE ClaimNextEvent(w)
  <2>1. PICK e \in Events :
            /\ outbox' \in [Events -> Rows]
            /\ pc' = [pc EXCEPT ![w] = "send"]
            /\ held' = [held EXCEPT ![w] = e]
            /\ token' = [token EXCEPT ![w] = outbox[e].attempt + 1]
    BY <1>1, ClaimWrites
  <2>2. outbox[e].attempt \in Nat
    BY DEF TypeOK, Rows
  <2> QED
    BY <1>1, <2>1, <2>2 DEF TypeOK, ClaimNextEvent
<1>2. CASE Send(w)
  <2>1. held[w] \in Events
    BY <1>2, HeldByBusy DEF Send
  <2>2. requests' \subseteq Requests
    BY <1>2, <2>1 DEF Send, Requests, TypeOK, Open
  <2> QED
    BY <1>2, <2>2 DEF Send, TypeOK
<1>3. CASE TimesOut(w) \/ Unreachable(w)
  BY <1>3, ConcludeTypes DEF TimesOut, Unreachable, Outcomes
<1>4. CASE Mark(w)
  <2>1. held[w] \in Events
    BY <1>4, HeldByBusy DEF Mark
  <2> QED
    BY <1>4, <2>1, MarkTypes, LetGoTypes DEF Mark, TypeOK
<1>5. CASE Restart(w)
  BY <1>5 DEF Restart, TypeOK
<1>6. CASE HearAnswer(w)
  <2>1. PICK r \in requests :
            r.stage \in Answered \ {"dropped"} /\ Conclude(w, Classify(r.stage))
    BY <1>6 DEF HearAnswer
  <2>2. Classify(r.stage) \in Outcomes
    BY <2>1, ClassifyType DEF Outcomes
  <2> QED
    BY <2>1, <2>2, ConcludeTypes
<1>7. CASE HearDropped(w)
  BY <1>7, LetGoTypes DEF HearDropped, TypeOK
<1>8. CASE Crash(w)
  <2>1. faults' \in Nat
    BY <1>8 DEF Crash, TypeOK
  <2> QED
    BY <1>8, <2>1, LetGoTypes DEF Crash, TypeOK
<1> QED
  BY <1>1, <1>2, <1>3, <1>4, <1>5, <1>6, <1>7, <1>8 DEF WorkerStep

LEMMA TypeStep == TypeOK /\ WorkersHold /\ [Next]_vars => TypeOK'
<1> SUFFICES ASSUME TypeOK, WorkersHold, [Next]_vars PROVE TypeOK'
  OBVIOUS
<1>1. CASE UNCHANGED vars
  BY <1>1 DEF vars, TypeOK
<1>2. CASE Next
  BY <1>1, <1>2, EventStepTypes, WorkerActionTypes, RequestStepTypes DEF Next, AllSettled
<1> QED
  BY <1>1, <1>2

-----------------------------------------------------------------------------
(* What a step may do to the outbox                                        *)

LEMMA MarkTouchesItsRow ==
    ASSUME TypeOK, NEW w \in Workers, held[w] \in Events, Mark(w)
    PROVE  /\ OthersStay(held[w])
           /\ outbox'[held[w]].attempt = outbox[held[w]].attempt
           /\ outbox'[held[w]].status = "absent" => outbox[held[w]].status = "absent"
BY DeliveredWrites, FailedWrites DEF Mark, StaleAttempt, OthersStay

(***************************************************************************)
(* A published row stays published, and attempt_count never decreases.     *)
(***************************************************************************)
OutboxGrows ==
    \A e \in Events :
        /\ outbox[e].status # "absent" => outbox'[e].status # "absent"
        /\ outbox'[e].attempt >= outbox[e].attempt

LEMMA OutboxUnchanged == TypeOK /\ UNCHANGED outbox => OutboxGrows
BY DEF TypeOK, Rows, OutboxGrows

LEMMA OutboxStep == TypeOK /\ WorkersHold /\ [Next]_vars => OutboxGrows
<1> SUFFICES ASSUME TypeOK, WorkersHold, [Next]_vars PROVE OutboxGrows
  OBVIOUS
<1>0. \A e \in Events : outbox[e].attempt \in Nat
  BY DEF TypeOK, Rows
<1>1. CASE \E e \in Events : Publish(e) \/ LeaseExpires(e)
  BY <1>0, <1>1, PublishWrites, ExpiryWrites DEF OthersStay, OutboxGrows
<1>2. CASE \E w \in Workers : ClaimNextEvent(w)
  BY <1>0, <1>2, ClaimWrites DEF OthersStay, OutboxGrows
<1>3. CASE \E w \in Workers : Mark(w)
  <2>1. PICK w \in Workers : Mark(w)
    BY <1>3
  <2>2. held[w] \in Events
    BY <2>1, HeldByBusy DEF Mark
  <2> QED
    BY <1>0, <2>1, <2>2, MarkTouchesItsRow DEF OthersStay, OutboxGrows
<1>4. CASE UNCHANGED outbox
  BY <1>4, OutboxUnchanged
<1>5. CASE \E e \in Events : BackoffElapses(e)
  BY <1>5, <1>4 DEF BackoffElapses
<1>6. CASE \E w \in Workers : \/ Send(w) \/ TimesOut(w) \/ Restart(w) \/ Unreachable(w)
                               \/ HearAnswer(w) \/ HearDropped(w) \/ Crash(w)
  BY <1>6, <1>4 DEF Send, TimesOut, Restart, Unreachable, HearAnswer, HearDropped, Crash,
       Conclude
<1>7. CASE \E r \in requests : PartnerStep(r)
  BY <1>7, <1>4 DEF PartnerStep, Reject, SelectReceipt, CountAttempt, InsertReceipt,
       PartnerFails, PartnerDrops
<1>8. CASE UNCHANGED vars
  BY <1>8, <1>4 DEF vars
<1> QED
  BY <1>1, <1>2, <1>3, <1>5, <1>6, <1>7, <1>8 DEF Next, WorkerStep, AllSettled

-----------------------------------------------------------------------------
(* The workers                                                             *)

WorkerUnchanged(v) ==
    /\ pc'[v] = pc[v] /\ held'[v] = held[v]
    /\ token'[v] = token[v] /\ outcome'[v] = outcome[v]

(***************************************************************************)
(* What a step does to the worker that takes it.                           *)
(***************************************************************************)
Claims(w) ==
    /\ pc'[w] = "send"
    /\ outcome'[w] = outcome[w]
    /\ pc[w] = "poll"
    /\ held'[w] \in Events
    /\ outbox'[held'[w]].status # "absent"
    /\ token'[w] = outbox[held'[w]].attempt + 1
    /\ token'[w] = outbox'[held'[w]].attempt

Proceeds(w) ==
    /\ held'[w] = held[w]
    /\ token'[w] = token[w]
    /\ pc[w] \in {"send", "wait"}
    /\ \/ pc'[w] = "wait" /\ outcome'[w] = outcome[w]
       \/ pc'[w] = "mark" /\ outcome'[w] \in {"delivered", "transient", "permanent"}
    /\ outcome'[w] = "delivered" /\ outcome[w] # "delivered" => held[w] \in receipts

Leaves(w) ==
    /\ pc'[w] \in {"poll", "down"}
    /\ held'[w] = NoEvent
    /\ outcome'[w] = "none"

LEMMA WorkerEffect ==
    ASSUME DInv, NEW w \in Workers,
           \/ WorkerStep(w) \/ Unreachable(w) \/ HearAnswer(w) \/ HearDropped(w)
           \/ Crash(w)
    PROVE  /\ Claims(w) \/ Proceeds(w) \/ Leaves(w)
           /\ \A v \in Workers \ {w} : WorkerUnchanged(v)
<1> USE DEF WorkerUnchanged
<1>0. TypeOK /\ WorkersHold
  BY DEF DInv
<1>1. CASE ClaimNextEvent(w)
  <2>1. PICK e \in Events :
            /\ outbox'[e].status = "delivering"
            /\ outbox'[e].attempt = outbox[e].attempt + 1
            /\ pc' = [pc EXCEPT ![w] = "send"]
            /\ held' = [held EXCEPT ![w] = e]
            /\ token' = [token EXCEPT ![w] = outbox[e].attempt + 1]
    BY <1>0, <1>1, ClaimWrites
  <2>2. pc[w] = "poll" /\ UNCHANGED outcome
    BY <1>1 DEF ClaimNextEvent
  <2>3. Claims(w)
    BY <1>0, <2>1, <2>2 DEF Claims, TypeOK
  <2> QED
    BY <1>0, <2>1, <2>2, <2>3 DEF TypeOK
<1>2. CASE Send(w)
  <2>1. Proceeds(w)
    BY <1>0, <1>2 DEF Send, Proceeds, TypeOK
  <2> QED
    BY <1>0, <1>2, <2>1 DEF Send, TypeOK
<1>3. CASE TimesOut(w) \/ Unreachable(w)
  <2>1. Proceeds(w)
    BY <1>0, <1>3 DEF TimesOut, Unreachable, Conclude, Proceeds, TypeOK
  <2> QED
    BY <1>0, <1>3, <2>1 DEF TimesOut, Unreachable, Conclude, TypeOK
<1>4. CASE Mark(w)
  <2>1. Leaves(w)
    BY <1>0, <1>4 DEF Mark, LetGo, Leaves, TypeOK
  <2> QED
    BY <1>0, <1>4, <2>1 DEF Mark, LetGo, TypeOK
<1>5. CASE Restart(w)
  <2>1. Leaves(w)
    BY <1>0, <1>5 DEF Restart, Leaves, TypeOK, WorkersHold
  <2> QED
    BY <1>0, <1>5, <2>1 DEF Restart, TypeOK
<1>6. CASE HearAnswer(w)
  <2>1. PICK r \in requests :
            /\ r.event = held[w]
            /\ r.stage \in Answered \ {"dropped"}
            /\ Conclude(w, Classify(r.stage))
    BY <1>6 DEF HearAnswer
  <2>2. /\ Classify(r.stage) \in {"delivered", "transient", "permanent"}
        /\ Classify(r.stage) = "delivered" => r.event \in receipts
    BY <2>1, ClassifyType DEF DInv, OneEffect
  <2>3. Proceeds(w)
    BY <1>0, <1>6, <2>1, <2>2 DEF HearAnswer, Conclude, Proceeds, TypeOK
  <2> QED
    BY <1>0, <2>1, <2>3 DEF Conclude, TypeOK
<1>7. CASE HearDropped(w) \/ Crash(w)
  <2>1. Leaves(w)
    BY <1>0, <1>7 DEF HearDropped, Crash, LetGo, Leaves, TypeOK
  <2> QED
    BY <1>0, <1>7, <2>1 DEF HearDropped, Crash, LetGo, TypeOK
<1> QED
  BY <1>1, <1>2, <1>3, <1>4, <1>5, <1>6, <1>7 DEF WorkerStep

LEMMA ReceiptsGrow == DInv /\ [Next]_vars => receipts \subseteq receipts'
BY DEF Next, WorkerStep, PartnerStep, AllSettled, Publish, BackoffElapses, LeaseExpires,
       ClaimNextEvent, Send, TimesOut, Mark, Restart, Unreachable, HearAnswer, HearDropped,
       Crash, Conclude, Reject, SelectReceipt, CountAttempt, InsertReceipt, PartnerFails,
       PartnerDrops, partner, vars

LEMMA OtherSteps ==
    ASSUME \/ \E e \in Events : Publish(e) \/ BackoffElapses(e) \/ LeaseExpires(e)
           \/ \E r \in requests : PartnerStep(r)
           \/ AllSettled
           \/ UNCHANGED vars
    PROVE  UNCHANGED worker
BY DEF Publish, BackoffElapses, LeaseExpires, PartnerStep, AllSettled, Reject, SelectReceipt,
       CountAttempt, InsertReceipt, PartnerFails, PartnerDrops, worker, vars

(***************************************************************************)
(* In every step each worker stays as it is, or one of them moves.         *)
(***************************************************************************)
LEMMA WorkersMove ==
    ASSUME DInv, [Next]_vars
    PROVE  \/ \A v \in Workers : WorkerUnchanged(v)
           \/ \E w \in Workers :
                 /\ Claims(w) \/ Proceeds(w) \/ Leaves(w)
                 /\ \A v \in Workers \ {w} : WorkerUnchanged(v)
<1>1. CASE UNCHANGED worker
  BY <1>1 DEF worker, WorkerUnchanged
<1>2. CASE \E w \in Workers : \/ WorkerStep(w) \/ Unreachable(w) \/ HearAnswer(w)
                               \/ HearDropped(w) \/ Crash(w)
  BY <1>2, WorkerEffect
<1> QED
  BY <1>1, <1>2, OtherSteps DEF Next

LEMMA WorkersHoldStep == DInv /\ [Next]_vars => WorkersHold'
<1> SUFFICES ASSUME DInv, [Next]_vars, NEW v \in Workers
             PROVE  /\ held'[v] # NoEvent <=> pc'[v] \in {"send", "wait", "mark"}
                    /\ outcome'[v] # "none" => pc'[v] = "mark"
                    /\ held'[v] # NoEvent => /\ outbox'[held'[v]].status # "absent"
                                             /\ token'[v] <= outbox'[held'[v]].attempt
  BY DEF WorkersHold
<1>1. TypeOK /\ WorkersHold /\ OutboxGrows /\ TypeOK'
  BY OutboxStep, TypeStep DEF DInv
<1>2. /\ held[v] # NoEvent <=> pc[v] \in {"send", "wait", "mark"}
      /\ outcome[v] # "none" => pc[v] = "mark"
      /\ held[v] # NoEvent => /\ held[v] \in Events
                              /\ outbox'[held[v]].status # "absent"
                              /\ token[v] <= outbox'[held[v]].attempt
  <2>1. held[v] \in Events \cup {NoEvent} /\ token[v] \in Nat
    BY <1>1 DEF TypeOK
  <2>2. \A e \in Events : outbox[e].attempt \in Nat /\ outbox'[e].attempt \in Nat
    BY <1>1 DEF TypeOK, Rows
  <2> QED
    BY <1>1, <2>1, <2>2 DEF WorkersHold, OutboxGrows
<1>3. CASE WorkerUnchanged(v)
  BY <1>2, <1>3 DEF WorkerUnchanged
<1>4. CASE Claims(v)
  <2>1. token'[v] \in Nat /\ outbox'[held'[v]].status # "absent"
    BY <1>1, <1>4 DEF Claims, TypeOK, OutboxGrows
  <2> QED
    BY <1>2, <1>4, <2>1, DeliveryConstants DEF Claims
<1>5. CASE Proceeds(v)
  BY <1>2, <1>5 DEF Proceeds
<1>6. CASE Leaves(v)
  BY <1>6 DEF Leaves
<1> QED
  BY <1>3, <1>4, <1>5, <1>6, WorkersMove

(***************************************************************************)
(* A claim takes an attempt that no worker has: every other holder of the  *)
(* event is at most at the row's old attempt.                              *)
(***************************************************************************)
LEMMA TokensDifferStep == DInv /\ [Next]_vars => TokensDiffer'
<1> SUFFICES ASSUME DInv, [Next]_vars, NEW v \in Workers, NEW u \in Workers,
                    held'[v] # NoEvent, held'[v] = held'[u], token'[v] = token'[u]
             PROVE  v = u
  BY DEF TokensDiffer
<1>1. TypeOK /\ WorkersHold /\ TokensDiffer
  BY DEF DInv
<1>2. \A a, b \in Workers :
         (/\ a # b
          /\ Claims(a)
          /\ WorkerUnchanged(b)
          /\ held'[a] = held'[b]) => token'[a] # token'[b]
  <2> SUFFICES ASSUME NEW a \in Workers, NEW b \in Workers,
                      Claims(a), WorkerUnchanged(b), held'[a] = held'[b],
                      token'[a] = token'[b]
               PROVE  FALSE
    OBVIOUS
  <2>1. held[b] \in Events /\ held[b] = held'[a]
    BY DEF Claims, WorkerUnchanged
  <2>2. token[b] <= outbox[held[b]].attempt
    BY <1>1, <2>1, DeliveryConstants DEF WorkersHold
  <2>3. token[b] = outbox[held[b]].attempt + 1
    BY <2>1 DEF Claims, WorkerUnchanged
  <2>4. token[b] \in Nat /\ outbox[held[b]].attempt \in Nat
    BY <1>1, <2>1 DEF TypeOK, Rows
  <2> QED
    BY <2>2, <2>3, <2>4
<1>3. CASE \A w \in Workers : WorkerUnchanged(w)
  BY <1>1, <1>3 DEF WorkerUnchanged, TokensDiffer
<1>4. CASE \E w \in Workers :
              /\ Claims(w) \/ Proceeds(w) \/ Leaves(w)
              /\ \A o \in Workers \ {w} : WorkerUnchanged(o)
  <2>1. PICK w \in Workers :
            /\ Claims(w) \/ Proceeds(w) \/ Leaves(w)
            /\ \A o \in Workers \ {w} : WorkerUnchanged(o)
    BY <1>4
  <2>2. CASE Claims(w)
    <3>1. v # u => v # w /\ u # w
      BY <1>2, <2>1, <2>2
    <3> QED
      BY <1>1, <2>1, <3>1 DEF WorkerUnchanged, TokensDiffer
  <2>3. CASE Proceeds(w)
    BY <1>1, <2>1, <2>3 DEF Proceeds, WorkerUnchanged, TokensDiffer
  <2>4. CASE Leaves(w)
    <3>1. v # w /\ u # w
      BY <2>4 DEF Leaves
    <3> QED
      BY <1>1, <2>1, <3>1 DEF WorkerUnchanged, TokensDiffer
  <2> QED
    BY <2>1, <2>2, <2>3, <2>4
<1> QED
  BY <1>3, <1>4, WorkersMove

LEMMA DeliveredIsReceivedStep == DInv /\ [Next]_vars => DeliveredIsReceived'
<1> SUFFICES ASSUME DInv, [Next]_vars, NEW v \in Workers, outcome'[v] = "delivered"
             PROVE  held'[v] \in receipts'
  BY DEF DeliveredIsReceived
<1>1. receipts \subseteq receipts' /\ DeliveredIsReceived /\ WorkersHold
  BY ReceiptsGrow DEF DInv
<1>2. CASE WorkerUnchanged(v)
  BY <1>1, <1>2 DEF WorkerUnchanged, DeliveredIsReceived
<1>3. CASE Claims(v)
  BY <1>1, <1>3 DEF Claims, WorkersHold
<1>4. CASE Proceeds(v)
  BY <1>1, <1>4 DEF Proceeds, DeliveredIsReceived
<1>5. CASE Leaves(v)
  BY <1>5 DEF Leaves
<1> QED
  BY <1>2, <1>3, <1>4, <1>5, WorkersMove

-----------------------------------------------------------------------------
(* The partner                                                             *)

(***************************************************************************)
(* What a step does to the requests and the receipts: a worker sends, or   *)
(* the partner moves a request.  A receipt, where there was none, comes    *)
(* with the answer accepted, or unavailable if its COMMIT went unheard of. *)
(***************************************************************************)
Sends(w) ==
    /\ pc[w] = "send"
    /\ requests' = requests \cup
           {[event |-> held[w], attempt |-> token[w], stage |-> "sent"]}
    /\ receipts' = receipts

Answers(r, stage) ==
    /\ Move(r, stage)
    /\ \/ stage \notin {"accepted", "duplicate"} /\ receipts' = receipts
       \/ stage = "duplicate" /\ r.event \in receipts /\ receipts' = receipts
       \/ stage \in {"accepted", "unavailable"} /\ r.event \notin receipts
             /\ receipts' = receipts \cup {r.event}

LEMMA PartnerMoves ==
    ASSUME NEW r \in requests, PartnerStep(r)
    PROVE  \E stage \in Open \cup Answered : Answers(r, stage)
<1>1. CASE Reject(r)
  BY <1>1 DEF Reject, Answers, Answered
<1>2. CASE SelectReceipt(r)
  BY <1>2 DEF SelectReceipt, Answers, Answered, Open
<1>3. CASE CountAttempt(r)
  BY <1>3 DEF CountAttempt, Answers, Answered, Open
<1>4. CASE InsertReceipt(r)
  BY <1>4 DEF InsertReceipt, Answers, Answered
<1>5. CASE PartnerFails(r)
  BY <1>5 DEF PartnerFails, Answers, Answered
<1>6. CASE PartnerDrops(r)
  BY <1>6 DEF PartnerDrops, Answers, Answered
<1> QED
  BY <1>1, <1>2, <1>3, <1>4, <1>5, <1>6 DEF PartnerStep

LEMMA RequestsMove ==
    ASSUME [Next]_vars
    PROVE  \/ UNCHANGED <<requests, receipts>>
           \/ \E w \in Workers : Sends(w)
           \/ \E r \in requests : \E stage \in Open \cup Answered : Answers(r, stage)
<1>1. CASE \E w \in Workers : Send(w)
  BY <1>1 DEF Send, Sends
<1>2. CASE \E r \in requests : PartnerStep(r)
  BY <1>2, PartnerMoves
<1>3. CASE \E e \in Events : Publish(e) \/ BackoffElapses(e) \/ LeaseExpires(e)
  BY <1>3 DEF Publish, BackoffElapses, LeaseExpires, partner
<1>4. CASE \E w \in Workers : \/ ClaimNextEvent(w) \/ TimesOut(w) \/ Mark(w) \/ Restart(w)
                               \/ Unreachable(w) \/ HearAnswer(w) \/ HearDropped(w)
                               \/ Crash(w)
  BY <1>4 DEF ClaimNextEvent, TimesOut, Mark, Restart, Unreachable, HearAnswer, HearDropped,
       Crash, Conclude, partner
<1>5. CASE AllSettled \/ UNCHANGED vars
  BY <1>5 DEF AllSettled, vars
<1> QED
  BY <1>1, <1>2, <1>3, <1>4, <1>5 DEF Next, WorkerStep

LEMMA RequestsStep == DInv /\ [Next]_vars => RequestsArePublished' /\ OneEffect'
<1> SUFFICES ASSUME DInv, [Next]_vars PROVE RequestsArePublished' /\ OneEffect'
  OBVIOUS
<1>1. TypeOK /\ WorkersHold /\ RequestsArePublished /\ OneEffect /\ OutboxGrows
  BY OutboxStep DEF DInv
<1>2. \A r \in requests : outbox'[r.event].status # "absent"
  BY <1>1 DEF OutboxGrows, RequestsArePublished, TypeOK, Requests
<1>3. CASE UNCHANGED <<requests, receipts>>
  BY <1>1, <1>2, <1>3 DEF RequestsArePublished, OneEffect
<1>4. CASE \E w \in Workers : Sends(w)
  <2>1. PICK w \in Workers : Sends(w)
    BY <1>4
  <2>2. held[w] \in Events /\ outbox'[held[w]].status # "absent"
    BY <1>1, <2>1, HeldByBusy, DeliveryConstants DEF Sends, WorkersHold, OutboxGrows
  <2> QED
    BY <1>1, <1>2, <2>1, <2>2 DEF Sends, RequestsArePublished, OneEffect
<1>5. CASE \E r \in requests : \E stage \in Open \cup Answered : Answers(r, stage)
  <2>1. PICK r \in requests, stage \in Open \cup Answered : Answers(r, stage)
    BY <1>5
  <2>2. /\ [r EXCEPT !.stage = stage].event = r.event
        /\ [r EXCEPT !.stage = stage].stage = stage
    BY <1>1 DEF TypeOK, Requests
  <2> DEFINE s == [r EXCEPT !.stage = stage]
  <2>3. requests' = (requests \ {r}) \cup {s}
    BY <2>1 DEF Answers, Move
  <2> HIDE DEF s
  <2>4. s.event = r.event /\ s.stage = stage
    BY <2>2 DEF s
  <2>5. RequestsArePublished'
    BY <1>2, <2>3, <2>4 DEF RequestsArePublished
  <2>6. OneEffect'
    BY <1>1, <2>1, <2>3, <2>4 DEF OneEffect, Answers
  <2> QED
    BY <2>5, <2>6
<1> QED
  BY <1>3, <1>4, <1>5, RequestsMove

-----------------------------------------------------------------------------
(* The rows                                                                *)

(***************************************************************************)
(* What a step does to the outbox: nothing, or one row is published,       *)
(* claimed, expired, or marked by a worker that still holds its attempt.   *)
(***************************************************************************)
Marked(w) ==
    LET e == held[w] IN
    /\ e \in Events
    /\ HoldsAttempt(w)
    /\ OthersStay(e)
    /\ \/ outbox'[e].status = "delivered" /\ outcome[w] = "delivered"
       \/ outbox'[e].status = "pending"
       \/ /\ outbox'[e].status = "dead_letter"
          /\ outbox'[e].failure = outcome[w]
          /\ outbox'[e].attempt = outbox[e].attempt
          /\ outcome[w] = "permanent" \/ (outcome[w] = "transient" /\ Exhausted(w))

Moved(e) ==
    /\ OthersStay(e)
    /\ UNCHANGED receipts
    /\ \/ outbox[e].status = "absent" /\ outbox'[e].status = "pending"
       \/ outbox[e].status \in {"pending", "delivering"} /\ outbox'[e].status = "delivering"

LEMMA OutboxMoves ==
    ASSUME DInv, [Next]_vars
    PROVE  \/ UNCHANGED outbox
           \/ \E e \in Events : Moved(e)
           \/ \E w \in Workers : Mark(w) /\ Marked(w)
<1>1. TypeOK /\ WorkersHold
  BY DEF DInv
<1>2. CASE \E e \in Events : Publish(e) \/ LeaseExpires(e)
  BY <1>1, <1>2, PublishWrites, ExpiryWrites DEF Publish, LeaseExpires, partner, Moved
<1>3. CASE \E w \in Workers : ClaimNextEvent(w)
  <2>1. PICK w \in Workers : ClaimNextEvent(w)
    BY <1>3
  <2>2. UNCHANGED receipts
    BY <2>1 DEF ClaimNextEvent, partner
  <2>3. PICK e \in Events :
            Claimable(e) /\ outbox'[e].status = "delivering" /\ OthersStay(e)
    BY <1>1, <2>1, ClaimWrites
  <2> QED
    BY <2>2, <2>3 DEF Claimable, Moved
<1>4. CASE \E w \in Workers : Mark(w)
  <2>1. PICK w \in Workers : Mark(w)
    BY <1>4
  <2>2. held[w] \in Events
    BY <1>1, <2>1, HeldByBusy DEF Mark
  <2>3. CASE MarkDelivered(w)
    <3>1. Marked(w)
      BY <1>1, <2>2, <2>3, DeliveredWrites DEF MarkDelivered, Marked
    <3> QED
      BY <2>1, <3>1
  <2>4. CASE MarkFailedAttempt(w)
    <3>1. outcome[w] \in {"transient", "permanent"} /\ HoldsAttempt(w)
      BY <2>4 DEF MarkFailedAttempt
    <3>2. CASE outcome[w] = "transient" /\ ~ Exhausted(w)
      BY <1>1, <2>1, <2>2, <2>4, <3>1, <3>2, FailedWrites DEF Marked
    <3>3. CASE ~ (outcome[w] = "transient" /\ ~ Exhausted(w))
      <4>1. /\ outbox'[held[w]].status = "dead_letter"
            /\ outbox'[held[w]].failure = outcome[w]
            /\ outbox'[held[w]].attempt = outbox[held[w]].attempt
            /\ OthersStay(held[w])
        BY <1>1, <2>2, <2>4, <3>3, FailedWrites
      <4>2. outcome[w] = "permanent" \/ (outcome[w] = "transient" /\ Exhausted(w))
        BY <3>1, <3>3
      <4> QED
        BY <2>1, <2>2, <3>1, <4>1, <4>2, Zenon DEF Marked
    <3> QED
      BY <3>2, <3>3
  <2>5. CASE StaleAttempt(w)
    BY <2>5 DEF StaleAttempt
  <2> QED
    BY <2>1, <2>3, <2>4, <2>5 DEF Mark
<1>5. CASE \E e \in Events : BackoffElapses(e)
  BY <1>5 DEF BackoffElapses
<1>6. CASE \E w \in Workers : \/ Send(w) \/ TimesOut(w) \/ Restart(w) \/ Unreachable(w)
                               \/ HearAnswer(w) \/ HearDropped(w) \/ Crash(w)
  BY <1>6 DEF Send, TimesOut, Restart, Unreachable, HearAnswer, HearDropped, Crash, Conclude
<1>7. CASE \E r \in requests : PartnerStep(r)
  BY <1>7 DEF PartnerStep, Reject, SelectReceipt, CountAttempt, InsertReceipt,
       PartnerFails, PartnerDrops
<1>8. CASE AllSettled \/ UNCHANGED vars
  BY <1>8 DEF AllSettled, vars
<1> QED
  BY <1>2, <1>3, <1>4, <1>5, <1>6, <1>7, <1>8 DEF Next, WorkerStep

LEMMA DeadLetterStep == DInv /\ [Next]_vars => DeadLetterJustified'
<1> SUFFICES ASSUME DInv, [Next]_vars, NEW e \in Events, outbox'[e].status = "dead_letter"
             PROVE  \/ outbox'[e].failure = "permanent"
                    \/ outbox'[e].failure = "transient" /\ outbox'[e].attempt >= MaxAttempts
  BY DEF DeadLetterJustified
<1>1. DeadLetterJustified
  BY DEF DInv
<1>2. CASE outbox'[e] = outbox[e]
  BY <1>1, <1>2 DEF DeadLetterJustified
<1>3. CASE \E o \in Events : Moved(o)
  BY <1>2, <1>3 DEF Moved, OthersStay
<1>4. CASE \E w \in Workers : Mark(w) /\ Marked(w)
  <2>1. PICK w \in Workers : Marked(w)
    BY <1>4
  <2>2. CASE e # held[w]
    BY <1>2, <2>1, <2>2 DEF Marked, OthersStay
  <2>3. CASE e = held[w]
    BY <2>1, <2>3 DEF Marked, HoldsAttempt, Exhausted
  <2> QED
    BY <2>2, <2>3
<1> QED
  BY <1>2, <1>3, <1>4, OutboxMoves

LEMMA NextDInv == DInv /\ [Next]_vars => DInv'
BY TypeStep, WorkersHoldStep, TokensDifferStep, DeliveredIsReceivedStep, RequestsStep,
   DeadLetterStep DEF DInv

LEMMA Invariance == Spec => []DInv
BY InitDInv, NextDInv, PTL DEF Spec

-----------------------------------------------------------------------------
(* The theorems                                                            *)

(***************************************************************************)
(* The variables of the outbox, the workers and the partner keep their     *)
(* types.                                                                  *)
(***************************************************************************)
THEOREM TypeCorrect == Spec => []TypeOK
<1>1. DInv => TypeOK
  BY DEF DInv
<1> QED
  BY <1>1, Invariance, PTL

(***************************************************************************)
(* Any number of workers, whatever leases run out: of those that hold an   *)
(* event one at most can mark it, because a claim's attempt_count is the   *)
(* row's and no two claims of a row have the same.                         *)
(***************************************************************************)
THEOREM FencingIsExclusive == Spec => []OneHolder
<1>1. DInv => OneHolder
  BY DEF DInv, TokensDiffer, OneHolder, HoldsAttempt
<1> QED
  BY <1>1, Invariance, PTL

(***************************************************************************)
(* Any number of deliveries of an event through any number of partner      *)
(* processes: one of them is accepted, and no answer claims a receipt that *)
(* is not there.                                                           *)
(***************************************************************************)
THEOREM EffectIsOnce == Spec => []OneEffect
<1>1. DInv => OneEffect
  BY DEF DInv
<1> QED
  BY <1>1, Invariance, PTL

(***************************************************************************)
(* An event is given up only on a permanent refusal or with MaxAttempts    *)
(* attempts behind it, through any crashes and expired leases.             *)
(***************************************************************************)
THEOREM DeadLettersAreJustified == Spec => []DeadLetterJustified
<1>1. DInv => DeadLetterJustified
  BY DEF DInv
<1> QED
  BY <1>1, Invariance, PTL

-----------------------------------------------------------------------------
(* The budget of attempts                                                  *)

Affordable == MaxAttempts + (MaxFaults - faults)

(***************************************************************************)
(* The answer to the attempt under way was dropped: its worker is about to *)
(* die of it, unless it stops waiting before.                              *)
(***************************************************************************)
Dropped(e) ==
    \E r \in requests :
        r.event = e /\ r.attempt = outbox[e].attempt /\ r.stage = "dropped"

(***************************************************************************)
(* An event whose next step may be a claim can afford one more attempt.    *)
(* A worker that still can mark the attempt it was given need not: its     *)
(* mark either ends the event or finds the budget not used up.             *)
(***************************************************************************)
Claimed(e) ==
    /\ outbox[e].status = "delivering"
    /\ outbox[e].lease # "expired"
    /\ Held(e)
    /\ ~ Dropped(e)

Funded(e) ==
    /\ outbox[e].attempt <= Affordable
    /\ ~ Settled(e) /\ ~ Claimed(e) => outbox[e].attempt < Affordable

RequestsAreOld == \A r \in requests : r.attempt <= outbox[r.event].attempt

BudgetInv ==
    /\ faults <= MaxFaults
    /\ RequestsAreOld
    /\ \A e \in Events : Funded(e)

LEMMA InitBudget == Init => BudgetInv
BY DeliveryConstants DEF Init, BudgetInv, RequestsAreOld, Funded, Affordable, Absent

(***************************************************************************)
(* Faults are only spent.                                                  *)
(***************************************************************************)
LEMMA FaultsSpent == TypeOK /\ [Next]_vars => faults' \in Nat /\ faults' <= faults
<1> SUFFICES ASSUME TypeOK, [Next]_vars PROVE faults' \in Nat /\ faults' <= faults
  OBVIOUS
<1>1. faults \in Nat
  BY DEF TypeOK
<1>2. faults' = faults \/ (faults > 0 /\ faults' = faults - 1)
  BY DEF Next, WorkerStep, PartnerStep, AllSettled, Publish, BackoffElapses, LeaseExpires,
         ClaimNextEvent, Send, TimesOut, Mark, Restart, Unreachable, HearAnswer, HearDropped,
         Crash, Conclude, Reject, SelectReceipt, CountAttempt, InsertReceipt, PartnerFails,
         PartnerDrops, vars
<1> QED
  BY <1>1, <1>2

LEMMA RequestsAreOldStep == DInv /\ RequestsAreOld /\ [Next]_vars => RequestsAreOld'
<1> SUFFICES ASSUME DInv, RequestsAreOld, [Next]_vars PROVE RequestsAreOld'
  OBVIOUS
<1>1. TypeOK /\ TypeOK' /\ WorkersHold /\ OutboxGrows
  BY OutboxStep, NextDInv DEF DInv
<1>2. \A e \in Events : outbox[e].attempt \in Nat /\ outbox'[e].attempt \in Nat
  BY <1>1 DEF TypeOK, Rows
<1>3. \A r \in requests : r.event \in Events /\ r.attempt \in Nat
  BY <1>1 DEF TypeOK, Requests
<1>4. \A r \in requests : r.attempt <= outbox'[r.event].attempt
  BY <1>1, <1>2, <1>3 DEF RequestsAreOld, OutboxGrows
<1>5. CASE UNCHANGED requests
  BY <1>4, <1>5 DEF RequestsAreOld
<1>6. CASE \E w \in Workers : Sends(w)
  <2>1. PICK w \in Workers : Sends(w)
    BY <1>6
  <2>2. held[w] \in Events /\ token[w] <= outbox[held[w]].attempt /\ token[w] \in Nat
    BY <1>1, <2>1, HeldByBusy, DeliveryConstants DEF Sends, WorkersHold, TypeOK
  <2>3. token[w] <= outbox'[held[w]].attempt
    BY <1>1, <1>2, <2>2 DEF OutboxGrows
  <2> QED
    BY <1>4, <2>1, <2>3 DEF Sends, RequestsAreOld
<1>7. CASE \E r \in requests : \E stage \in Open \cup Answered : Answers(r, stage)
  <2>1. PICK r \in requests, stage \in Open \cup Answered : Answers(r, stage)
    BY <1>7
  <2> DEFINE s == [r EXCEPT !.stage = stage]
  <2>2. s.event = r.event /\ s.attempt = r.attempt
    BY <1>1 DEF TypeOK, Requests
  <2>3. requests' = (requests \ {r}) \cup {s}
    BY <2>1 DEF Answers, Move
  <2> HIDE DEF s
  <2> QED
    BY <1>4, <2>2, <2>3 DEF RequestsAreOld
<1> QED
  BY <1>5, <1>6, <1>7, RequestsMove

(***************************************************************************)
(* A row that a step leaves alone stays funded when the step spends a      *)
(* fault, or leaves the attempt with its worker.                           *)
(***************************************************************************)
Keeps(e) ==
    /\ Held(e) /\ ~ Dropped(e) => Held(e)'
    /\ Dropped(e)' => Dropped(e)

LEMMA RowKept ==
    ASSUME DInv, DInv', BudgetInv, [Next]_vars, NEW e \in Events,
           outbox'[e] = outbox[e], faults' < faults \/ Keeps(e)
    PROVE  Funded(e)'
<1>1. /\ outbox[e].attempt \in Nat /\ outbox'[e].attempt \in Nat
      /\ faults \in Nat /\ faults' \in Nat /\ faults' <= faults
      /\ MaxAttempts \in Nat /\ MaxFaults \in Nat
  BY FaultsSpent, DeliveryConstants DEF DInv, TypeOK, Rows
<1>2. Funded(e)
  BY DEF BudgetInv
<1>3. outbox'[e].attempt <= Affordable'
  BY <1>1, <1>2 DEF Funded, Affordable
<1>4. CASE faults' < faults
  <2>1. outbox'[e].attempt < Affordable'
    BY <1>1, <1>2, <1>4 DEF Funded, Affordable
  <2> QED
    BY <1>3, <2>1 DEF Funded
<1>5. CASE Keeps(e)
  <2>1. Settled(e)' <=> Settled(e)
    BY DEF Settled
  <2>2. Claimed(e) => Claimed(e)'
    BY <1>5 DEF Claimed, Keeps
  <2>3. outbox[e].attempt < Affordable => outbox'[e].attempt < Affordable'
    BY <1>1 DEF Affordable
  <2> QED
    BY <1>2, <1>3, <2>1, <2>2, <2>3 DEF Funded
<1> QED
  BY <1>4, <1>5

-----------------------------------------------------------------------------
(* The attempt stays with its worker, step by step                         *)

LEMMA NothingMoves ==
    ASSUME DInv, NEW e \in Events, outbox'[e] = outbox[e], UNCHANGED <<held, token, requests>>
    PROVE  Keeps(e)
BY DEF Keeps, Held, Dropped

LEMMA SendKeeps ==
    ASSUME DInv, NEW e \in Events, NEW w \in Workers, Send(w)
    PROVE  outbox'[e] = outbox[e] /\ Keeps(e)
BY DEF Send, Keeps, Held, Dropped

LEMMA AnswerKeeps ==
    ASSUME DInv, NEW e \in Events, NEW r \in requests, NEW stage \in Open \cup Answered,
           Answers(r, stage), stage # "dropped", UNCHANGED <<outbox, held, token>>
    PROVE  Keeps(e)
<1> DEFINE s == [r EXCEPT !.stage = stage]
<1>1. s.stage # "dropped"
  BY DEF DInv, TypeOK, Requests
<1>2. requests' = (requests \ {r}) \cup {s}
  BY DEF Answers, Move
<1> HIDE DEF s
<1> QED
  BY <1>1, <1>2 DEF Keeps, Held, Dropped

(***************************************************************************)
(* A worker that lets go of an attempt that is not the row's leaves the    *)
(* row's own holder where it is.                                           *)
(***************************************************************************)
LEMMA LetGoKeeps ==
    ASSUME DInv, NEW e \in Events, NEW w \in Workers, NEW where, LetGo(w, where),
           outbox'[e] = outbox[e], UNCHANGED requests,
           held[w] = e /\ token[w] = outbox[e].attempt => Dropped(e)
    PROVE  Keeps(e)
<1>1. /\ held' = [held EXCEPT ![w] = NoEvent]
      /\ token' = [token EXCEPT ![w] = 0]
      /\ DOMAIN held = Workers /\ DOMAIN token = Workers
  BY DEF LetGo, DInv, TypeOK
<1>2. Dropped(e)' => Dropped(e)
  BY DEF Dropped
<1>3. ASSUME Held(e), ~ Dropped(e) PROVE Held(e)'
  <2>1. PICK v \in Workers : held[v] = e /\ token[v] = outbox[e].attempt
    BY <1>3 DEF Held
  <2>2. v # w
    BY <1>3, <2>1
  <2>3. held'[v] = e /\ token'[v] = outbox'[e].attempt
    BY <1>1, <2>1, <2>2
  <2> QED
    BY <2>3 DEF Held
<1> QED
  BY <1>2, <1>3 DEF Keeps

-----------------------------------------------------------------------------
(* The budget, step by step                                                *)

LEMMA PublishFunds ==
    ASSUME DInv, DInv', BudgetInv, [Next]_vars, NEW o \in Events, NEW e \in Events, Publish(o)
    PROVE  Funded(e)'
<1>1. outbox'[o].attempt = outbox[o].attempt /\ OthersStay(o) /\ UNCHANGED faults
  BY PublishWrites DEF DInv, Publish
<1>2. CASE e = o
  <2>1. outbox[e].attempt < Affordable
    BY <1>2 DEF BudgetInv, Funded, Publish, Settled, Claimed
  <2>2. outbox[e].attempt \in Nat /\ Affordable \in Int
    BY DeliveryConstants DEF DInv, TypeOK, Rows, Affordable
  <2> QED
    BY <1>1, <1>2, <2>1, <2>2 DEF Funded, Affordable
<1>3. CASE e # o
  <2>1. outbox'[e] = outbox[e]
    BY <1>1, <1>3 DEF OthersStay
  <2>2. Keeps(e)
    BY <2>1, NothingMoves DEF Publish, worker, partner
  <2> QED
    BY <2>1, <2>2, RowKept
<1> QED
  BY <1>2, <1>3

LEMMA ExpiryFunds ==
    ASSUME DInv, DInv', BudgetInv, [Next]_vars, NEW o \in Events, NEW e \in Events,
           LeaseExpires(o)
    PROVE  Funded(e)'
<1>1. outbox'[o].attempt = outbox[o].attempt /\ OthersStay(o)
  BY ExpiryWrites DEF DInv
<1>2. CASE e = o
  <2>1. /\ outbox[e].attempt \in Nat /\ faults \in Nat
        /\ MaxAttempts \in Nat /\ MaxFaults \in Nat
    BY DeliveryConstants DEF DInv, TypeOK, Rows
  <2>2. Funded(e) /\ ~ Settled(e)
    BY <1>2 DEF BudgetInv, LeaseExpires, Settled
  <2>3. CASE ~ Held(o) /\ UNCHANGED faults
    <3>1. ~ Claimed(e)
      BY <1>2, <2>3 DEF Claimed
    <3> QED
      BY <1>1, <1>2, <2>1, <2>2, <2>3, <3>1 DEF Funded, Affordable
  <2>4. CASE faults > 0 /\ faults' = faults - 1
    BY <1>1, <1>2, <2>1, <2>2, <2>4 DEF Funded, Affordable
  <2> QED
    BY <2>3, <2>4 DEF LeaseExpires
<1>3. CASE e # o
  <2>1. outbox'[e] = outbox[e]
    BY <1>1, <1>3 DEF OthersStay
  <2>2. Keeps(e)
    BY <2>1, NothingMoves DEF LeaseExpires, worker, partner
  <2> QED
    BY <2>1, <2>2, RowKept
<1> QED
  BY <1>2, <1>3

(***************************************************************************)
(* A claim takes an attempt that the event can afford, and no request of   *)
(* that attempt exists yet.                                                *)
(***************************************************************************)
LEMMA ClaimFunds ==
    ASSUME DInv, DInv', BudgetInv, [Next]_vars, NEW w \in Workers, NEW e \in Events,
           ClaimNextEvent(w)
    PROVE  Funded(e)'
<1>1. PICK o \in Events :
          /\ Candidate(o)
          /\ outbox' = [outbox EXCEPT ![o].status = "delivering",
                                      ![o].attempt = @ + 1,
                                      ![o].lease = "live"]
          /\ held' = [held EXCEPT ![w] = o]
          /\ token' = [token EXCEPT ![w] = outbox[o].attempt + 1]
          /\ pc[w] = "poll" /\ UNCHANGED <<requests, faults>>
  BY DEF ClaimNextEvent, partner
<1>2. DOMAIN outbox = Events /\ outbox[o] \in Rows /\ held[w] = NoEvent
      /\ DOMAIN held = Workers /\ DOMAIN token = Workers
  BY <1>1 DEF DInv, TypeOK, WorkersHold
<1>3. /\ outbox'[o].attempt = outbox[o].attempt + 1
      /\ outbox'[o].lease = "live"
      /\ outbox'[o].status = "delivering"
      /\ \A d \in Events \ {o} : outbox'[d] = outbox[d]
  BY <1>1, <1>2 DEF Rows
<1>4. CASE e = o
  <2>1. Claimable(e)
    BY <1>1, <1>4 DEF Candidate
  <2>2. outbox[e].attempt < Affordable
    BY <2>1 DEF Claimable, BudgetInv, Funded, Settled, Claimed
  <2>3. outbox[e].attempt \in Nat /\ Affordable \in Int /\ Affordable' = Affordable
    BY <1>1, DeliveryConstants DEF DInv, TypeOK, Rows, Affordable
  <2>4. outbox'[e].attempt <= Affordable'
    BY <1>3, <1>4, <2>2, <2>3
  <2>5. Held(e)'
    BY <1>1, <1>2, <1>3, <1>4 DEF Held
  <2>6. ~ Dropped(e)'
    <3>1. ASSUME NEW r \in requests, r.event = e, r.attempt = outbox'[e].attempt PROVE FALSE
      <4>1. r.attempt <= outbox[e].attempt
        BY <3>1 DEF BudgetInv, RequestsAreOld
      <4> QED
        BY <1>3, <1>4, <2>3, <3>1, <4>1
    <3> QED
      BY <1>1, <3>1 DEF Dropped
  <2> QED
    BY <1>3, <1>4, <2>4, <2>5, <2>6 DEF Funded, Claimed
<1>5. CASE e # o
  <2>1. outbox'[e] = outbox[e]
    BY <1>3, <1>5
  <2>2. Dropped(e)' => Dropped(e)
    BY <1>1, <2>1 DEF Dropped
  <2>3. ASSUME Held(e) PROVE Held(e)'
    <3>1. PICK v \in Workers : held[v] = e /\ token[v] = outbox[e].attempt
      BY <2>3 DEF Held
    <3>2. v # w
      BY <1>2, <3>1, DeliveryConstants
    <3>3. held'[v] = e /\ token'[v] = outbox'[e].attempt
      BY <1>1, <1>2, <2>1, <3>1, <3>2
    <3> QED
      BY <3>3 DEF Held
  <2> QED
    BY <2>1, <2>2, <2>3, RowKept DEF Keeps
<1> QED
  BY <1>4, <1>5

(***************************************************************************)
(* A mark settles the event, or finds its budget not used up; a stale one  *)
(* was not the row's attempt.                                              *)
(***************************************************************************)
LEMMA MarkFunds ==
    ASSUME DInv, DInv', BudgetInv, [Next]_vars, NEW w \in Workers, NEW e \in Events, Mark(w)
    PROVE  Funded(e)'
<1>1. held[w] \in Events /\ UNCHANGED <<faults, requests>> /\ LetGo(w, "poll") /\ TypeOK
  BY HeldByBusy DEF DInv, Mark, partner
<1>2. CASE e # held[w]
  <2>1. outbox'[e] = outbox[e]
    BY <1>1, <1>2, MarkTouchesItsRow DEF OthersStay
  <2>2. Keeps(e)
    BY <1>1, <1>2, <2>1, LetGoKeeps
  <2> QED
    BY <2>1, <2>2, RowKept
<1>3. CASE e = held[w]
  <2>1. /\ outbox'[e].attempt = outbox[e].attempt
        /\ outbox[e].attempt <= Affordable
        /\ outbox[e].attempt \in Nat
    BY <1>1, <1>3, MarkTouchesItsRow DEF BudgetInv, Funded, TypeOK, Rows
  <2>2. CASE MarkDelivered(w)
    BY <1>1, <1>3, <2>1, <2>2, DeliveredWrites DEF Funded, Affordable, Settled
  <2>3. CASE MarkFailedAttempt(w)
    <3>1. CASE outcome[w] = "transient" /\ ~ Exhausted(w)
      <4>1. outbox[e].attempt = token[w] /\ token[w] < MaxAttempts
        BY <1>1, <1>3, <2>3, <3>1, DeliveryConstants
        DEF MarkFailedAttempt, HoldsAttempt, Exhausted, TypeOK
      <4>2. MaxAttempts <= Affordable
        BY <1>1, DeliveryConstants DEF BudgetInv, Affordable, TypeOK
      <4>3. outbox[e].attempt < Affordable
        BY <1>1, <2>1, <4>1, <4>2, DeliveryConstants DEF Affordable, TypeOK
      <4> QED
        BY <1>1, <2>1, <4>3 DEF Funded, Affordable
    <3>2. CASE ~ (outcome[w] = "transient" /\ ~ Exhausted(w))
      <4>1. outbox'[e].status = "dead_letter"
        BY <1>1, <1>3, <2>3, <3>2, FailedWrites
      <4> QED
        BY <1>1, <2>1, <4>1 DEF Funded, Affordable, Settled
    <3> QED
      BY <3>1, <3>2
  <2>4. CASE StaleAttempt(w)
    <3>1. outbox'[e] = outbox[e]
      BY <2>4 DEF StaleAttempt
    <3>2. CASE outbox[e].status = "delivering"
      <4>1. token[w] # outbox[e].attempt
        BY <1>3, <2>4, <3>2 DEF StaleAttempt, HoldsAttempt
      <4>2. Keeps(e)
        BY <1>1, <3>1, <4>1, LetGoKeeps
      <4> QED
        BY <3>1, <4>2, RowKept
    <3>3. CASE outbox[e].status # "delivering"
      <4>1. ~ Settled(e)' => outbox'[e].attempt < Affordable'
        BY <1>1, <3>1, <3>3 DEF BudgetInv, Funded, Settled, Claimed, Affordable
      <4> QED
        BY <1>1, <2>1, <4>1 DEF Funded, Affordable
    <3> QED
      BY <3>2, <3>3
  <2> QED
    BY <2>2, <2>3, <2>4 DEF Mark
<1> QED
  BY <1>2, <1>3

LEMMA WorkerEndFunds ==
    ASSUME DInv, DInv', BudgetInv, [Next]_vars, NEW w \in Workers, NEW e \in Events,
           HearDropped(w) \/ Crash(w)
    PROVE  Funded(e)'
<1>1. outbox'[e] = outbox[e]
  BY DEF HearDropped, Crash
<1>2. CASE Crash(w)
  <2>1. faults' < faults
    BY <1>2 DEF Crash, DInv, TypeOK
  <2> QED
    BY <1>1, <2>1, RowKept
<1>3. CASE HearDropped(w)
  <2>1. held[w] = e /\ token[w] = outbox[e].attempt => Dropped(e)
    BY <1>3 DEF HearDropped, Dropped
  <2>2. LetGo(w, "down") /\ UNCHANGED requests
    BY <1>3 DEF HearDropped, partner
  <2> QED
    BY <1>1, <2>1, <2>2, LetGoKeeps, RowKept
<1> QED
  BY <1>2, <1>3

LEMMA PartnerFunds ==
    ASSUME DInv, DInv', BudgetInv, [Next]_vars, NEW r \in requests, NEW e \in Events,
           PartnerStep(r)
    PROVE  Funded(e)'
<1>1. outbox'[e] = outbox[e] /\ UNCHANGED <<outbox, held, token>>
  BY DEF PartnerStep, Reject, SelectReceipt, CountAttempt, InsertReceipt, PartnerFails,
         PartnerDrops, worker
<1>2. CASE PartnerDrops(r)
  <2>1. faults' < faults
    BY <1>2 DEF PartnerDrops, DInv, TypeOK
  <2> QED
    BY <1>1, <2>1, RowKept
<1>3. CASE Reject(r) \/ SelectReceipt(r) \/ CountAttempt(r) \/ InsertReceipt(r) \/ PartnerFails(r)
  <2>1. \E stage \in (Open \cup Answered) \ {"dropped"} : Answers(r, stage)
    BY <1>3 DEF Reject, SelectReceipt, CountAttempt, InsertReceipt, PartnerFails, Answers,
       Answered, Open
  <2>2. Keeps(e)
    BY <1>1, <2>1, AnswerKeeps
  <2> QED
    BY <1>1, <2>2, RowKept
<1> QED
  BY <1>2, <1>3 DEF PartnerStep

LEMMA NextBudget == DInv /\ DInv' /\ BudgetInv /\ [Next]_vars => BudgetInv'
<1> SUFFICES ASSUME DInv, DInv', BudgetInv, [Next]_vars PROVE BudgetInv'
  OBVIOUS
<1>a. faults' <= MaxFaults
  <2>1. TypeOK /\ faults <= MaxFaults
    BY DEF DInv, BudgetInv
  <2>2. faults \in Nat /\ faults' \in Nat /\ faults' <= faults
    BY <2>1, FaultsSpent DEF TypeOK
  <2> QED
    BY <2>1, <2>2, DeliveryConstants
<1>b. RequestsAreOld'
  BY RequestsAreOldStep DEF BudgetInv
<1> SUFFICES ASSUME NEW e \in Events PROVE Funded(e)'
  BY <1>a, <1>b DEF BudgetInv
<1>1. CASE \E o \in Events : Publish(o)
  BY <1>1, PublishFunds
<1>2. CASE \E o \in Events : LeaseExpires(o)
  BY <1>2, ExpiryFunds
<1>3. CASE \E w \in Workers : ClaimNextEvent(w)
  BY <1>3, ClaimFunds
<1>4. CASE \E w \in Workers : Mark(w)
  BY <1>4, MarkFunds
<1>5. CASE \E w \in Workers : HearDropped(w) \/ Crash(w)
  BY <1>5, WorkerEndFunds
<1>6. CASE \E r \in requests : PartnerStep(r)
  BY <1>6, PartnerFunds
<1>7. CASE \E w \in Workers : Send(w)
  BY <1>7, SendKeeps, RowKept
<1>8. CASE outbox' = outbox /\ UNCHANGED <<held, token, requests>>
  BY <1>8, NothingMoves, RowKept
<1>9. CASE \/ \E o \in Events : BackoffElapses(o)
           \/ \E w \in Workers : TimesOut(w) \/ Restart(w) \/ Unreachable(w) \/ HearAnswer(w)
           \/ AllSettled \/ UNCHANGED vars
  BY <1>8, <1>9 DEF BackoffElapses, TimesOut, Restart, Unreachable, HearAnswer, Conclude,
     AllSettled, worker, partner, vars
<1> QED
  BY <1>1, <1>2, <1>3, <1>4, <1>5, <1>6, <1>7, <1>9 DEF Next, WorkerStep

(***************************************************************************)
(* An event is tried more often than the budget says only when attempts    *)
(* ended unmarked, and never more often than that: with no crash, hang or  *)
(* dropped connection the budget is exact.                                 *)
(***************************************************************************)
THEOREM BudgetIsExceededByFaultsOnly == Spec => []OverrunIsPaid
<1>1. BudgetInv => OverrunIsPaid
  BY DEF BudgetInv, Funded, Affordable, OverrunIsPaid
<1> QED
  BY <1>1, InitBudget, NextBudget, Invariance, PTL DEF Spec

-----------------------------------------------------------------------------
(* The refinement                                                          *)

StateOf(row) == IF row.status \in {"pending", "delivering"} THEN "open"
                ELSE IF row.status = "dead_letter" THEN "dead" ELSE row.status

States == [e \in Events |-> StateOf(outbox[e])]

LEMMA InitPromise == Init => Promise!Init
BY DEF Init, Promise!Init, Absent

LEMMA StatesMove ==
    ASSUME NEW e \in Events, OthersStay(e)
    PROVE  States' = [States EXCEPT ![e] = StateOf(outbox'[e])]
BY DEF States, StateOf, OthersStay

LEMMA StateAt == \A e \in Events : States[e] = StateOf(outbox[e])
BY DEF States

LEMMA ReceiveStep ==
    ASSUME DInv, DInv', NEW r \in requests, r.event \notin receipts,
           receipts' = receipts \cup {r.event}, UNCHANGED outbox
    PROVE  Promise!Receive(r.event)
BY DEF DInv, TypeOK, Requests, RequestsArePublished, Promise!Receive

LEMMA StepPromise == DInv /\ DInv' /\ [Next]_vars => [Promise!Next]_(Promise!delivery)
<1> SUFFICES ASSUME DInv, DInv', [Next]_vars PROVE Promise!Next \/ UNCHANGED Promise!delivery
  OBVIOUS
<1>1. CASE UNCHANGED outbox
  <2>1. CASE UNCHANGED receipts
    BY <1>1, <2>1 DEF Promise!delivery
  <2>2. CASE receipts' # receipts
    <3>1. PICK r \in requests : r.event \notin receipts /\ receipts' = receipts \cup {r.event}
      BY <2>2, RequestsMove DEF Sends, Answers
    <3>2. r.event \in Events
      BY DEF DInv, TypeOK, Requests
    <3> QED
      BY <1>1, <3>1, <3>2, ReceiveStep DEF Promise!Next
  <2> QED
    BY <2>1, <2>2
<1>2. CASE \E e \in Events : Moved(e)
  <2>1. PICK e \in Events : Moved(e)
    BY <1>2
  <2>2. States' = [States EXCEPT ![e] = StateOf(outbox'[e])] /\ UNCHANGED receipts
    BY <2>1, StatesMove DEF Moved
  <2>3. CASE outbox[e].status = "absent" /\ outbox'[e].status = "pending"
    <3>1. States[e] = "absent" /\ States' = [States EXCEPT ![e] = "open"]
      BY <2>2, <2>3, StateAt DEF StateOf
    <3>2. Promise!Publish(e)
      BY <2>2, <3>1 DEF Promise!Publish, States, StateOf
    <3> QED
      BY <3>2 DEF Promise!Next
  <2>4. CASE /\ outbox[e].status \in {"pending", "delivering"}
             /\ outbox'[e].status = "delivering"
    <3>1. States' = States
      BY <2>2, <2>4, StateAt DEF StateOf, States
    <3> QED
      BY <2>2, <3>1 DEF Promise!delivery, States, StateOf
  <2> QED
    BY <2>1, <2>3, <2>4 DEF Moved
<1>3. CASE \E w \in Workers : Mark(w) /\ Marked(w)
  <2>1. PICK w \in Workers : Mark(w) /\ Marked(w)
    BY <1>3
  <2>2. PICK e \in Events : e = held[w]
    BY <2>1 DEF Marked
  <2>3. /\ States' = [States EXCEPT ![e] = StateOf(outbox'[e])]
        /\ UNCHANGED receipts
        /\ States[e] = "open"
    BY <2>1, <2>2, StatesMove, StateAt DEF Marked, Mark, partner, HoldsAttempt, StateOf
  <2>4. CASE outbox'[e].status = "delivered" /\ outcome[w] = "delivered"
    <3>1. e \in receipts
      BY <2>2, <2>4 DEF DInv, DeliveredIsReceived
    <3>2. States' = [States EXCEPT ![e] = "delivered"]
      BY <2>3, <2>4 DEF StateOf
    <3>3. Promise!Deliver(e)
      BY <2>3, <3>1, <3>2 DEF Promise!Deliver, States, StateOf
    <3> QED
      BY <3>3 DEF Promise!Next
  <2>5. CASE outbox'[e].status = "pending"
    <3>1. States' = States
      BY <2>3, <2>5 DEF StateOf, States
    <3> QED
      BY <2>3, <3>1 DEF Promise!delivery, States, StateOf
  <2>6. CASE outbox'[e].status = "dead_letter"
    <3>1. States' = [States EXCEPT ![e] = "dead"]
      BY <2>3, <2>6 DEF StateOf
    <3>2. Promise!GiveUp(e)
      BY <2>3, <3>1 DEF Promise!GiveUp, States, StateOf
    <3> QED
      BY <3>2 DEF Promise!Next
  <2> QED
    BY <2>1, <2>2, <2>4, <2>5, <2>6 DEF Marked
<1> QED
  BY <1>1, <1>2, <1>3, OutboxMoves

(***************************************************************************)
(* Any number of workers and partner processes, with crashes, timeouts and *)
(* expired leases, implement at-least-once delivery: what the outbox calls *)
(* delivered the partner has, and a settled event is settled for good.     *)
(***************************************************************************)
THEOREM DeliveryIsAtLeastOnce == Spec => ImplementsAtLeastOnce
BY InitPromise, StepPromise, Invariance, PTL
   DEF Spec, ImplementsAtLeastOnce, Promise!Spec
=============================================================================
