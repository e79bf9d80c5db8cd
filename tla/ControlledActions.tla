-------------------------- MODULE ControlledActions --------------------------
(***************************************************************************)
(* Actions that the assistant proposes, an auditor approves and an         *)
(* operator executes (actions.py and its four endpoints in api.py).        *)
(*                                                                         *)
(* A proposal awaits three calls, the rate limit, the planner and the      *)
(* write, and holds no thread of the API's pool from one to the next, so   *)
(* any number of requests may be in between.  An approval and an execution *)
(* are one transaction each, from SELECT .. FOR UPDATE to COMMIT, and two  *)
(* steps: a request decides on the row it read, and writes later.  A call  *)
(* that is refused, or only reads, changes nothing and is no step.         *)
(***************************************************************************)
EXTENDS Integers, Sequences, FiniteSets

CONSTANTS
    Requests,     \* requests in flight; one that has ended lends its name to the next
    Operators,    \* subjects with the operator role
    Auditors,     \* subjects with the auditor role; some may have both
    Nobody,
    Actions,      \* action_id values
    NoAction,
    Limit         \* ACTION_RATE_LIMIT_PER_MINUTE

Subjects == Operators \cup Auditors

ASSUME ActionConstants ==
    /\ Nobody \notin Subjects
    /\ NoAction \notin Actions
    /\ IsFiniteSet(Requests)
    /\ IsFiniteSet(Actions)
    /\ Limit \in 1 .. 1000

VARIABLES
    actions,   \* action_requests, by action_id
    recent,    \* the actions created within the last minute
    audit,     \* action_audit_events, by action, in the order they were written
    pc,        \* where each request is
    who,       \* the subject it is of
    target,    \* the action whose row it has locked
    peak       \* not in the code: the most proposals of each operator that overlapped

vars == <<actions, recent, audit, pc, who, target, peak>>

Rows ==
    [status    : {"absent", "pending", "approved", "executed"},
     requester : Subjects \cup {Nobody},
     approver  : Subjects \cup {Nobody}]

Absent == [status |-> "absent", requester |-> Nobody, approver |-> Nobody]

Entries == [type : {"proposed", "approved", "executed"}, actor : Subjects]

TypeOK ==
    /\ actions \in [Actions -> Rows]
    /\ recent \subseteq Actions
    /\ audit \in [Actions -> Seq(Entries)]
    /\ pc \in [Requests -> {"idle", "plan", "approve", "execute"}]
    /\ who \in [Requests -> Subjects \cup {Nobody}]
    /\ target \in [Requests -> Actions \cup {NoAction}]
    /\ peak \in [Operators -> Nat]

Init ==
    /\ actions = [a \in Actions |-> Absent]
    /\ recent = {}
    /\ audit = [a \in Actions |-> <<>>]
    /\ pc = [r \in Requests |-> "idle"]
    /\ who = [r \in Requests |-> Nobody]
    /\ target = [r \in Requests |-> NoAction]
    /\ peak = [p \in Operators |-> 0]

Begin(r, p, a, where) ==
    /\ pc[r] = "idle"
    /\ pc' = [pc EXCEPT ![r] = where]
    /\ who' = [who EXCEPT ![r] = p]
    /\ target' = [target EXCEPT ![r] = a]

End(r) ==
    /\ pc' = [pc EXCEPT ![r] = "idle"]
    /\ who' = [who EXCEPT ![r] = Nobody]
    /\ target' = [target EXCEPT ![r] = NoAction]

Log(a, type, p) ==
    audit' = [audit EXCEPT ![a] = Append(@, [type |-> type, actor |-> p])]

-----------------------------------------------------------------------------
(* Proposals                                                               *)

RecentOf(p) == {a \in recent : actions[a].requester = p}

\* Fault: no enforce_action_rate_limit before the planner is called.
FaultNoLimit(p) == TRUE

UnderLimit(p) == Cardinality(RecentOf(p)) < Limit

\* The proposals of p that have passed the check and have not been written.
Planners(p) == {r \in Requests : pc[r] = "plan" /\ who[r] = p}

Overlap(p) ==
    peak' = [peak EXCEPT ![p] =
                IF Cardinality(Planners(p)) < @ THEN @ ELSE Cardinality(Planners(p)) + 1]

(***************************************************************************)
(* enforce_action_rate_limit: its own transaction, over before the planner *)
(* is called.                                                              *)
(***************************************************************************)
EnforceRateLimit(r, p) ==
    /\ p \in Operators
    /\ UnderLimit(p)
    /\ Begin(r, p, NoAction, "plan")
    /\ Overlap(p)
    /\ UNCHANGED <<actions, recent, audit>>

(***************************************************************************)
(* The planner has answered: create_action_request.                        *)
(***************************************************************************)
CreateActionRequest(r, a) ==
    /\ pc[r] = "plan"
    /\ actions[a].status = "absent"
    /\ actions' = [actions EXCEPT ![a] =
                      [status |-> "pending", requester |-> who[r], approver |-> Nobody]]
    /\ recent' = recent \cup {a}
    /\ Log(a, "proposed", who[r])
    /\ End(r)
    /\ UNCHANGED peak

MinutePasses(a) ==
    /\ a \in recent
    /\ recent' = recent \ {a}
    /\ UNCHANGED <<actions, audit, pc, who, target, peak>>

-----------------------------------------------------------------------------
(* Approval and execution                                                  *)

\* Fault: SELECT * FROM action_requests without FOR UPDATE.
FaultNoRowLock(a) == FALSE

RowLocked(a) == \E r \in Requests : target[r] = a

\* Fault: an approved action is approved again, not refused.
FaultApproveAgain(a, p) ==
    /\ actions[a].status \in {"pending", "approved"}
    /\ actions[a].requester # p

\* Fault: the approver is not compared with the requester.
FaultSelfApproval(a, p) == actions[a].status = "pending"

MayApprove(a, p) ==
    /\ actions[a].status = "pending"
    /\ actions[a].requester # p

(***************************************************************************)
(* approve_action up to its UPDATE.                                        *)
(***************************************************************************)
BeginApproval(r, p, a) ==
    /\ p \in Auditors
    /\ ~ RowLocked(a)
    /\ MayApprove(a, p)
    /\ Begin(r, p, a, "approve")
    /\ UNCHANGED <<actions, recent, audit, peak>>

Approve(r) ==
    /\ pc[r] = "approve"
    /\ actions' = [actions EXCEPT ![target[r]].status = "approved",
                                  ![target[r]].approver = who[r]]
    /\ Log(target[r], "approved", who[r])
    /\ End(r)
    /\ UNCHANGED <<recent, peak>>

\* Fault: an executed action is executed again, not just returned.
FaultExecuteAgain(a) == actions[a].status \in {"approved", "executed"}

MayExecute(a) == actions[a].status = "approved"

(***************************************************************************)
(* execute_action up to its UPDATE.                                        *)
(***************************************************************************)
BeginExecution(r, p, a) ==
    /\ p \in Operators
    /\ ~ RowLocked(a)
    /\ MayExecute(a)
    /\ Begin(r, p, a, "execute")
    /\ UNCHANGED <<actions, recent, audit, peak>>

Execute(r) ==
    /\ pc[r] = "execute"
    /\ actions' = [actions EXCEPT ![target[r]].status = "executed"]
    /\ Log(target[r], "executed", who[r])
    /\ End(r)
    /\ UNCHANGED <<recent, peak>>

\* Fault: a failure is audited under a type the table does not allow.
FaultUnknownEvent(r) ==
    /\ target[r] # NoAction
    /\ Log(target[r], "failed", who[r])
    /\ End(r)
    /\ UNCHANGED <<actions, recent, peak>>

(***************************************************************************)
(* The planner refuses or is away, or any psycopg.Error rolls the          *)
(* transaction back, or the process dies.  (A COMMIT whose acknowledgement *)
(* is lost is the step itself; the caller gets the same 503.)              *)
(***************************************************************************)
Fail(r) ==
    /\ pc[r] # "idle"
    /\ End(r)
    /\ UNCHANGED <<actions, recent, audit, peak>>

AllExecuted ==
    /\ \A a \in Actions : actions[a].status = "executed"
    /\ UNCHANGED vars

Next ==
    \/ \E r \in Requests :
          \/ \E p \in Operators : EnforceRateLimit(r, p)
          \/ \E a \in Actions : CreateActionRequest(r, a)
          \/ \E p \in Auditors, a \in Actions : BeginApproval(r, p, a)
          \/ \E p \in Operators, a \in Actions : BeginExecution(r, p, a)
          \/ Approve(r)
          \/ Execute(r)
          \/ Fail(r)
    \/ \E a \in Actions : MinutePasses(a)
    \/ AllExecuted

Spec == Init /\ [][Next]_vars

-----------------------------------------------------------------------------
(* Properties                                                              *)

(***************************************************************************)
(* The audit shows who did exactly what, once and in order, whatever calls *)
(* race: one proposal by the requester, one approval by the approver of    *)
(* record, one execution ("Ejecutar dos veces .. no crea otro evento").    *)
(***************************************************************************)
AuditTellsAll ==
    \A a \in Actions :
        LET row == actions[a]
            n == CASE row.status = "absent" -> 0
                   [] row.status = "pending" -> 1
                   [] row.status = "approved" -> 2
                   [] row.status = "executed" -> 3
        IN  /\ Len(audit[a]) = n
            /\ n >= 1 => audit[a][1] = [type |-> "proposed", actor |-> row.requester]
            /\ n >= 2 => audit[a][2] = [type |-> "approved", actor |-> row.approver]
            /\ n = 3 => audit[a][3].type = "executed"

(***************************************************************************)
(* Nothing is executed on one person's word: an auditor other than the     *)
(* requester approved it first.                                            *)
(***************************************************************************)
FourEyes ==
    \A a \in Actions : actions[a].status \in {"approved", "executed"} =>
        /\ actions[a].approver \in Auditors \ {actions[a].requester}
        /\ actions[a].requester \in Operators

(***************************************************************************)
(* An approval, once given, is not replaced by that of an auditor who      *)
(* read the action before, and an execution is never undone.               *)
(***************************************************************************)
DecisionsStand ==
    [][\A a \in Actions :
          /\ actions[a].approver # Nobody => actions'[a].approver = actions[a].approver
          /\ actions[a].status = "executed" => actions'[a] = actions[a]]_vars

(***************************************************************************)
(* The limit is checked before the planner runs and the action is written  *)
(* after it, so requests of one subject can overtake one another, and      *)
(* nothing limits how many are in between.  The excess is bounded by that  *)
(* number alone: at most Limit - 1 actions were seen by the last check,    *)
(* and what overlapped it adds one each.  A subject whose requests never   *)
(* overlap stays within the limit.                                         *)
(***************************************************************************)
ExcessIsBounded ==
    \A p \in Operators :
        Cardinality(RecentOf(p)) + Cardinality(Planners(p)) <= Limit - 1 + peak[p]

(***************************************************************************)
(* The audit alone, whatever rows, locks and requests are behind it, is a  *)
(* trail of proposals, approvals by another and executions to which        *)
(* entries are only added: who reads action_audit_events has seen it all.  *)
(***************************************************************************)
Trail == INSTANCE ActionTrail WITH trail <- audit

ImplementsTrail == Trail!Spec
=============================================================================
