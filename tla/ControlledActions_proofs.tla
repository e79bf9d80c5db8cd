---------------------- MODULE ControlledActions_proofs ----------------------
(***************************************************************************)
(* Proofs about ControlledActions, for any number of requests in flight,   *)
(* any subjects and any number of actions.                                 *)
(***************************************************************************)
EXTENDS ControlledActions, FiniteSetTheorems, TLAPS

-----------------------------------------------------------------------------
(* The inductive invariant                                                 *)

(***************************************************************************)
(* What a request read under its row lock is still so: the guards of its   *)
(* call hold when it writes.                                               *)
(***************************************************************************)
Planning(r) == who[r] \in Operators /\ target[r] = NoAction

Approving(r) ==
    /\ who[r] \in Auditors
    /\ target[r] \in Actions
    /\ actions[target[r]].status = "pending"
    /\ actions[target[r]].requester # who[r]

Executing(r) ==
    /\ who[r] \in Operators
    /\ target[r] \in Actions
    /\ actions[target[r]].status = "approved"

RequestInv ==
    \A r \in Requests :
        /\ pc[r] = "idle" => target[r] = NoAction
        /\ pc[r] = "plan" => Planning(r)
        /\ pc[r] = "approve" => Approving(r)
        /\ pc[r] = "execute" => Executing(r)

(***************************************************************************)
(* A row lock has one holder.                                              *)
(***************************************************************************)
LockInv ==
    \A r, u \in Requests : target[r] # NoAction /\ target[r] = target[u] => r = u

RowInv ==
    \A a \in Actions :
        /\ actions[a].status \in {"absent", "pending"} => actions[a].approver = Nobody
        /\ actions[a].status = "pending" => actions[a].requester \in Operators

IInv == TypeOK /\ RequestInv /\ LockInv /\ RowInv /\ FourEyes

LEMMA Typing ==
    /\ Absent \in Rows
    /\ \A p \in Subjects :
          [status |-> "pending", requester |-> p, approver |-> Nobody] \in Rows
    /\ Operators \subseteq Subjects /\ Auditors \subseteq Subjects
BY DEF Absent, Rows, Subjects

LEMMA InitHolds == Init => IInv
<1> SUFFICES ASSUME Init PROVE IInv
  OBVIOUS
<1>1. TypeOK
  BY Typing DEF Init, TypeOK
<1>2. RequestInv /\ LockInv
  BY DEF Init, RequestInv, LockInv
<1>3. RowInv /\ FourEyes
  BY DEF Init, RowInv, FourEyes, Absent
<1> QED
  BY <1>1, <1>2, <1>3 DEF IInv

-----------------------------------------------------------------------------
(* Types                                                                   *)

LEMMA LogType ==
    ASSUME TypeOK, NEW a \in Actions, NEW p \in Subjects,
           NEW type \in {"proposed", "approved", "executed"}, Log(a, type, p)
    PROVE  audit' \in [Actions -> Seq(Entries)]
<1>1. [type |-> type, actor |-> p] \in Entries
  BY DEF Entries
<1>2. Append(audit[a], [type |-> type, actor |-> p]) \in Seq(Entries)
  BY <1>1 DEF TypeOK
<1> QED
  BY <1>2 DEF TypeOK, Log

LEMMA BeginType ==
    ASSUME TypeOK, NEW r \in Requests, NEW p \in Subjects,
           NEW a \in Actions \cup {NoAction},
           NEW where \in {"plan", "approve", "execute"},
           Begin(r, p, a, where), UNCHANGED <<actions, recent, audit>>,
           peak' \in [Operators -> Nat]
    PROVE  TypeOK'
BY DEF TypeOK, Begin

(***************************************************************************)
(* The proposals of an operator in flight are finitely many; what peak     *)
(* records is a number, at least one more than those in flight.            *)
(***************************************************************************)
LEMMA PlannersFinite ==
    ASSUME NEW p
    PROVE  IsFiniteSet(Planners(p)) /\ Cardinality(Planners(p)) \in Nat
<1>1. IsFiniteSet(Requests) /\ Planners(p) \subseteq Requests
  BY ActionConstants DEF Planners
<1> QED
  BY <1>1, FS_Subset, FS_CardinalityType

LEMMA OverlapType ==
    ASSUME TypeOK, NEW p \in Operators, Overlap(p)
    PROVE  /\ peak' \in [Operators -> Nat]
           /\ Cardinality(Planners(p)) + 1 <= peak'[p]
           /\ \A q \in Operators \ {p} : peak'[q] = peak[q]
<1> DEFINE n == Cardinality(Planners(p))
<1>1. n \in Nat
  BY PlannersFinite
<1>2. peak' = [peak EXCEPT ![p] = IF n < peak[p] THEN peak[p] ELSE n + 1]
  BY DEF Overlap
<1>3. peak \in [Operators -> Nat]
  BY DEF TypeOK
<1> HIDE DEF n
<1>4. /\ peak' \in [Operators -> Nat]
      /\ n + 1 <= peak'[p]
      /\ \A q \in Operators \ {p} : peak'[q] = peak[q]
  BY <1>1, <1>2, <1>3
<1> QED
  BY <1>4 DEF n

LEMMA CreateType ==
    ASSUME IInv, NEW r \in Requests, NEW a \in Actions, CreateActionRequest(r, a)
    PROVE  TypeOK'
<1>1. who[r] \in Subjects
  BY Typing DEF IInv, RequestInv, Planning, CreateActionRequest
<1>2. audit' \in [Actions -> Seq(Entries)]
  BY <1>1, LogType DEF IInv, CreateActionRequest
<1>3. actions' \in [Actions -> Rows]
  BY <1>1, Typing DEF IInv, TypeOK, CreateActionRequest
<1> QED
  BY <1>2, <1>3 DEF IInv, TypeOK, CreateActionRequest, End

LEMMA ApproveType ==
    ASSUME IInv, NEW r \in Requests, Approve(r)
    PROVE  TypeOK'
<1>1. who[r] \in Subjects /\ target[r] \in Actions
  BY Typing DEF IInv, RequestInv, Approving, Approve
<1>2. audit' \in [Actions -> Seq(Entries)]
  BY <1>1, LogType DEF IInv, Approve
<1>3. actions' \in [Actions -> Rows]
  BY <1>1 DEF IInv, TypeOK, Approve, Rows
<1> QED
  BY <1>2, <1>3 DEF IInv, TypeOK, Approve, End

LEMMA ExecuteType ==
    ASSUME IInv, NEW r \in Requests, Execute(r)
    PROVE  TypeOK'
<1>1. who[r] \in Subjects /\ target[r] \in Actions
  BY Typing DEF IInv, RequestInv, Executing, Execute
<1>2. audit' \in [Actions -> Seq(Entries)]
  BY <1>1, LogType DEF IInv, Execute
<1>3. actions' \in [Actions -> Rows]
  BY <1>1 DEF IInv, TypeOK, Execute, Rows
<1> QED
  BY <1>2, <1>3 DEF IInv, TypeOK, Execute, End

-----------------------------------------------------------------------------
(* Each action                                                             *)

LEMMA RateKeeps ==
    ASSUME IInv, NEW r \in Requests, NEW p \in Operators, EnforceRateLimit(r, p)
    PROVE  IInv'
<1> USE DEF IInv
<1>1. TypeOK'
  BY BeginType, OverlapType, Typing DEF EnforceRateLimit
<1>2. RequestInv'
  BY DEF RequestInv, Planning, Approving, Executing, TypeOK, EnforceRateLimit, Begin
<1>3. LockInv'
  BY DEF LockInv, RequestInv, TypeOK, EnforceRateLimit, Begin
<1>4. RowInv' /\ FourEyes'
  BY DEF RowInv, FourEyes, EnforceRateLimit
<1> QED
  BY <1>1, <1>2, <1>3, <1>4

LEMMA LockKeeps ==
    ASSUME IInv, NEW r \in Requests, NEW p \in Subjects, NEW a \in Actions,
           NEW where \in {"approve", "execute"},
           ~ RowLocked(a), Begin(r, p, a, where)
    PROVE  LockInv'
BY DEF IInv, LockInv, TypeOK, RowLocked, Begin

LEMMA BeginApprovalKeeps ==
    ASSUME IInv, NEW r \in Requests, NEW p \in Auditors, NEW a \in Actions,
           BeginApproval(r, p, a)
    PROVE  IInv'
<1> USE DEF IInv
<1>1. TypeOK'
  BY BeginType, Typing DEF BeginApproval, TypeOK
<1>2. RequestInv'
  BY DEF RequestInv, Planning, Approving, Executing, TypeOK, BeginApproval, Begin, MayApprove
<1>3. LockInv'
  BY LockKeeps, Typing DEF BeginApproval
<1>4. RowInv' /\ FourEyes'
  BY DEF RowInv, FourEyes, BeginApproval
<1> QED
  BY <1>1, <1>2, <1>3, <1>4

LEMMA BeginExecutionKeeps ==
    ASSUME IInv, NEW r \in Requests, NEW p \in Operators, NEW a \in Actions,
           BeginExecution(r, p, a)
    PROVE  IInv'
<1> USE DEF IInv
<1>1. TypeOK'
  BY BeginType, Typing DEF BeginExecution, TypeOK
<1>2. RequestInv'
  BY DEF RequestInv, Planning, Approving, Executing, TypeOK, BeginExecution, Begin, MayExecute
<1>3. LockInv'
  BY LockKeeps, Typing DEF BeginExecution
<1>4. RowInv' /\ FourEyes'
  BY DEF RowInv, FourEyes, BeginExecution
<1> QED
  BY <1>1, <1>2, <1>3, <1>4

(***************************************************************************)
(* A request that ends gives its lock back and disturbs no other, whatever *)
(* it wrote in the row it had locked or in one that did not exist.         *)
(***************************************************************************)
LEMMA EndKeeps ==
    ASSUME IInv, NEW r \in Requests, End(r),
           \A u \in Requests \ {r} : target[u] \in Actions =>
               actions'[target[u]] = actions[target[u]]
    PROVE  RequestInv' /\ LockInv'
<1> USE DEF IInv
<1>1. /\ pc'[r] = "idle" /\ target'[r] = NoAction
      /\ \A u \in Requests \ {r} : pc'[u] = pc[u] /\ who'[u] = who[u] /\ target'[u] = target[u]
  BY DEF End, TypeOK
<1>2. LockInv'
  BY <1>1 DEF LockInv
<1>3. RequestInv'
  <2> SUFFICES ASSUME NEW u \in Requests
               PROVE  /\ pc'[u] = "idle" => target'[u] = NoAction
                      /\ pc'[u] = "plan" => Planning(u)'
                      /\ pc'[u] = "approve" => Approving(u)'
                      /\ pc'[u] = "execute" => Executing(u)'
    BY DEF RequestInv
  <2>1. CASE u = r
    BY <2>1, <1>1
  <2>2. CASE u # r
    BY <2>2, <1>1 DEF RequestInv, Planning, Approving, Executing
  <2> QED
    BY <2>1, <2>2
<1> QED
  BY <1>2, <1>3

LEMMA CreateKeeps ==
    ASSUME IInv, NEW r \in Requests, NEW a \in Actions, CreateActionRequest(r, a)
    PROVE  IInv'
<1> USE DEF IInv
<1>1. TypeOK'
  BY CreateType
<1>2. /\ \A b \in Actions \ {a} : actions'[b] = actions[b]
      /\ actions'[a] = [status |-> "pending", requester |-> who[r], approver |-> Nobody]
      /\ who[r] \in Operators
  BY DEF TypeOK, RequestInv, Planning, CreateActionRequest
<1>3. \A u \in Requests : target[u] # a
  <2> SUFFICES ASSUME NEW u \in Requests PROVE target[u] # a
    OBVIOUS
  <2>1. CASE pc[u] \in {"idle", "plan"}
    <3>1. target[u] = NoAction
      BY <2>1 DEF RequestInv, Planning
    <3> QED
      BY <3>1, ActionConstants
  <2>2. CASE pc[u] \in {"approve", "execute"}
    <3>1. actions[target[u]].status \in {"pending", "approved"}
      BY <2>2 DEF RequestInv, Approving, Executing
    <3> QED
      BY <3>1 DEF CreateActionRequest
  <2>3. pc[u] \in {"idle", "plan", "approve", "execute"}
    BY DEF TypeOK
  <2> QED
    BY <2>1, <2>2, <2>3
<1>4. RequestInv' /\ LockInv'
  BY <1>2, <1>3, EndKeeps DEF CreateActionRequest
<1>5. RowInv'
  BY <1>2 DEF RowInv
<1>6. FourEyes'
  BY <1>2 DEF FourEyes
<1> QED
  BY <1>1, <1>4, <1>5, <1>6

LEMMA ApproveKeeps ==
    ASSUME IInv, NEW r \in Requests, Approve(r)
    PROVE  IInv'
<1> USE DEF IInv
<1> DEFINE a == target[r]
<1>1. TypeOK'
  BY ApproveType
<1>2. Approving(r)
  BY DEF RequestInv, Approve
<1>3. /\ \A b \in Actions \ {a} : actions'[b] = actions[b]
      /\ actions'[a].status = "approved"
      /\ actions'[a].approver = who[r]
      /\ actions'[a].requester = actions[a].requester
  BY <1>2 DEF TypeOK, Rows, Approve, Approving
<1>4. \A u \in Requests \ {r} : target[u] # a
  <2>1. a # NoAction
    BY <1>2, ActionConstants DEF Approving
  <2> QED
    BY <2>1 DEF LockInv
<1>5. RequestInv' /\ LockInv'
  BY <1>3, <1>4, EndKeeps DEF Approve
<1>6. RowInv'
  BY <1>2, <1>3 DEF RowInv, Approving
<1>7. FourEyes'
  BY <1>2, <1>3 DEF FourEyes, RowInv, Approving
<1> QED
  BY <1>1, <1>5, <1>6, <1>7

LEMMA ExecuteKeeps ==
    ASSUME IInv, NEW r \in Requests, Execute(r)
    PROVE  IInv'
<1> USE DEF IInv
<1> DEFINE a == target[r]
<1>1. TypeOK'
  BY ExecuteType
<1>2. Executing(r)
  BY DEF RequestInv, Execute
<1>3. /\ \A b \in Actions \ {a} : actions'[b] = actions[b]
      /\ actions'[a].status = "executed"
      /\ actions'[a].approver = actions[a].approver
      /\ actions'[a].requester = actions[a].requester
  BY <1>2 DEF TypeOK, Rows, Execute, Executing
<1>4. \A u \in Requests \ {r} : target[u] # a
  <2>1. a # NoAction
    BY <1>2, ActionConstants DEF Executing
  <2> QED
    BY <2>1 DEF LockInv
<1>5. RequestInv' /\ LockInv'
  BY <1>3, <1>4, EndKeeps DEF Execute
<1>6. RowInv'
  BY <1>2, <1>3 DEF RowInv, Executing
<1>7. FourEyes'
  BY <1>2, <1>3 DEF FourEyes, Executing
<1> QED
  BY <1>1, <1>5, <1>6, <1>7

LEMMA FailKeeps ==
    ASSUME IInv, NEW r \in Requests, Fail(r)
    PROVE  IInv'
<1> USE DEF IInv
<1>1. TypeOK'
  BY DEF TypeOK, Fail, End
<1>2. RequestInv' /\ LockInv'
  BY EndKeeps DEF Fail
<1>3. RowInv' /\ FourEyes'
  BY DEF RowInv, FourEyes, Fail
<1> QED
  BY <1>1, <1>2, <1>3

LEMMA OtherKeeps ==
    ASSUME IInv, \/ \E a \in Actions : MinutePasses(a)
                 \/ UNCHANGED vars
    PROVE  IInv'
<1>1. UNCHANGED <<actions, audit, pc, who, target, peak>> /\ recent' \subseteq Actions
  BY DEF IInv, TypeOK, MinutePasses, vars
<1> QED
  BY <1>1 DEF IInv, TypeOK, RequestInv, Planning, Approving, Executing, LockInv,
              RowInv, FourEyes

LEMMA NextKeeps == IInv /\ [Next]_vars => IInv'
<1> SUFFICES ASSUME IInv, [Next]_vars PROVE IInv'
  OBVIOUS
<1>1. ASSUME NEW r \in Requests, NEW p \in Operators, EnforceRateLimit(r, p) PROVE IInv'
  BY <1>1, RateKeeps
<1>2. ASSUME NEW r \in Requests, NEW a \in Actions, CreateActionRequest(r, a) PROVE IInv'
  BY <1>2, CreateKeeps
<1>3. ASSUME NEW r \in Requests, NEW p \in Auditors, NEW a \in Actions,
             BeginApproval(r, p, a)
      PROVE  IInv'
  BY <1>3, BeginApprovalKeeps
<1>4. ASSUME NEW r \in Requests, NEW p \in Operators, NEW a \in Actions,
             BeginExecution(r, p, a)
      PROVE  IInv'
  BY <1>4, BeginExecutionKeeps
<1>5. ASSUME NEW r \in Requests, Approve(r) PROVE IInv'
  BY <1>5, ApproveKeeps
<1>6. ASSUME NEW r \in Requests, Execute(r) PROVE IInv'
  BY <1>6, ExecuteKeeps
<1>7. ASSUME NEW r \in Requests, Fail(r) PROVE IInv'
  BY <1>7, FailKeeps
<1>8. CASE (\E a \in Actions : MinutePasses(a)) \/ AllExecuted \/ UNCHANGED vars
  BY <1>8, OtherKeeps DEF AllExecuted
<1> QED
  BY <1>1, <1>2, <1>3, <1>4, <1>5, <1>6, <1>7, <1>8 DEF Next

LEMMA Invariance == Spec => []IInv
BY InitHolds, NextKeeps, PTL DEF Spec

-----------------------------------------------------------------------------

(***************************************************************************)
(* Every variable of the action store and its requests keeps its type.     *)
(***************************************************************************)
THEOREM TypeCorrect == Spec => []TypeOK
<1>1. IInv => TypeOK
  BY DEF IInv
<1> QED
  BY <1>1, Invariance, PTL

(***************************************************************************)
(* What is approved or executed was proposed by an operator and approved   *)
(* by an auditor who is somebody else, whatever calls race.                *)
(***************************************************************************)
THEOREM ApprovedByAnother == Spec => []FourEyes
<1>1. IInv => FourEyes
  BY DEF IInv
<1> QED
  BY <1>1, Invariance, PTL

-----------------------------------------------------------------------------
(* Decisions                                                               *)

Stands(a) ==
    /\ actions[a].approver # Nobody => actions'[a].approver = actions[a].approver
    /\ actions[a].status = "executed" => actions'[a] = actions[a]

LEMMA CreateStands ==
    ASSUME IInv, NEW r \in Requests, NEW b \in Actions, CreateActionRequest(r, b),
           NEW a \in Actions
    PROVE  Stands(a)
<1>1. actions[b].approver = Nobody /\ actions[b].status # "executed"
  BY DEF IInv, RowInv, CreateActionRequest
<1>2. a # b => actions'[a] = actions[a]
  BY DEF IInv, TypeOK, CreateActionRequest
<1> QED
  BY <1>1, <1>2 DEF Stands

LEMMA ApproveStands ==
    ASSUME IInv, NEW r \in Requests, Approve(r), NEW a \in Actions
    PROVE  Stands(a)
<1>1. Approving(r)
  BY DEF IInv, RequestInv, Approve
<1>2. actions[target[r]].approver = Nobody /\ actions[target[r]].status # "executed"
  BY <1>1 DEF IInv, RowInv, Approving
<1>3. a # target[r] => actions'[a] = actions[a]
  BY <1>1 DEF IInv, TypeOK, Approve, Approving
<1> QED
  BY <1>2, <1>3 DEF Stands

LEMMA ExecuteStands ==
    ASSUME IInv, NEW r \in Requests, Execute(r), NEW a \in Actions
    PROVE  Stands(a)
<1>1. Executing(r)
  BY DEF IInv, RequestInv, Execute
<1>2. /\ actions[target[r]].status = "approved"
      /\ actions'[target[r]].approver = actions[target[r]].approver
  BY <1>1 DEF IInv, TypeOK, Rows, Execute, Executing
<1>3. a # target[r] => actions'[a] = actions[a]
  BY <1>1 DEF IInv, TypeOK, Execute, Executing
<1> QED
  BY <1>2, <1>3 DEF Stands

LEMMA NextStands ==
    ASSUME IInv, [Next]_vars, NEW a \in Actions
    PROVE  Stands(a)
<1>1. ASSUME NEW r \in Requests, NEW b \in Actions, CreateActionRequest(r, b) PROVE Stands(a)
  BY <1>1, CreateStands
<1>2. ASSUME NEW r \in Requests, Approve(r) PROVE Stands(a)
  BY <1>2, ApproveStands
<1>3. ASSUME NEW r \in Requests, Execute(r) PROVE Stands(a)
  BY <1>3, ExecuteStands
<1>4. CASE UNCHANGED actions
  BY <1>4 DEF Stands
<1> QED
  BY <1>1, <1>2, <1>3, <1>4
  DEF Next, vars, EnforceRateLimit, BeginApproval, BeginExecution, Fail, MinutePasses, AllExecuted

(***************************************************************************)
(* No call that read an action before another one decided on it replaces   *)
(* the approver of record, and an execution is never undone.               *)
(***************************************************************************)
THEOREM NoDecisionIsReplaced == Spec => DecisionsStand
<1>1. IInv /\ [Next]_vars =>
        [\A a \in Actions :
            /\ actions[a].approver # Nobody => actions'[a].approver = actions[a].approver
            /\ actions[a].status = "executed" => actions'[a] = actions[a]]_vars
  BY NextStands DEF Stands
<1> QED
  BY <1>1, Invariance, PTL DEF Spec, DecisionsStand

-----------------------------------------------------------------------------
(* The audit                                                               *)

(***************************************************************************)
(* AuditTellsAll of one action, status by status.                          *)
(***************************************************************************)
Proposed(row) == [type |-> "proposed", actor |-> row.requester]

Approved(row) == [type |-> "approved", actor |-> row.approver]

Told(row, log) ==
    /\ row.status = "absent" => Len(log) = 0
    /\ row.status = "pending" => Len(log) = 1 /\ log[1] = Proposed(row)
    /\ row.status = "approved" =>
          Len(log) = 2 /\ log[1] = Proposed(row) /\ log[2] = Approved(row)
    /\ row.status = "executed" =>
          /\ Len(log) = 3 /\ log[1] = Proposed(row) /\ log[2] = Approved(row)
          /\ log[3].type = "executed"

AllTold == \A a \in Actions : Told(actions[a], audit[a])

LEMMA AuditByStatus ==
    ASSUME TypeOK
    PROVE  AllTold => AuditTellsAll
<1> SUFFICES ASSUME AllTold, NEW a \in Actions
             PROVE  LET row == actions[a]
                        n == CASE row.status = "absent" -> 0
                               [] row.status = "pending" -> 1
                               [] row.status = "approved" -> 2
                               [] row.status = "executed" -> 3
                    IN  /\ Len(audit[a]) = n
                        /\ n >= 1 => audit[a][1] = [type |-> "proposed", actor |-> row.requester]
                        /\ n >= 2 => audit[a][2] = [type |-> "approved", actor |-> row.approver]
                        /\ n = 3 => audit[a][3].type = "executed"
  BY DEF AuditTellsAll
<1>1. actions[a].status \in {"absent", "pending", "approved", "executed"}
  BY DEF TypeOK, Rows
<1>2. Told(actions[a], audit[a])
  BY DEF AllTold
<1>3. CASE actions[a].status = "absent"
  BY <1>2, <1>3 DEF Told
<1>4. CASE actions[a].status = "pending"
  BY <1>2, <1>4 DEF Told, Proposed
<1>5. CASE actions[a].status = "approved"
  BY <1>2, <1>5 DEF Told, Proposed, Approved
<1>6. CASE actions[a].status = "executed"
  BY <1>2, <1>6 DEF Told, Proposed, Approved
<1> QED
  BY <1>1, <1>3, <1>4, <1>5, <1>6

(***************************************************************************)
(* What Log writes is the last entry, and the entries before it stay.      *)
(***************************************************************************)
LEMMA LogAppends ==
    ASSUME TypeOK, NEW a \in Actions, NEW type, NEW p, Log(a, type, p)
    PROVE  /\ Len(audit'[a]) = Len(audit[a]) + 1
           /\ audit'[a][Len(audit[a]) + 1] = [type |-> type, actor |-> p]
           /\ \A i \in 1 .. Len(audit[a]) : audit'[a][i] = audit[a][i]
           /\ \A b \in Actions \ {a} : audit'[b] = audit[b]
<1> DEFINE x == [type |-> type, actor |-> p]
<1> HIDE DEF x
<1>1. audit' = [audit EXCEPT ![a] = Append(audit[a], x)]
  BY DEF Log, x
<1>2. audit'[a] = Append(audit[a], x) /\ \A b \in Actions \ {a} : audit'[b] = audit[b]
  BY <1>1 DEF TypeOK
<1>3. audit[a] \in Seq(Entries)
  BY DEF TypeOK
<1>4. /\ Len(Append(audit[a], x)) = Len(audit[a]) + 1
      /\ Append(audit[a], x)[Len(audit[a]) + 1] = x
      /\ \A i \in 1 .. Len(audit[a]) : Append(audit[a], x)[i] = audit[a][i]
  BY <1>3
<1> QED
  BY <1>2, <1>4 DEF x

LEMMA CreateTold ==
    ASSUME IInv, AllTold, NEW r \in Requests, NEW a \in Actions, CreateActionRequest(r, a)
    PROVE  AllTold'
<1>1. Log(a, "proposed", who[r]) /\ Told(actions[a], audit[a]) /\ actions[a].status = "absent"
  BY DEF AllTold, CreateActionRequest
<1>2. Len(audit[a]) = 0
  BY <1>1 DEF Told
<1>3. /\ actions'[a].status = "pending"
      /\ actions'[a].requester = who[r]
      /\ \A b \in Actions \ {a} : actions'[b] = actions[b]
  BY DEF IInv, TypeOK, CreateActionRequest
<1>4. /\ Len(audit'[a]) = 1
      /\ audit'[a][1] = [type |-> "proposed", actor |-> who[r]]
      /\ \A b \in Actions \ {a} : audit'[b] = audit[b]
  <2>1. /\ Len(audit'[a]) = Len(audit[a]) + 1
        /\ audit'[a][Len(audit[a]) + 1] = [type |-> "proposed", actor |-> who[r]]
        /\ \A i \in 1 .. Len(audit[a]) : audit'[a][i] = audit[a][i]
        /\ \A b \in Actions \ {a} : audit'[b] = audit[b]
    <3> TypeOK
      BY DEF IInv
    <3> Log(a, "proposed", who[r])
      BY <1>1
    <3> QED
      BY LogAppends
  <2>2. Len(audit[a]) = 0
    BY <1>2
  <2> QED
    BY <2>1, <2>2
<1>5. Told(actions'[a], audit'[a])
  BY <1>3, <1>4 DEF Told, Proposed
<1>6. \A b \in Actions \ {a} : Told(actions'[b], audit'[b])
  BY <1>3, <1>4 DEF AllTold
<1> QED
  BY <1>5, <1>6 DEF AllTold

LEMMA ApproveTold ==
    ASSUME IInv, AllTold, NEW r \in Requests, Approve(r)
    PROVE  AllTold'
<1>1. PICK a \in Actions : a = target[r] /\ actions[a].status = "pending"
  BY DEF IInv, RequestInv, Approve, Approving
<1>2. Log(a, "approved", who[r]) /\ Len(audit[a]) = 1 /\ audit[a][1] = Proposed(actions[a])
  BY <1>1 DEF AllTold, Told, Approve
<1>3. /\ actions'[a].status = "approved"
      /\ actions'[a].approver = who[r]
      /\ actions'[a].requester = actions[a].requester
      /\ \A b \in Actions \ {a} : actions'[b] = actions[b]
  BY <1>1 DEF IInv, TypeOK, Rows, Approve
<1>4. /\ Len(audit'[a]) = 2
      /\ audit'[a][1] = audit[a][1]
      /\ audit'[a][2] = [type |-> "approved", actor |-> who[r]]
      /\ \A b \in Actions \ {a} : audit'[b] = audit[b]
  <2>1. /\ Len(audit'[a]) = Len(audit[a]) + 1
        /\ audit'[a][Len(audit[a]) + 1] = [type |-> "approved", actor |-> who[r]]
        /\ \A i \in 1 .. Len(audit[a]) : audit'[a][i] = audit[a][i]
        /\ \A b \in Actions \ {a} : audit'[b] = audit[b]
    <3> TypeOK
      BY DEF IInv
    <3> Log(a, "approved", who[r])
      BY <1>2
    <3> QED
      BY LogAppends
  <2>2. Len(audit[a]) = 1
    BY <1>2
  <2> QED
    BY <2>1, <2>2
<1>5. Told(actions'[a], audit'[a])
  BY <1>2, <1>3, <1>4 DEF Told, Proposed, Approved
<1>6. \A b \in Actions \ {a} : Told(actions'[b], audit'[b])
  BY <1>3, <1>4 DEF AllTold
<1> QED
  BY <1>5, <1>6 DEF AllTold

LEMMA ExecuteTold ==
    ASSUME IInv, AllTold, NEW r \in Requests, Execute(r)
    PROVE  AllTold'
<1>1. PICK a \in Actions : a = target[r] /\ actions[a].status = "approved"
  BY DEF IInv, RequestInv, Execute, Executing
<1>2. /\ Log(a, "executed", who[r])
      /\ Len(audit[a]) = 2
      /\ audit[a][1] = Proposed(actions[a]) /\ audit[a][2] = Approved(actions[a])
  BY <1>1 DEF AllTold, Told, Execute
<1>3. /\ actions'[a].status = "executed"
      /\ actions'[a].approver = actions[a].approver
      /\ actions'[a].requester = actions[a].requester
      /\ \A b \in Actions \ {a} : actions'[b] = actions[b]
  BY <1>1 DEF IInv, TypeOK, Rows, Execute
<1>4. /\ Len(audit'[a]) = 3
      /\ audit'[a][1] = audit[a][1]
      /\ audit'[a][2] = audit[a][2]
      /\ audit'[a][3] = [type |-> "executed", actor |-> who[r]]
      /\ \A b \in Actions \ {a} : audit'[b] = audit[b]
  <2>1. /\ Len(audit'[a]) = Len(audit[a]) + 1
        /\ audit'[a][Len(audit[a]) + 1] = [type |-> "executed", actor |-> who[r]]
        /\ \A i \in 1 .. Len(audit[a]) : audit'[a][i] = audit[a][i]
        /\ \A b \in Actions \ {a} : audit'[b] = audit[b]
    <3> TypeOK
      BY DEF IInv
    <3> Log(a, "executed", who[r])
      BY <1>2
    <3> QED
      BY LogAppends
  <2>2. Len(audit[a]) = 2
    BY <1>2
  <2> QED
    BY <2>1, <2>2
<1>5. audit'[a][3].type = "executed"
  BY <1>4
<1>6. Told(actions'[a], audit'[a])
  BY <1>2, <1>3, <1>4, <1>5 DEF Told, Proposed, Approved
<1>7. \A b \in Actions \ {a} : Told(actions'[b], audit'[b])
  BY <1>3, <1>4 DEF AllTold
<1> QED
  BY <1>6, <1>7 DEF AllTold

LEMMA NextTold == IInv /\ AllTold /\ [Next]_vars => AllTold'
<1> SUFFICES ASSUME IInv, AllTold, [Next]_vars PROVE AllTold'
  OBVIOUS
<1>1. ASSUME NEW r \in Requests, NEW a \in Actions, CreateActionRequest(r, a) PROVE AllTold'
  BY <1>1, CreateTold
<1>2. ASSUME NEW r \in Requests, Approve(r) PROVE AllTold'
  BY <1>2, ApproveTold
<1>3. ASSUME NEW r \in Requests, Execute(r) PROVE AllTold'
  BY <1>3, ExecuteTold
<1>4. CASE UNCHANGED <<actions, audit>>
  BY <1>4 DEF AllTold
<1> QED
  BY <1>1, <1>2, <1>3, <1>4
  DEF Next, vars, EnforceRateLimit, BeginApproval, BeginExecution, Fail, MinutePasses, AllExecuted

(***************************************************************************)
(* The audit has every step once, in order and under the right name,       *)
(* whatever calls race or fail (AuditTellsAll).                            *)
(***************************************************************************)
THEOREM AuditIsComplete == Spec => []AuditTellsAll
<1>1. Init => AllTold
  BY DEF Init, AllTold, Told, Absent
<1>2. IInv /\ AllTold => AuditTellsAll
  BY AuditByStatus DEF IInv
<1> QED
  BY <1>1, <1>2, NextTold, Invariance, PTL DEF Spec

-----------------------------------------------------------------------------
(* The refinement: what the rows and locks allow, the audit alone shows.   *)

LEMMA TrailBegins == Init => Trail!Init
BY DEF Init, Trail!Init

LEMMA ProposalInTrail ==
    ASSUME IInv, AllTold, NEW r \in Requests, NEW a \in Actions, CreateActionRequest(r, a)
    PROVE  Trail!Next
<1>1. who[r] \in Operators
  BY DEF IInv, RequestInv, Planning, CreateActionRequest
<1>2. Len(audit[a]) = 0
  BY DEF AllTold, Told, CreateActionRequest
<1>3. Trail!Propose(a, who[r])
  BY <1>1, <1>2 DEF Trail!Propose, Trail!Write, CreateActionRequest, Log
<1> QED
  BY <1>1, <1>3 DEF Trail!Next

LEMMA ApprovalInTrail ==
    ASSUME IInv, AllTold, NEW r \in Requests, Approve(r)
    PROVE  Trail!Next
<1>1. Approving(r)
  BY DEF IInv, RequestInv, Approve
<1>2. PICK a \in Actions : a = target[r]
  BY <1>1 DEF Approving
<1>3. Len(audit[a]) = 1 /\ audit[a][1] = Proposed(actions[a])
  BY <1>1, <1>2 DEF AllTold, Told, Approving
<1>4. who[r] \in Auditors /\ audit[a][1].actor # who[r]
  BY <1>1, <1>2, <1>3 DEF Approving, Proposed
<1>5. Trail!Approve(a, who[r])
  BY <1>2, <1>3, <1>4 DEF Trail!Approve, Trail!Write, Approve, Log
<1> QED
  BY <1>4, <1>5 DEF Trail!Next

LEMMA ExecutionInTrail ==
    ASSUME IInv, AllTold, NEW r \in Requests, Execute(r)
    PROVE  Trail!Next
<1>1. Executing(r)
  BY DEF IInv, RequestInv, Execute
<1>2. PICK a \in Actions : a = target[r]
  BY <1>1 DEF Executing
<1>3. Len(audit[a]) = 2 /\ who[r] \in Operators
  BY <1>1, <1>2 DEF AllTold, Told, Executing
<1>4. Trail!Execute(a, who[r])
  BY <1>2, <1>3 DEF Trail!Execute, Trail!Write, Execute, Log
<1> QED
  BY <1>3, <1>4 DEF Trail!Next

LEMMA StepInTrail == IInv /\ AllTold /\ [Next]_vars => [Trail!Next]_audit
<1> SUFFICES ASSUME IInv, AllTold, [Next]_vars PROVE Trail!Next \/ UNCHANGED audit
  OBVIOUS
<1>1. ASSUME NEW r \in Requests,
             (\E a \in Actions : CreateActionRequest(r, a)) \/ Approve(r) \/ Execute(r)
      PROVE  Trail!Next
  BY <1>1, ProposalInTrail, ApprovalInTrail, ExecutionInTrail
<1> QED
  BY <1>1
  DEF Next, vars, EnforceRateLimit, BeginApproval, BeginExecution, Fail, MinutePasses, AllExecuted

(***************************************************************************)
(* Every behaviour of the requests, rows and locks is, in the audit, one   *)
(* of the abstract trail (ImplementsTrail): nothing is rewritten, and each *)
(* entry is by somebody who was entitled to it, going by the earlier ones. *)
(***************************************************************************)
THEOREM AuditIsATrail == Spec => ImplementsTrail
<1>1. Init => AllTold
  BY DEF Init, AllTold, Told, Absent
<1>2. Spec => Trail!Init /\ [][Trail!Next]_audit
  BY <1>1, TrailBegins, StepInTrail, NextTold, Invariance, PTL DEF Spec
<1> QED
  BY <1>2 DEF ImplementsTrail, Trail!Spec

-----------------------------------------------------------------------------
(* The rate limit                                                          *)

LEMMA RecentFinite ==
    ASSUME TypeOK, NEW p
    PROVE  IsFiniteSet(RecentOf(p)) /\ Cardinality(RecentOf(p)) \in Nat
<1>1. IsFiniteSet(Actions) /\ RecentOf(p) \subseteq Actions
  BY ActionConstants DEF TypeOK, RecentOf
<1> QED
  BY <1>1, FS_Subset, FS_CardinalityType

Bounded(p) == Cardinality(RecentOf(p)) + Cardinality(Planners(p)) <= Limit - 1 + peak[p]

(***************************************************************************)
(* A step after which there is no new planner and no new recent action.    *)
(***************************************************************************)
LEMMA ExcessShrinks ==
    ASSUME TypeOK, NEW p \in Operators, Bounded(p), peak'[p] = peak[p],
           RecentOf(p)' \subseteq RecentOf(p), Planners(p)' \subseteq Planners(p)
    PROVE  Bounded(p)'
<1>1. /\ IsFiniteSet(RecentOf(p)) /\ Cardinality(RecentOf(p)) \in Nat
      /\ IsFiniteSet(Planners(p)) /\ Cardinality(Planners(p)) \in Nat
  BY RecentFinite, PlannersFinite
<1>2. /\ Cardinality(RecentOf(p)') <= Cardinality(RecentOf(p))
      /\ Cardinality(Planners(p)') <= Cardinality(Planners(p))
      /\ Cardinality(RecentOf(p)') \in Nat /\ Cardinality(Planners(p)') \in Nat
  BY <1>1, FS_Subset, FS_CardinalityType
<1>3. Limit \in Nat /\ peak[p] \in Nat
  BY ActionConstants DEF TypeOK
<1> QED
  BY <1>1, <1>2, <1>3 DEF Bounded

(***************************************************************************)
(* Whoever passes the check saw fewer than Limit, and is counted in peak.  *)
(***************************************************************************)
LEMMA RateBounded ==
    ASSUME IInv, NEW r \in Requests, NEW q \in Operators, EnforceRateLimit(r, q),
           NEW p \in Operators, Bounded(p)
    PROVE  Bounded(p)'
<1>1. RecentOf(p)' = RecentOf(p)
  BY DEF RecentOf, EnforceRateLimit
<1>2. CASE p = q
  <2>1. Cardinality(RecentOf(p)) < Limit
    BY <1>2 DEF EnforceRateLimit, UnderLimit
  <2>2. Cardinality(RecentOf(p)) \in Nat
    BY RecentFinite DEF IInv
  <2>3. IsFiniteSet(Planners(p)) /\ Cardinality(Planners(p)) \in Nat
    BY PlannersFinite
  <2>4. Planners(p)' \subseteq Planners(p) \cup {r}
    BY DEF Planners, EnforceRateLimit, Begin, IInv, TypeOK
  <2>5. /\ IsFiniteSet(Planners(p) \cup {r})
        /\ \/ Cardinality(Planners(p) \cup {r}) = Cardinality(Planners(p))
           \/ Cardinality(Planners(p) \cup {r}) = Cardinality(Planners(p)) + 1
    BY <2>3, FS_AddElement
  <2>6. /\ Cardinality(Planners(p)') \in Nat
        /\ Cardinality(Planners(p)') <= Cardinality(Planners(p) \cup {r})
    BY <2>4, <2>5, FS_Subset, FS_CardinalityType
  <2>7. peak'[p] \in Nat /\ Cardinality(Planners(p)) + 1 <= peak'[p]
    BY <1>2, OverlapType DEF IInv, EnforceRateLimit
  <2>8. Limit \in Nat
    BY ActionConstants
  <2> QED
    BY <1>1, <2>1, <2>2, <2>3, <2>5, <2>6, <2>7, <2>8 DEF Bounded
<1>3. CASE p # q
  <2>1. Planners(p)' \subseteq Planners(p)
    BY <1>3 DEF Planners, EnforceRateLimit, Begin, IInv, TypeOK
  <2>2. peak'[p] = peak[p]
    BY <1>3, OverlapType DEF IInv, EnforceRateLimit
  <2> QED
    BY <1>1, <2>1, <2>2, ExcessShrinks DEF IInv
<1> QED
  BY <1>2, <1>3

(***************************************************************************)
(* What is written was in flight before.                                   *)
(***************************************************************************)
LEMMA CreateBounded ==
    ASSUME IInv, NEW r \in Requests, NEW a \in Actions, CreateActionRequest(r, a),
           NEW p \in Operators, Bounded(p)
    PROVE  Bounded(p)'
<1>1. /\ actions'[a].requester = who[r]
      /\ \A b \in Actions \ {a} : actions'[b] = actions[b]
      /\ recent' = recent \cup {a} /\ recent \subseteq Actions
  BY DEF IInv, TypeOK, CreateActionRequest
<1>2. /\ pc[r] = "plan" /\ pc'[r] = "idle"
      /\ \A u \in Requests \ {r} : pc'[u] = pc[u] /\ who'[u] = who[u]
      /\ peak'[p] = peak[p]
  BY DEF IInv, TypeOK, CreateActionRequest, End
<1>3. CASE who[r] # p
  <2>1. RecentOf(p)' \subseteq RecentOf(p)
    BY <1>1, <1>3 DEF RecentOf
  <2>2. Planners(p)' \subseteq Planners(p)
    BY <1>2 DEF Planners
  <2> QED
    BY <1>2, <2>1, <2>2, ExcessShrinks DEF IInv
<1>4. CASE who[r] = p
  <2>1. RecentOf(p)' \subseteq RecentOf(p) \cup {a}
    BY <1>1 DEF RecentOf
  <2>2. Planners(p)' = Planners(p) \ {r} /\ r \in Planners(p)
    BY <1>2, <1>4 DEF Planners
  <2>3. /\ IsFiniteSet(RecentOf(p)) /\ Cardinality(RecentOf(p)) \in Nat
        /\ IsFiniteSet(Planners(p)) /\ Cardinality(Planners(p)) \in Nat
    BY RecentFinite, PlannersFinite DEF IInv
  <2>4. /\ Cardinality(RecentOf(p)') \in Nat
        /\ Cardinality(RecentOf(p)') <= Cardinality(RecentOf(p)) + 1
    <3>1. /\ IsFiniteSet(RecentOf(p) \cup {a})
          /\ \/ Cardinality(RecentOf(p) \cup {a}) = Cardinality(RecentOf(p))
             \/ Cardinality(RecentOf(p) \cup {a}) = Cardinality(RecentOf(p)) + 1
      BY <2>3, FS_AddElement
    <3>2. /\ Cardinality(RecentOf(p)') \in Nat
          /\ Cardinality(RecentOf(p)') <= Cardinality(RecentOf(p) \cup {a})
      BY <2>1, <3>1, FS_Subset, FS_CardinalityType
    <3> QED
      BY <2>3, <3>1, <3>2
  <2>5. Cardinality(Planners(p)') = Cardinality(Planners(p)) - 1
    BY <2>2, <2>3, FS_RemoveElement
  <2>6. Limit \in Nat /\ peak[p] \in Nat
    BY ActionConstants DEF IInv, TypeOK
  <2> QED
    BY <1>2, <2>3, <2>4, <2>5, <2>6 DEF Bounded
<1> QED
  BY <1>3, <1>4

LEMMA RestBounded ==
    ASSUME IInv, NEW p \in Operators, Bounded(p),
           \/ \E r \in Requests :
                 \/ \E q \in Auditors, a \in Actions : BeginApproval(r, q, a)
                 \/ \E q \in Operators, a \in Actions : BeginExecution(r, q, a)
                 \/ Approve(r) \/ Execute(r) \/ Fail(r)
           \/ \E a \in Actions : MinutePasses(a)
           \/ UNCHANGED vars
    PROVE  Bounded(p)'
<1>1. Planners(p)' \subseteq Planners(p)
  BY DEF Planners, IInv, TypeOK, BeginApproval, BeginExecution, Begin, Approve, Execute,
         Fail, End, MinutePasses, vars
<1>2. recent' \subseteq recent /\ recent \subseteq Actions /\ peak' = peak
  BY DEF IInv, TypeOK, BeginApproval, BeginExecution, Approve, Execute, Fail, MinutePasses, vars
<1>3. \A b \in Actions : actions'[b].requester = actions[b].requester
  <2>1. CASE UNCHANGED actions
    BY <2>1
  <2>2. ASSUME NEW r \in Requests, Approve(r)
        PROVE  \A b \in Actions : actions'[b].requester = actions[b].requester
    BY <2>2 DEF IInv, TypeOK, Rows, RequestInv, Approving, Approve
  <2>3. ASSUME NEW r \in Requests, Execute(r)
        PROVE  \A b \in Actions : actions'[b].requester = actions[b].requester
    BY <2>3 DEF IInv, TypeOK, Rows, RequestInv, Executing, Execute
  <2> QED
    BY <2>1, <2>2, <2>3 DEF BeginApproval, BeginExecution, Fail, MinutePasses, vars
<1>4. RecentOf(p)' \subseteq RecentOf(p)
  BY <1>2, <1>3 DEF RecentOf
<1> QED
  BY <1>1, <1>2, <1>4, ExcessShrinks DEF IInv

LEMMA NextBounded == IInv /\ ExcessIsBounded /\ [Next]_vars => ExcessIsBounded'
<1> SUFFICES ASSUME IInv, ExcessIsBounded, [Next]_vars, NEW p \in Operators
             PROVE  Bounded(p)'
  BY DEF ExcessIsBounded, Bounded
<1>1. Bounded(p)
  BY DEF ExcessIsBounded, Bounded
<1>2. ASSUME NEW r \in Requests, NEW q \in Operators, EnforceRateLimit(r, q)
      PROVE  Bounded(p)'
  BY <1>1, <1>2, RateBounded
<1>3. ASSUME NEW r \in Requests, NEW a \in Actions, CreateActionRequest(r, a)
      PROVE  Bounded(p)'
  BY <1>1, <1>3, CreateBounded
<1> QED
  BY <1>1, <1>2, <1>3, RestBounded DEF Next, AllExecuted

(***************************************************************************)
(* However many requests of one subject pass the check before any of them  *)
(* writes, the limit is exceeded by no more than those that overlapped;    *)
(* one that sends its requests one by one never exceeds it                 *)
(* (ExcessIsBounded).                                                      *)
(***************************************************************************)
THEOREM RateLimitHolds == Spec => []ExcessIsBounded
<1>1. Init => ExcessIsBounded
  <2> SUFFICES ASSUME Init, NEW p \in Operators PROVE Bounded(p)
    BY DEF ExcessIsBounded, Bounded
  <2>1. RecentOf(p) = {} /\ Planners(p) = {} /\ peak[p] = 0
    BY DEF Init, RecentOf, Planners
  <2>2. Cardinality(RecentOf(p)) = 0 /\ Cardinality(Planners(p)) = 0
    BY <2>1, FS_EmptySet
  <2>3. Limit \in Nat /\ Limit >= 1
    BY ActionConstants
  <2> QED
    BY <2>1, <2>2, <2>3 DEF Bounded
<1> QED
  BY <1>1, NextBounded, Invariance, PTL DEF Spec
=============================================================================
