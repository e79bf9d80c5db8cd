----------------------------- MODULE ActionTrail -----------------------------
(***************************************************************************)
(* What the controlled actions promise whoever reads the audit and nothing *)
(* else: entries are only ever added; an action is proposed once, by an    *)
(* operator, then approved once, by an auditor who is not the one who      *)
(* proposed it, then executed once, by an operator, and that is all.  No   *)
(* row, lock, thread or transaction is in sight.  ControlledActions is     *)
(* shown to implement this.                                                *)
(***************************************************************************)
EXTENDS Naturals, Sequences

CONSTANTS Actions, Operators, Auditors

VARIABLE trail   \* the entries of each action, in the order they were written

Init == trail = [a \in Actions |-> <<>>]

Write(a, type, p) ==
    trail' = [trail EXCEPT ![a] = Append(@, [type |-> type, actor |-> p])]

Propose(a, p) ==
    /\ p \in Operators
    /\ Len(trail[a]) = 0
    /\ Write(a, "proposed", p)

Approve(a, p) ==
    /\ p \in Auditors
    /\ Len(trail[a]) = 1
    /\ trail[a][1].actor # p
    /\ Write(a, "approved", p)

Execute(a, p) ==
    /\ p \in Operators
    /\ Len(trail[a]) = 2
    /\ Write(a, "executed", p)

Next ==
    \E a \in Actions, p \in Operators \cup Auditors :
        Propose(a, p) \/ Approve(a, p) \/ Execute(a, p)

Spec == Init /\ [][Next]_trail
=============================================================================
