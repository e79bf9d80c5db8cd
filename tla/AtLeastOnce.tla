----------------------------- MODULE AtLeastOnce -----------------------------
(***************************************************************************)
(* What docs/integration-contract.md promises of each event, without       *)
(* workers, leases, attempts or requests: a published event may reach the  *)
(* partner, at any moment and even after the sender gave it up, but it is  *)
(* called delivered only when the partner has it, and a settled event      *)
(* stays as it was settled.                                                *)
(***************************************************************************)
CONSTANT Events

VARIABLES state,     \* "absent", "open", "delivered" or "dead"
          received   \* the events the partner has recorded

delivery == <<state, received>>

Init ==
    /\ state = [e \in Events |-> "absent"]
    /\ received = {}

Publish(e) ==
    /\ state[e] = "absent"
    /\ state' = [state EXCEPT ![e] = "open"]
    /\ UNCHANGED received

Receive(e) ==
    /\ state[e] # "absent"
    /\ e \notin received
    /\ received' = received \cup {e}
    /\ UNCHANGED state

Deliver(e) ==
    /\ state[e] = "open"
    /\ e \in received
    /\ state' = [state EXCEPT ![e] = "delivered"]
    /\ UNCHANGED received

GiveUp(e) ==
    /\ state[e] = "open"
    /\ state' = [state EXCEPT ![e] = "dead"]
    /\ UNCHANGED received

Next == \E e \in Events : Publish(e) \/ Receive(e) \/ Deliver(e) \/ GiveUp(e)

Spec == Init /\ [][Next]_delivery
=============================================================================
