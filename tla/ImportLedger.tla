---------------------------- MODULE ImportLedger ----------------------------
(***************************************************************************)
(* What the import API promises its clients, with no handler, transaction, *)
(* lease or attempt in sight.  An idempotency key is bound once to one     *)
(* file; its outcome is decided once; a key is accepted only over a file   *)
(* whose rows are all stored, and the notice to the partner appears in the *)
(* very step that accepts the key.  A key is rejected for what its file    *)
(* says, and that is as final for the file: nobody stores it later, under  *)
(* another key or with no key at all.  A failure says nothing of the file. *)
(* ImportApi is shown to implement this.                                   *)
(***************************************************************************)

CONSTANTS Keys,     \* (actor, Idempotency-Key) pairs
          Files,    \* request bodies, told apart by their SHA-256
          NoFile    \* "no file bound yet"

VARIABLES bound,    \* the file each key stands for
          outcome,  \* "none", "pending", "accepted", "rejected" or "failed"
          stored,   \* the files whose rows are in the customer table
          notices   \* the keys with an event for the partner

ledger == <<bound, outcome, stored, notices>>

LedgerTypeOK ==
    /\ bound \in [Keys -> Files \cup {NoFile}]
    /\ outcome \in [Keys -> {"none", "pending", "accepted", "rejected", "failed"}]
    /\ stored \subseteq Files
    /\ notices \subseteq Keys

Init ==
    /\ bound = [k \in Keys |-> NoFile]
    /\ outcome = [k \in Keys |-> "none"]
    /\ stored = {}
    /\ notices = {}

Open(k, f) ==
    /\ outcome[k] = "none"
    /\ outcome' = [outcome EXCEPT ![k] = "pending"]
    /\ bound' = [bound EXCEPT ![k] = f]
    /\ UNCHANGED <<stored, notices>>

Store(f) ==
    /\ \A k \in Keys : bound[k] = f => outcome[k] # "rejected"
    /\ stored' = stored \cup {f}
    /\ UNCHANGED <<bound, outcome, notices>>

Accept(k) ==
    /\ outcome[k] = "pending"
    /\ bound[k] \in stored
    /\ outcome' = [outcome EXCEPT ![k] = "accepted"]
    /\ notices' = notices \cup {k}
    /\ UNCHANGED <<bound, stored>>

Reject(k) ==
    /\ outcome[k] = "pending"
    /\ bound[k] \notin stored
    /\ outcome' = [outcome EXCEPT ![k] = "rejected"]
    /\ UNCHANGED <<bound, stored, notices>>

Fail(k) ==
    /\ outcome[k] = "pending"
    /\ outcome' = [outcome EXCEPT ![k] = "failed"]
    /\ UNCHANGED <<bound, stored, notices>>

Next ==
    \/ \E k \in Keys, f \in Files : Open(k, f)
    \/ \E f \in Files : Store(f)
    \/ \E k \in Keys : Accept(k) \/ Reject(k) \/ Fail(k)

Spec == Init /\ [][Next]_ledger
=============================================================================
