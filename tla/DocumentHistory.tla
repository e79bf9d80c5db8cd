--------------------------- MODULE DocumentHistory ---------------------------
(***************************************************************************)
(* What the knowledge base promises whoever edits and reads it, with no    *)
(* concurrent call, lock or remembered maximum in sight.  The contents of  *)
(* a source are published one after another, each once, and the n-th of    *)
(* them is its edition n; readers are shown the newest.  A content gets    *)
(* its edition and its readers in one step.  To publish it again does not  *)
(* show the old edition: whoever is named may read it from then on, nobody *)
(* else gains access, and whether those who could read it still can is     *)
(* left open (docs/knowledge-retrieval-contract.md replaces the            *)
(* permissions, knowledge.py adds to them).                                *)
(***************************************************************************)
EXTENDS Naturals, FiniteSets

CONSTANTS Sources, Contents, Readers,
          Owner       \* Owner[s], the principal that writes source s

Documents == Sources \X Contents

VARIABLES edition,    \* of each document, 0 when it was never published
          shown,      \* the documents searches look at
          permitted   \* who may read each document

documents == <<edition, shown, permitted>>

Published(s) == {d \in Documents : d[1] = s /\ edition[d] # 0}

Init ==
    /\ edition = [d \in Documents |-> 0]
    /\ shown = {}
    /\ permitted = [d \in Documents |-> {}]

Publish(d, ps) ==
    /\ edition[d] = 0
    /\ Owner[d[1]] \in ps
    /\ edition' = [edition EXCEPT ![d] = Cardinality(Published(d[1])) + 1]
    /\ shown' = {e \in shown : e[1] # d[1]} \cup {d}
    /\ permitted' = [permitted EXCEPT ![d] = ps]

Share(d, ps) ==
    /\ edition[d] # 0
    /\ Owner[d[1]] \in ps
    /\ \E kept \in SUBSET permitted[d] : permitted' = [permitted EXCEPT ![d] = kept \cup ps]
    /\ UNCHANGED <<edition, shown>>

Withdraw(d, p) ==
    /\ p \in permitted[d]
    /\ permitted' = [permitted EXCEPT ![d] = @ \ {p}]
    /\ UNCHANGED <<edition, shown>>

Next ==
    \E d \in Documents :
        \/ \E ps \in SUBSET Readers : Publish(d, ps) \/ Share(d, ps)
        \/ \E p \in Readers : Withdraw(d, p)

Spec == Init /\ [][Next]_documents
=============================================================================
