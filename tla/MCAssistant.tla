----------------------------- MODULE MCAssistant -----------------------------
(***************************************************************************)
(* One source edited by concurrent ingestions while its owner and a reader *)
(* who is granted and revoked access ask one question.  Of the ingestions  *)
(* and the calls any two are under way at once, never three.               *)
(***************************************************************************)
EXTENDS Assistant, TLC

CONSTANT olga

MCOwner == [s \in Sources |-> olga]

\* One question that either search may find answered by any content.
MCFound == [q \in Questions |-> Contents]

Busy ==
    Cardinality({i \in Ingesters : step[i] # "idle"})
        + Cardinality({t \in Threads : stage[t] # "idle"})

TwoAtOnce == Busy <= 2

Symmetry == Permutations(Ingesters) \cup Permutations(Threads) \cup Permutations(Contents)
=============================================================================
