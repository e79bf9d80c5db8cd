---------------------------- MODULE MCOperations ----------------------------
(***************************************************************************)
(* Three releases over two schema revisions, two of them at the first, and *)
(* two backup calls.  What only one of the tools is about is not           *)
(* multiplied by the other: releases are checked in full with no backup    *)
(* about, two calls in full beside a database at rest, and one call in     *)
(* full beside an upgrade from v1 to v3.                                   *)
(***************************************************************************)
EXTENDS Operations, TLC

CONSTANTS v1, v2, v3

MCImages == {v1, v2, v3}

MCHead == [i \in Images |-> IF i \in {v1, v2} THEN 1 ELSE 2]

NoBackups == rows = 0 /\ files = <<NoFile, NoFile>> /\ \A c \in Calls : call[c] = "idle"

AtRest ==
    /\ pc = "idle" /\ clean /\ database = 1
    /\ file.current.image = v1 /\ file.previous = NoEntry /\ RecordIsTrue(file.current)
    /\ smoked = {v1}

Upgrade ==
    /\ file.previous = NoEntry /\ RecordIsTrue(file.current)
    /\ smoked \subseteq {v1, v3}
    /\ file.current = NoEntry => target \in {NoImage, v1}
    /\ file.current # NoEntry => target \in {NoImage, v3}

OneCall ==
    \E c \in Calls :
        /\ \A d \in Calls \ {c} : call[d] = "idle" /\ scratch[d] = "none"
        /\ archive # NoFile => archive.owner = c
        /\ manifest \notin {NoFile, Unreadable} => manifest.digest.owner = c

Bound == NoBackups \/ AtRest \/ (Upgrade /\ OneCall)

\* The calls are interchangeable.
Symmetry == Permutations(Calls)
=============================================================================
