----------------------------- MODULE MCImportApi -----------------------------
(***************************************************************************)
(* Three requests and a CLI run over two keys and four bodies: fA and fB   *)
(* share a customer with equal values, fC contradicts that customer, fD    *)
(* holds the same customers as fA in another order, fBad is not valid.     *)
(***************************************************************************)
EXTENDS ImportApi, TLC

CONSTANTS fA, fB, fC, fD, fBad, ann, bob, v1, v2

MCRows ==
    (fA :> (ann :> v1 @@ bob :> v1)) @@ (fB :> (bob :> v1))
        @@ (fC :> (bob :> v2)) @@ (fD :> (ann :> v1 @@ bob :> v1))
        @@ (fBad :> (ann :> v2))

\* Requests and keys are interchangeable (sound for the safety properties).
Symmetry == Permutations(Requests) \cup Permutations(Keys)
=============================================================================
