------------------------ MODULE MCControlledActions ------------------------
(***************************************************************************)
(* Three requests in flight, an operator, an auditor and a subject with    *)
(* both roles.                                                             *)
(***************************************************************************)
EXTENDS ControlledActions, TLC

\* Requests and actions are interchangeable (every property is about safety).
Symmetry == Permutations(Requests) \cup Permutations(Actions)
=============================================================================
