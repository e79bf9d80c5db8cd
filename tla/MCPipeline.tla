----------------------------- MODULE MCPipeline -----------------------------
(***************************************************************************)
(* A request and a retry of it, or two requests with one key and different *)
(* bodies, one of them invalid, any of which may die, under scrapes.       *)
(***************************************************************************)
EXTENDS Pipeline, TLC

CONSTANTS fA, fBad, ann, v1

MCRows == (fA :> (ann :> v1)) @@ (fBad :> (ann :> v1))
=============================================================================
