--------------------------- MODULE MCKnowledgeBase ---------------------------
(***************************************************************************)
(* One source edited by concurrent calls.                                  *)
(***************************************************************************)
EXTENDS KnowledgeBase

CONSTANT olga

MCOwner == [s \in Sources |-> olga]

=============================================================================
