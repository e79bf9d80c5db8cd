------------------------------ MODULE MCDelivery ------------------------------
(***************************************************************************)
(* Delivery for TLC.  Two workers race for one event, over a partner of    *)
(* two processes; MCDeliveryBudget has one of each.                        *)
(***************************************************************************)
EXTENDS Delivery
=============================================================================
