------------------------------ MODULE MCDelivery ------------------------------
(* Instances of Delivery for TLC: the values are in the .cfg files. *)
EXTENDS Delivery
=============================================================================
