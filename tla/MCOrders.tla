------------------------------ MODULE MCOrders ------------------------------
(***************************************************************************)
(* Orders with entries of two units, so that one can fill in part.         *)
(***************************************************************************)
EXTENDS Orders
=============================================================================
