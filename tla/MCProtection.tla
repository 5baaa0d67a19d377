---------------------------- MODULE MCProtection ----------------------------
(***************************************************************************)
(* Protection with two stop levels and three order ids, one of which is    *)
(* always free.                                                            *)
(***************************************************************************)
EXTENDS Protection

CONSTANTS o1, o2, o3    \* model values
=============================================================================
