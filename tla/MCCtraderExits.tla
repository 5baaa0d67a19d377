--------------------------- MODULE MCCtraderExits ---------------------------
(***************************************************************************)
(* CtraderExits on a small instance, in pips: a stop 20 below the entry.   *)
(***************************************************************************)
EXTENDS CtraderExits

MCMarks == {-10, 22, 30}
MCDeskStops == {5}
=============================================================================
