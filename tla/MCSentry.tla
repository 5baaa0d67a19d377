------------------------------ MODULE MCSentry ------------------------------
(***************************************************************************)
(* Sentry on small instances: two auto-resume requests may be in flight.   *)
(***************************************************************************)
EXTENDS Sentry

CONSTANTS auto1, auto2    \* model values
=============================================================================
