---------------------------- MODULE MCSentryFile ----------------------------
(***************************************************************************)
(* SentryFile with the backend's event loop alone, and with the watchdog   *)
(* and the stop-loss thread writing beside it.                             *)
(***************************************************************************)
EXTENDS SentryFile, TLC

CONSTANTS i1, i2, i3, i4, i5    \* model values

InodeSymmetry == Permutations(Inode)
=============================================================================
