------------------------ MODULE MCInheritanceWatcher ------------------------
(***************************************************************************)
(* Instances for TLC: two runs at a time, one token.                       *)
(***************************************************************************)
EXTENDS InheritanceWatcher

CONSTANTS r1, r2, t
=============================================================================
