------------------------ MODULE MCInheritanceMonitor ------------------------
(***************************************************************************)
(* An instance for TLC: one token, and an execution step of the watcher    *)
(* with one half of the scheduled scan.                                    *)
(***************************************************************************)
EXTENDS InheritanceMonitor, TLC

CONSTANTS step, scan, t

MCRole == (step :> "watcher") @@ (scan :> "tokenScan")
=============================================================================
