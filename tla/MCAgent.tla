------------------------------ MODULE MCAgent -------------------------------
(* The agent with two overlapping ticks.                                   *)
EXTENDS Agent, TLC

MCMaxAttempts == ("executeInheritance" :> 2) @@ ("evacuate" :> 1)
=============================================================================
