--------------------------- MODULE MCActionRoutes ---------------------------
(***************************************************************************)
(* The action routes for TLC: one intent of each action; the owner's own   *)
(* transactions compete with them and a deadline falls within the run.     *)
(***************************************************************************)
EXTENDS ActionRoutes

CONSTANTS k1, k2, v0, v1

Intent(action, value, signer, deadline) ==
    [action |-> action, value |-> value, signer |-> signer, deadline |-> deadline]
MCIntents ==
    {Intent("createPlan", k1, Owner, 2), Intent("configurePlan", v1, Owner, 2),
     Intent("recovery", k2, k1, 2),
     Intent("heartbeatBySig", v0, Owner, 2), Intent("evacuate", v0, k1, 1)}
MCPolicies == {v0, v1}
MCKeys == {k1, k2}
=============================================================================
