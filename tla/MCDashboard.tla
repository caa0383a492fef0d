----------------------------- MODULE MCDashboard -----------------------------
(***************************************************************************)
(* The dashboard for TLC.  Alice and Bob own plans from one browser; Bob's *)
(* plan has advanced timing, and his recovery key is Alice's wallet.  A    *)
(* share of 100% is 8 half hundredths and a day 2 seconds, so the rounding *)
(* of shares and durations goes both ways.                                 *)
(***************************************************************************)
EXTENDS Dashboard

CONSTANTS alice, bob, carol, t

PolicyOf(interval, timeout, grace) ==
    [heartbeatInterval |-> interval, timeoutDuration |-> timeout, gracePeriod |-> grace]
Row(address, share) == [address |-> address, share |-> share]

MCPlan(owner, policy, key, vault, tokens) ==
    [EmptyPlan EXCEPT !.owner = owner, !.settings = policy,
        !.beneficiaries = <<Row(carol, TOTAL_BPS)>>,
        !.recoveryKey = key, !.safeVault = vault, !.tokens = tokens, !.livenessActive = TRUE]
MCInitialPlans(owner) ==
    IF owner = alice THEN {MCPlan(alice, PolicyOf(DAY, 2 * DAY, DAY), carol, carol, <<t>>)}
    ELSE {MCPlan(bob, PolicyOf(1, 3, 0), alice, carol, <<t>>)}

\* the draft of an earlier visit, complete but for the acknowledgement of the
\* recovery wallet that is also the vault
MCStoredDrafts ==
    {[CreateOnboardingDraft(alice) EXCEPT
        !.step = 5, !.beneficiaries = <<Row(carol, 8)>>,
        !.recoveryKey = carol, !.safeVault = carol, !.assets = <<t>>]}

MCTokenInputs == {None, t}
MCRecoveryForms ==
    [recoveryKey : {None, alice, carol}, safeVault : {None, bob, carol}, allowSharedRecovery : BOOLEAN]
=============================================================================
