------------------------------ MODULE PlanView -------------------------------
(***************************************************************************)
(* A plan as the dashboard sees it: useKeeper reads the plan the session   *)
(* resolves, again every 15 seconds and on demand, and shows the defaults  *)
(* of an empty plan until the first read arrives.                          *)
(***************************************************************************)
EXTENDS PlanForms, Session

VARIABLES
    chain,      \* what each plan holds
    read        \* the answers of the useKeeper query, by plan
planview == <<chain, read>>

PlansOf(owners) == {PlanFor(owner) : owner \in owners}

\* the numbers of a policy are those of the contract's uint64 fields or a form's
Policies == [heartbeatInterval : Int, timeoutDuration : Int, gracePeriod : Int]
Plans == [owner : Addresses, beneficiaries : Seq(Rows), settings : Policies,
          recoveryKey : Addresses, safeVault : Addresses, tokens : Seq(Tokens \cup {None}),
          livenessActive : BOOLEAN, graceElapsed : BOOLEAN, cooling : BOOLEAN, approved : BOOLEAN,
          inheritanceExecuted : BOOLEAN, evacuationExecuted : BOOLEAN]

\* beneficiaries hold basis points; cooling is the check-in cooldown, approved
\* whether the plan may pull the owner's tokens
EmptyPlan ==
    [owner |-> None, beneficiaries |-> <<>>,
     settings |-> [heartbeatInterval |-> 0, timeoutDuration |-> 0, gracePeriod |-> 0],
     recoveryKey |-> None, safeVault |-> None, tokens |-> <<>>,
     livenessActive |-> FALSE, graceElapsed |-> FALSE, cooling |-> FALSE, approved |-> FALSE,
     inheritanceExecuted |-> FALSE, evacuationExecuted |-> FALSE]

Settled(p) == p.inheritanceExecuted \/ p.evacuationExecuted

\* what the page shows
Keeper == IF Resolved THEN read[Resolution] ELSE EmptyPlan

Refetch ==
    /\ Resolved
    /\ read' = [read EXCEPT ![Resolution] = chain[Resolution]]
    /\ read' # read
    /\ UNCHANGED <<session, chain>>

\* what a handler waits for before it ends; the read may fail
Reread == read' \in {read, IF Resolved THEN [read EXCEPT ![Resolution] = chain[Resolution]] ELSE read}

\* the signer a change of a section needs on chain
ChainSigner(p, section) == IF section = "recovery" /\ p.recoveryKey # None THEN p.recoveryKey ELSE p.owner

\* the contract's own check of a section
SectionValid(owner, section, payload) ==
    \/ section = "beneficiaries" /\ ValidAllocation(payload.wallets, payload.shares)
    \/ section = "liveness" /\ ValidSettings(payload)
    \/ /\ section = "recovery"
       /\ ValidRecovery(owner, payload.recoveryKey, payload.safeVault, payload.allowSharedRecovery)
    \/ section = "trackedTokens" /\ ValidTokenList(payload.tokens)

\* the plan after a change of a section
WithSection(p, section, payload) ==
    CASE section = "beneficiaries" ->
           [p EXCEPT !.beneficiaries =
                [i \in DOMAIN payload.wallets |->
                    [address |-> payload.wallets[i], share |-> payload.shares[i]]]]
      [] section = "liveness" -> [p EXCEPT !.settings = payload]
      [] section = "recovery" -> [p EXCEPT !.recoveryKey = payload.recoveryKey, !.safeVault = payload.safeVault]
      [] section = "trackedTokens" -> [p EXCEPT !.tokens = payload.tokens]
=============================================================================
