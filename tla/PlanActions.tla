----------------------------- MODULE PlanActions -----------------------------
(***************************************************************************)
(* What the pages of a plan ask for: the check-in, the approval of tracked *)
(* tokens, the automatic trigger of the inheritance, the evacuation, and   *)
(* the recovery page a Telegram link opens.  Each keeps what it waits for  *)
(* in component state, which a change of wallet leaves alone.  They share  *)
(* the session and the plan as read, nothing else.                         *)
(***************************************************************************)
EXTENDS PlanView

CONSTANT MaxRequests     \* requests of a kind at once

VARIABLES
    stage,          \* what the heartbeat panel shows
    beats,          \* [state, owner, plan, live] of its check-ins
    approval,       \* [state, owner, plan] of the approval button
    inFlight,       \* the trigger's guard
    triggers,       \* [state, owner, plan] of the trigger's requests
    panic,          \* [prepared, signed, sent, owner, plan] of the evacuation card
    entry           \* [state, plan, recoveryKey, evacuated, sent] of the recovery page
actions == <<stage, beats, approval, inFlight, triggers, panic, entry>>

\* the wallet, the resolution or the plan as read changes
PageSession == \/ Refetch
               \/ (SwitchWallet \/ Resolve) /\ UNCHANGED planview

Shown == IF Resolved THEN Resolution ELSE NoPlan
Set(plan, p) == chain' = [chain EXCEPT ![plan] = p]

\* what happens to a plan elsewhere
Lapse(plan) ==
    /\ chain[plan].livenessActive /\ ~chain[plan].graceElapsed /\ ~Settled(chain[plan])
    /\ Set(plan, [chain[plan] EXCEPT !.graceElapsed = TRUE, !.cooling = FALSE])
    /\ UNCHANGED <<session, read, actions>>
CooldownPasses(plan) ==
    /\ chain[plan].cooling
    /\ Set(plan, [chain[plan] EXCEPT !.cooling = FALSE])
    /\ UNCHANGED <<session, read, actions>>
BeatElsewhere(plan) ==
    /\ chain[plan].livenessActive /\ ~chain[plan].cooling
    /\ Set(plan, [chain[plan] EXCEPT !.graceElapsed = FALSE, !.cooling = TRUE])
    /\ UNCHANGED <<session, read, actions>>
Evacuates(plan) ==
    /\ ~chain[plan].evacuationExecuted
    /\ Set(plan, [chain[plan] EXCEPT !.evacuationExecuted = TRUE, !.livenessActive = FALSE])
Distributed(plan) ==
    /\ chain[plan].livenessActive /\ chain[plan].graceElapsed /\ ~Settled(chain[plan])
    /\ Set(plan, [chain[plan] EXCEPT !.inheritanceExecuted = TRUE])
    /\ UNCHANGED <<session, read, actions>>
\* the recovery key signs the shared wallet in, which needs the acknowledgement
RecoveryRotates(plan) ==
    /\ chain[plan].recoveryKey # chain[plan].safeVault
    /\ Set(plan, [chain[plan] EXCEPT !.recoveryKey = chain[plan].safeVault])
    /\ UNCHANGED <<session, read, actions>>

-----------------------------------------------------------------------------
(* The check-in                                                            *)

IdleBeat == [state |-> "idle", owner |-> None, plan |-> NoPlan, live |-> FALSE]

\* the panel gives way to the outcome once the inheritance is executed
CheckInSession ==
    /\ PageSession
    /\ IF Keeper'.inheritanceExecuted
       THEN /\ stage' = "idle"
            /\ beats' = [i \in DOMAIN beats |-> [beats[i] EXCEPT !.live = FALSE]]
       ELSE UNCHANGED <<stage, beats>>
    /\ UNCHANGED <<approval, inFlight, triggers, panic, entry>>

CheckInAvailability ==
    /\ Resolved /\ Keeper.owner = wallet
    /\ ~Settled(Keeper) /\ ~Keeper.graceElapsed /\ Keeper.livenessActive
    /\ stage # "busy" /\ ~Keeper.cooling

CheckIn ==
    /\ CheckInAvailability
    /\ \E i \in DOMAIN beats :
           /\ beats[i].state = "idle"
           /\ beats' = [beats EXCEPT ![i] =
                  [state |-> "sent", owner |-> wallet, plan |-> Resolution, live |-> TRUE]]
    /\ stage' = "busy"
    /\ UNCHANGED <<session, planview, approval, inFlight, triggers, panic, entry>>
CheckInLands(i) ==
    LET b == beats[i] IN
    /\ b.state = "sent"
    /\ LET p == chain[b.plan] IN
           /\ p.owner = b.owner /\ p.livenessActive /\ ~p.cooling
           /\ Set(b.plan, [p EXCEPT !.graceElapsed = FALSE, !.cooling = TRUE])
    /\ beats' = [beats EXCEPT ![i].state = "landed"]
    /\ UNCHANGED <<session, read, stage, approval, inFlight, triggers, panic, entry>>
\* an answer, verified or not: it may fail although the check-in landed
CheckInEnds(i) ==
    /\ beats[i].state # "idle"
    /\ beats' = [beats EXCEPT ![i] = IdleBeat]
    /\ stage' = IF ~beats[i].live THEN stage
                ELSE IF beats[i].state = "landed" THEN "verified" ELSE "failed"
    /\ UNCHANGED <<session, planview, approval, inFlight, triggers, panic, entry>>
CheckInUnverified(i) ==
    /\ beats[i].state = "landed"
    /\ beats' = [beats EXCEPT ![i] = IdleBeat]
    /\ stage' = IF beats[i].live THEN "failed" ELSE stage
    /\ UNCHANGED <<session, planview, approval, inFlight, triggers, panic, entry>>

CheckInNext ==
    \/ CheckInSession \/ CheckIn
    \/ \E i \in DOMAIN beats : CheckInLands(i) \/ CheckInEnds(i) \/ CheckInUnverified(i)
    \/ \E plan \in DOMAIN chain : Lapse(plan) \/ CooldownPasses(plan) \/ Distributed(plan)

-----------------------------------------------------------------------------
(* The approval of a tracked token                                         *)

IdleApproval == [state |-> "idle", owner |-> None, plan |-> NoPlan]

ApprovalSession ==
    /\ PageSession
    /\ UNCHANGED actions

Approve ==
    /\ Resolved /\ Keeper.owner = wallet /\ ~Keeper.evacuationExecuted
    /\ Keeper.tokens # <<>> /\ ~Keeper.approved /\ approval.state = "idle"
    /\ approval' = [state |-> "sent", owner |-> wallet, plan |-> Resolution]
    /\ UNCHANGED <<session, planview, stage, beats, inFlight, triggers, panic, entry>>
\* the transaction succeeds or reverts, a receipt of either is a confirmation
ApprovalMined ==
    /\ approval.state = "sent"
    /\ Set(approval.plan, [chain[approval.plan] EXCEPT !.approved = TRUE]) \/ UNCHANGED chain
    /\ approval' = [approval EXCEPT !.state = "mined"]
    /\ UNCHANGED <<session, read, stage, beats, inFlight, triggers, panic, entry>>
ApprovalEnds ==
    /\ approval.state # "idle"
    /\ Reread
    /\ approval' = IdleApproval
    /\ UNCHANGED <<session, chain, stage, beats, inFlight, triggers, panic, entry>>

ApprovalNext == ApprovalSession \/ Approve \/ ApprovalMined \/ ApprovalEnds

-----------------------------------------------------------------------------
(* The automatic trigger                                                   *)

IdleTrigger == [state |-> "idle", owner |-> None, plan |-> NoPlan]
TriggerState == <<Keeper.owner, Shown, Keeper.graceElapsed, Settled(Keeper)>>
Ready == Resolved /\ Keeper.owner # None /\ Keeper.graceElapsed /\ ~Settled(Keeper)

\* submitTrigger for the plan that is shown
Execute(owner, plan) ==
    /\ inFlight' = TRUE
    /\ \E i \in DOMAIN triggers :
           /\ triggers[i].state = "idle"
           /\ triggers' = [triggers EXCEPT ![i] = [state |-> "sent", owner |-> owner, plan |-> plan]]

\* the effect runs again when what it depends on changes; the guard outlives it
TriggerSession ==
    /\ PageSession
    /\ IF TriggerState' # TriggerState /\ Ready' /\ ~inFlight
       THEN Execute(Keeper'.owner, Shown') ELSE UNCHANGED <<inFlight, triggers>>
    /\ UNCHANGED <<stage, beats, approval, panic, entry>>

\* every 30 seconds
RetryTrigger ==
    /\ Ready /\ ~inFlight
    /\ Execute(Keeper.owner, Shown)
    /\ UNCHANGED <<session, planview, stage, beats, approval, panic, entry>>

TriggerSettles(i) ==
    LET plan == triggers[i].plan IN
    /\ triggers[i].state = "sent"
    /\ chain[plan].livenessActive /\ chain[plan].graceElapsed /\ ~Settled(chain[plan])
    /\ Set(plan, [chain[plan] EXCEPT !.inheritanceExecuted = TRUE])
    /\ triggers' = [triggers EXCEPT ![i].state = "answered"]
    /\ UNCHANGED <<session, read, stage, beats, approval, inFlight, panic, entry>>
TriggerRefused(i) ==
    /\ triggers[i].state = "sent"
    /\ triggers' = [triggers EXCEPT ![i].state = "answered"]
    /\ UNCHANGED <<session, planview, stage, beats, approval, inFlight, panic, entry>>
\* mutant: the guard is released by a success only
TriggerAnsweredOnce(i) ==
    /\ triggers[i].state = "answered"
    /\ triggers' = [triggers EXCEPT ![i] = IdleTrigger]
    /\ inFlight' = ~Settled(chain[triggers[i].plan])
    /\ UNCHANGED <<session, planview, stage, beats, approval, panic, entry>>

TriggerAnswered(i) ==
    /\ triggers[i].state = "answered"
    /\ triggers' = [triggers EXCEPT ![i] = IdleTrigger]
    /\ inFlight' = FALSE
    /\ UNCHANGED <<session, planview, stage, beats, approval, panic, entry>>

TriggerNext ==
    \/ TriggerSession \/ RetryTrigger
    \/ \E i \in DOMAIN triggers : TriggerSettles(i) \/ TriggerRefused(i) \/ TriggerAnswered(i)
    \/ \E plan \in DOMAIN chain : Lapse(plan) \/ CooldownPasses(plan) \/ BeatElsewhere(plan)

-----------------------------------------------------------------------------
(* The evacuation card                                                     *)

IdlePanic == [prepared |-> FALSE, signed |-> NoPlan, sent |-> NoPlan, owner |-> None, plan |-> NoPlan]

PanicSession ==
    /\ PageSession
    /\ UNCHANGED actions

EvacuationReadiness ==
    Resolved /\ Keeper.recoveryKey # None /\ Keeper.safeVault # None /\ ~Keeper.evacuationExecuted

Prepare ==
    /\ EvacuationReadiness /\ ~panic.prepared
    /\ panic' = [panic EXCEPT !.prepared = TRUE, !.signed = NoPlan]
    /\ UNCHANGED <<session, planview, stage, beats, approval, inFlight, triggers, entry>>
\* the signature is typed in, of the typed data of the plan that is shown
SignPayload ==
    /\ panic.prepared
    /\ panic' = [panic EXCEPT !.signed = Shown]
    /\ UNCHANGED <<session, planview, stage, beats, approval, inFlight, triggers, entry>>
Cancel ==
    /\ panic.prepared
    /\ panic' = [panic EXCEPT !.prepared = FALSE]
    /\ UNCHANGED <<session, planview, stage, beats, approval, inFlight, triggers, entry>>
SubmitEvacuation ==
    /\ panic.prepared /\ panic.signed # NoPlan /\ panic.sent = NoPlan /\ Resolved
    /\ panic' = [panic EXCEPT !.sent = panic.signed, !.owner = wallet, !.plan = Resolution]
    /\ UNCHANGED <<session, planview, stage, beats, approval, inFlight, triggers, entry>>
\* a signature of another plan's payload does not recover to the recovery key
EvacuationLands ==
    /\ panic.sent = panic.plan /\ panic.plan # NoPlan
    /\ chain[panic.plan].owner = panic.owner /\ Evacuates(panic.plan)
    /\ UNCHANGED <<session, read, actions>>
EvacuationAnswered ==
    /\ panic.sent # NoPlan
    /\ panic' = [panic EXCEPT !.sent = NoPlan, !.owner = None, !.plan = NoPlan]
    /\ UNCHANGED <<session, planview, stage, beats, approval, inFlight, triggers, entry>>

PanicNext ==
    PanicSession \/ Prepare \/ SignPayload \/ Cancel \/ SubmitEvacuation
        \/ EvacuationLands \/ EvacuationAnswered

-----------------------------------------------------------------------------
(* The recovery page of a Telegram link, which needs no session of a plan  *)

NoEntry == [state |-> "loading", plan |-> NoPlan, recoveryKey |-> None,
            evacuated |-> FALSE, sent |-> FALSE]

\* the link's plan as it is when the entry is read
LoadEntry ==
    /\ entry.state = "loading"
    /\ \/ entry' = [entry EXCEPT !.state = "error"]
       \/ \E plan \in DOMAIN chain :
              entry' = [state |-> "ready", plan |-> plan, recoveryKey |-> chain[plan].recoveryKey,
                        evacuated |-> chain[plan].evacuationExecuted, sent |-> FALSE]
    /\ UNCHANGED <<session, planview, stage, beats, approval, inFlight, triggers, panic>>
Authorize ==
    /\ entry.state = "ready" /\ wallet = entry.recoveryKey
    /\ ~entry.evacuated /\ ~entry.sent
    /\ entry' = [entry EXCEPT !.sent = TRUE]
    /\ UNCHANGED <<session, planview, stage, beats, approval, inFlight, triggers, panic>>
AuthorizationLands ==
    /\ entry.sent
    /\ chain[entry.plan].recoveryKey = entry.recoveryKey /\ Evacuates(entry.plan)
    /\ UNCHANGED <<session, read, actions>>
AuthorizationAnswered ==
    /\ entry.sent
    /\ entry' = [entry EXCEPT !.sent = FALSE]
    /\ UNCHANGED <<session, planview, stage, beats, approval, inFlight, triggers, panic>>

EntryNext ==
    \/ SwitchWallet /\ UNCHANGED <<planview, actions>>
    \/ LoadEntry \/ Authorize \/ AuthorizationLands \/ AuthorizationAnswered
    \/ \E plan \in DOMAIN chain : RecoveryRotates(plan)

ActionsInit ==
    /\ stage = "idle" /\ beats = [i \in 1 .. MaxRequests |-> IdleBeat]
    /\ approval = IdleApproval
    /\ inFlight = FALSE /\ triggers = [i \in 1 .. MaxRequests |-> IdleTrigger]
    /\ panic = IdlePanic /\ entry = NoEntry

\* What is sent is for the plan of the wallet that asks, or of the owner shown
\* with it, and the trigger has one request at a time, over changes of wallet
\* and retries.
ActionsAreOwn ==
    /\ \A i \in DOMAIN beats : beats[i].state # "idle" => beats[i].plan = planOf[beats[i].owner]
    /\ approval.state # "idle" => approval.plan = planOf[approval.owner]
    /\ panic.sent # NoPlan => panic.plan = planOf[panic.owner]
    /\ \A i \in DOMAIN triggers :
           triggers[i].state # "idle" => triggers[i].plan = planOf[triggers[i].owner]
    /\ Cardinality({i \in DOMAIN triggers : triggers[i].state # "idle"}) <= 1
=============================================================================
