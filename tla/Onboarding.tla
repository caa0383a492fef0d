----------------------------- MODULE Onboarding ------------------------------
(***************************************************************************)
(* The onboarding of a wallet without a plan: the controller that loads    *)
(* and saves a draft per wallet in the browser, the modal that edits it    *)
(* step by step, and the signed creations in flight, which outlive the     *)
(* modal that sent them.                                                   *)
(*                                                                         *)
(* A modal keeps whether it waits for a creation and the evidence of a     *)
(* verified one; closing it, or a wallet that has a plan or is not         *)
(* resolved, unmounts it and loses both.                                   *)
(***************************************************************************)
EXTENDS PlanForms, Session

CONSTANTS
    NoDraft,
    StoredDrafts,   \* drafts of earlier visits
    MaxEdits, MaxCreations

VARIABLES
    draft,          \* the draft shown
    stored,         \* localStorage: the draft of each owner
    dismissed,      \* owners whose setup is closed, one at most
    modal,          \* [creating, verified] of the mounted modal
    creations,      \* [state, draft, live]: live while its modal is mounted
    edits           \* what the user did, up to MaxEdits
onboarding == <<draft, stored, dismissed, modal, creations, edits>>

EmptyTiming == [advanced |-> FALSE, timeoutDays |-> 2, graceDays |-> 1,
                timeoutSeconds |-> 0, graceSeconds |-> 0]
CreateOnboardingDraft(owner) ==
    [owner |-> owner, step |-> 1, timing |-> EmptyTiming, beneficiaries |-> <<>>,
     recoveryKey |-> None, safeVault |-> None, allowSharedRecovery |-> FALSE, assets |-> <<>>]
LoadOnboardingDraft(owner) ==
    IF stored[owner] = NoDraft THEN CreateOnboardingDraft(owner) ELSE stored[owner]

Drafts == [owner : Owners, step : 1 .. 7, timing : Timings, beneficiaries : Seq(Rows),
           recoveryKey : Addresses, safeVault : Addresses, allowSharedRecovery : BOOLEAN,
           assets : Seq(Tokens \cup {None})]
ASSUME DraftsAssumption == StoredDrafts \subseteq Drafts /\ NoDraft \notin Drafts

ClosedModal == [creating |-> FALSE, verified |-> FALSE]
IdleCreation == [state |-> "idle", draft |-> NoDraft, live |-> FALSE]
Mounted == Missing /\ draft # NoDraft /\ wallet \notin dismissed

-----------------------------------------------------------------------------
(* Validation and the request                                              *)

StepError(d, step) ==
    \/ step = 1 /\ d.owner # wallet
    \/ step = 2 /\ ~OnboardingTiming(d.timing)
    \/ step = 3 /\ ~OnboardingBeneficiaries(d.beneficiaries)
    \/ step = 4 /\ ~RecoveryForm(d.owner, d)
    \/ step = 5 /\ ~OnboardingAssets(d.assets)

\* the review checks every step again
ValidateOnboardingStep(d, step) ==
    \A s \in IF step = 6 THEN 1 .. 5 ELSE {step} : ~StepError(d, s)

BuildPlanCreationRequest(d) ==
    [settings |-> OnboardingPayload(d.timing),
     wallets |-> Wallets(d.beneficiaries), shares |-> Shares(d.beneficiaries),
     recoveryKey |-> d.recoveryKey, safeVault |-> d.safeVault,
     allowSharedRecovery |-> d.allowSharedRecovery, tokens |-> d.assets]

-----------------------------------------------------------------------------
(* The controller                                                          *)

MissingOwner == IF Missing THEN wallet ELSE NoDraft

SaveOnboardingDraft(d) ==
    stored' = IF d = NoDraft THEN stored ELSE [stored EXCEPT ![d.owner] = d]

\* the draft follows the wallet whose plan is missing
SyncDraft ==
    IF MissingOwner' = MissingOwner THEN UNCHANGED <<draft, stored>>
    ELSE /\ draft' = IF Missing' THEN LoadOnboardingDraft(wallet') ELSE NoDraft
         /\ SaveOnboardingDraft(draft')

\* what is left of the modal and of the creations it awaits
KeepMounted(m, cs) ==
    /\ modal' = IF Mounted' THEN m ELSE ClosedModal
    /\ creations' = [i \in DOMAIN cs |-> [cs[i] EXCEPT !.live = @ /\ Mounted']]

OnboardingSession ==
    /\ SwitchWallet \/ Resolve \/ FactoryUnread
    /\ SyncDraft
    /\ UNCHANGED <<dismissed, edits>>
    /\ KeepMounted(modal, creations)

Dismiss ==
    /\ Mounted
    /\ dismissed' = {wallet}
    /\ UNCHANGED <<session, draft, stored, edits>>
    /\ KeepMounted(modal, creations)

FinishSetup ==
    /\ Missing /\ draft # NoDraft /\ wallet \in dismissed
    /\ dismissed' = {}
    /\ UNCHANGED <<session, draft, stored, modal, creations, edits>>

\* the connected wallet's draft is removed and the queries are invalidated
Finish ==
    /\ Mounted /\ draft.step = 7 /\ modal.verified
    /\ stored' = [stored EXCEPT ![wallet] = NoDraft]
    /\ UNCHANGED <<session, draft, dismissed, modal, creations, edits>>

-----------------------------------------------------------------------------
(* The modal                                                               *)

Change(d) ==
    /\ draft' = d
    /\ SaveOnboardingDraft(d)
    /\ UNCHANGED <<session, dismissed>>
Navigate(step) == Change([draft EXCEPT !.step = step]) /\ UNCHANGED <<modal, creations, edits>>

Continue ==
    /\ Mounted /\ draft.step \in 1 .. 5 /\ ~modal.creating
    /\ ValidateOnboardingStep(draft, draft.step)
    /\ Navigate(draft.step + 1)

Back ==
    /\ Mounted /\ draft.step \in 2 .. 6 /\ ~modal.creating
    /\ Navigate(draft.step - 1)

\* the fields of a step
TimingStep ==
    \E t \in EditTiming(draft.timing) \cup
             {EnableAdvanced(draft.timing, draft.timing.timeoutDays * DAY, draft.timing.graceDays * DAY)} :
        Change([draft EXCEPT !.timing = t])

BeneficiariesStep ==
    \E list \in AddBeneficiary(draft.beneficiaries) \cup EditBeneficiary(draft.beneficiaries)
                    \cup RemoveRow(draft.beneficiaries) :
        Change([draft EXCEPT !.beneficiaries = list])

RecoveryStep ==
    \/ \E a \in Addresses : \/ Change([draft EXCEPT !.recoveryKey = a])
                            \/ Change([draft EXCEPT !.safeVault = a])
    \/ /\ draft.recoveryKey = draft.safeVault /\ draft.recoveryKey # None
       /\ Change([draft EXCEPT !.allowSharedRecovery = ~@])

AssetsStep ==
    \E list \in PickToken(draft.assets) \cup EditToken(draft.assets) \cup RemoveRow(draft.assets) :
        Change([draft EXCEPT !.assets = list])

EditStep ==
    /\ Mounted /\ edits < MaxEdits
    /\ \/ draft.step = 2 /\ TimingStep
       \/ draft.step = 3 /\ BeneficiariesStep
       \/ draft.step = 4 /\ RecoveryStep
       \/ draft.step = 5 /\ AssetsStep
    /\ edits' = edits + 1
    /\ UNCHANGED <<modal, creations>>

-----------------------------------------------------------------------------
(* Creations                                                               *)

CreatePlan ==
    /\ Mounted /\ draft.step = 6 /\ ~modal.creating
    /\ ValidateOnboardingStep(draft, 6)
    /\ \E i \in DOMAIN creations :
           /\ creations[i].state = "idle"
           /\ creations' = [creations EXCEPT ![i] =
                                [state |-> "sent", draft |-> draft, live |-> TRUE]]
    /\ modal' = [modal EXCEPT !.creating = TRUE]
    /\ UNCHANGED <<session, draft, stored, dismissed, edits>>

\* the route relays the signed request and the factory creates the plan
CreationLands(i) ==
    LET owner == creations[i].draft.owner IN
    /\ creations[i].state = "sent"
    /\ ParsePlan(owner, BuildPlanCreationRequest(creations[i].draft))
    /\ planOf[owner] = NoPlan
    /\ planOf' = [planOf EXCEPT ![owner] = PlanFor(owner)]
    /\ creations' = [creations EXCEPT ![i].state = "landed"]
    /\ UNCHANGED <<wallet, cache, draft, stored, dismissed, modal, edits>>

\* the answer shows its evidence in the modal that asked, and writes the draft
\* that was sent at the last step wherever the controller is
CreationVerified(i) ==
    LET c == creations[i] IN
    /\ c.state = "landed"
    /\ Change([c.draft EXCEPT !.step = 7])
    /\ UNCHANGED edits
    /\ KeepMounted(IF c.live THEN [creating |-> FALSE, verified |-> TRUE] ELSE modal,
                   [creations EXCEPT ![i] = IdleCreation])

\* a refused signature, an error answer or none
CreationFails(i) ==
    /\ creations[i].state # "idle"
    /\ modal' = IF creations[i].live THEN [modal EXCEPT !.creating = FALSE] ELSE modal
    /\ creations' = [creations EXCEPT ![i] = IdleCreation]
    /\ UNCHANGED <<session, draft, stored, dismissed, edits>>

OnboardingInit ==
    /\ draft = NoDraft
    /\ \E kept \in StoredDrafts \cup {NoDraft} :
           stored = [owner \in Owners |-> IF kept # NoDraft /\ kept.owner = owner THEN kept ELSE NoDraft]
    /\ dismissed = {} /\ modal = ClosedModal /\ edits = 0
    /\ creations = [i \in 1 .. MaxCreations |-> IdleCreation]

OnboardingNext ==
    \/ OnboardingSession \/ Dismiss \/ FinishSetup \/ Finish
    \/ Continue \/ Back \/ EditStep \/ CreatePlan
    \/ \E i \in DOMAIN creations : CreationLands(i) \/ CreationVerified(i) \/ CreationFails(i)

\* A creation in flight was reviewed: the route and the contract accept it as
\* it is, except for shares typed finer than a hundredth of a percent, for
\* days beyond the safe integers and for a custom token named twice.
CreationsAreReviewed ==
    \A i \in DOMAIN creations :
        LET d == creations[i].draft
            config == BuildPlanCreationRequest(d) IN
        creations[i].state # "idle" =>
            /\ WholeHundredths(d.beneficiaries) /\ Distinct(d.assets)
                   /\ (d.timing.advanced \/ SafePolicy(config.settings)) =>
                   ParsePlan(d.owner, config)
            /\ ParsePlan(d.owner, config) /\ Len(d.assets) <= MAX_TRACKED_TOKENS =>
                   ValidPlan(d.owner, config)
=============================================================================
