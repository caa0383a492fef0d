---------------------------- MODULE PlanSettings -----------------------------
(***************************************************************************)
(* The settings editor: the register of the four signed policies, one      *)
(* dialog at a time, and the updates in flight, which outlive the dialog   *)
(* that sent them.  A dialog's draft is a snapshot of the plan as read     *)
(* when the dialog was launched; the plan and the owner of a request are   *)
(* those of the moment it is signed.                                       *)
(***************************************************************************)
EXTENDS PlanView

CONSTANTS MaxSettingsEdits, MaxSaves

VARIABLES
    view,           \* "none", "review", "delete" or the section edited
    sdraft,         \* the settings draft
    dialog,         \* [pending, confirmed] of the mounted dialog
    saves,          \* updates, MaxSaves in all: [state, owner, plan, section, signer, payload, live]
    stop,           \* the transaction that disables a plan, one in all
    sedits          \* fields edited, up to MaxSettingsEdits
settings == <<view, sdraft, dialog, saves, stop, sedits>>

NoFields == <<>>
FreshDialog == [pending |-> FALSE, confirmed |-> FALSE]
IdleSave == [state |-> "idle", owner |-> None, plan |-> NoPlan, section |-> "none",
             signer |-> None, payload |-> <<>>, live |-> FALSE]
OverSave == [IdleSave EXCEPT !.state = "over"]
IdleStop == [state |-> "idle", plan |-> NoPlan, live |-> FALSE]
OverStop == [IdleStop EXCEPT !.state = "over"]

\* the settings draft of a plan, as far as the section shows it: shares in
\* percent, durations in days
DraftFrom(p, section) ==
    CASE section = "beneficiaries" ->
           [beneficiaries |-> [i \in DOMAIN p.beneficiaries |->
                                  [p.beneficiaries[i] EXCEPT !.share = 2 * @]]]
      [] section = "liveness" ->
           [settings |-> p.settings,
            timing |-> [advanced |-> FALSE, timeoutSeconds |-> 0, graceSeconds |-> 0,
                        timeoutDays |-> SecondsToDays(p.settings.timeoutDuration),
                        graceDays |-> SecondsToDays(p.settings.gracePeriod)]]
      [] section = "recovery" ->
           [recoveryKey |-> p.recoveryKey, safeVault |-> p.safeVault,
            allowSharedRecovery |-> p.recoveryKey # None /\ p.recoveryKey = p.safeVault]
      [] section = "trackedTokens" -> [tokens |-> p.tokens]

EditorShown == Resolved /\ ~Settled(Keeper)

ValidateSection(section, d, owner) ==
    \/ section = "beneficiaries" /\ SettingsBeneficiaries(d.beneficiaries)
    \/ section = "liveness" /\ SettingsTiming(d.timing)
    \/ section = "recovery" /\ RecoveryForm(owner, d)
    \/ section = "trackedTokens" /\ SettingsTokens(d.tokens)

PayloadFor(section, d) ==
    CASE section = "beneficiaries" ->
           [wallets |-> Wallets(d.beneficiaries), shares |-> Shares(d.beneficiaries)]
      [] section = "liveness" -> SettingsPayload(d.timing, d.settings.heartbeatInterval)
      [] section = "recovery" ->
           [recoveryKey |-> d.recoveryKey, safeVault |-> d.safeVault,
            allowSharedRecovery |-> d.allowSharedRecovery]
      [] section = "trackedTokens" -> [tokens |-> d.tokens]

ExpectedSigner(section) ==
    IF section = "recovery" /\ Keeper.recoveryKey # None THEN Keeper.recoveryKey ELSE wallet

-----------------------------------------------------------------------------
(* Dialogs                                                                 *)

\* The dialog shown next starts fresh, and what the one it replaces sent is
\* orphaned.  The draft of a closed dialog is not read again.
Orphaned(sent) == [i \in DOMAIN sent |-> [sent[i] EXCEPT !.live = FALSE]]
Show(next, sent) ==
    /\ view' = next
    /\ dialog' = FreshDialog
    /\ saves' = Orphaned(sent)
Open(next) == Show(next, saves) /\ stop' = [stop EXCEPT !.live = FALSE]

Launch ==
    /\ EditorShown /\ view \in {"none", "review"}
    /\ \E section \in Sections : Open(section) /\ sdraft' = DraftFrom(Keeper, section)
    /\ UNCHANGED <<session, planview, sedits>>

Review ==
    /\ EditorShown /\ view = "none"
    /\ Open("review")
    /\ UNCHANGED <<session, planview, sdraft, sedits>>

DeletePlan ==
    /\ EditorShown /\ view = "none" /\ Keeper.livenessActive
    /\ Open("delete")
    /\ UNCHANGED <<session, planview, sdraft, sedits>>

Close ==
    /\ EditorShown /\ view # "none"
    /\ Open("none") /\ sdraft' = NoFields
    /\ UNCHANGED <<session, planview, sedits>>

\* The editor stays mounted over a change of wallet and so do its view and
\* draft; the dialogs live as long as there is a plan to edit.
SettingsSession ==
    /\ SwitchWallet \/ Resolve
    /\ UNCHANGED planview
    /\ IF EditorShown' THEN UNCHANGED <<dialog, saves, stop, view>> ELSE Open(view)
    /\ UNCHANGED <<sdraft, sedits>>
SettingsRefetch ==
    /\ Refetch
    /\ IF EditorShown' THEN UNCHANGED <<dialog, saves, stop, view>> ELSE Open(view)
    /\ UNCHANGED <<sdraft, sedits>>

\* the fields of a section
BeneficiaryEditor ==
    \E list \in AddBeneficiary(sdraft.beneficiaries) \cup EditBeneficiary(sdraft.beneficiaries)
                    \cup RemoveRow(sdraft.beneficiaries) :
        sdraft' = [sdraft EXCEPT !.beneficiaries = list]
\* advanced timing starts from the plan's seconds, not from the typed days
TimingEditor ==
    \E t \in EditTiming(sdraft.timing) \cup
             {EnableAdvanced(sdraft.timing, sdraft.settings.timeoutDuration, sdraft.settings.gracePeriod)} :
        sdraft' = [sdraft EXCEPT !.timing = t]
RecoveryEditor ==
    \/ \E a \in Addresses : \/ sdraft' = [sdraft EXCEPT !.recoveryKey = a]
                            \/ sdraft' = [sdraft EXCEPT !.safeVault = a]
    \/ sdraft' = [sdraft EXCEPT !.allowSharedRecovery = ~@]
AssetEditor ==
    \E list \in PickToken(sdraft.tokens) \cup EditToken(sdraft.tokens) \cup RemoveRow(sdraft.tokens) :
        sdraft' = [sdraft EXCEPT !.tokens = list]
SectionEditor ==
    /\ EditorShown /\ sedits < MaxSettingsEdits
    /\ \/ view = "beneficiaries" /\ BeneficiaryEditor
       \/ view = "liveness" /\ TimingEditor
       \/ view = "recovery" /\ RecoveryEditor
       \/ view = "trackedTokens" /\ AssetEditor
    /\ sedits' = sedits + 1
    /\ UNCHANGED <<session, planview, view, dialog, saves, stop>>

-----------------------------------------------------------------------------
(* Updates                                                                 *)

\* unsignedRequest, signed by the account the section asks for
Save ==
    /\ EditorShown /\ view \in Sections /\ ~dialog.pending
    /\ ValidateSection(view, sdraft, wallet)
    /\ \E i \in DOMAIN saves :
           /\ saves[i].state = "idle"
           /\ saves' = [saves EXCEPT ![i] =
                  [state |-> "sent", owner |-> wallet, plan |-> Resolution, section |-> view,
                   signer |-> ExpectedSigner(view), payload |-> PayloadFor(view, sdraft), live |-> TRUE]]
    /\ dialog' = [dialog EXCEPT !.pending = TRUE]
    /\ UNCHANGED <<session, planview, view, sdraft, stop, sedits>>

SaveLands(i) ==
    LET s == saves[i] IN
    /\ s.state = "sent"
    /\ ParsePayload(s.section, s.payload)
    /\ s.signer = ChainSigner(chain[s.plan], s.section) /\ s.owner = chain[s.plan].owner
    /\ SectionValid(s.owner, s.section, s.payload)
    /\ chain' = [chain EXCEPT ![s.plan] = WithSection(@, s.section, s.payload)]
    /\ saves' = [saves EXCEPT ![i].state = "landed"]
    /\ UNCHANGED <<session, read, view, sdraft, dialog, stop, sedits>>

\* the answer closes whatever dialog is open
SaveVerified(i) ==
    /\ saves[i].state = "landed"
    /\ Show("none", [saves EXCEPT ![i] = OverSave]) /\ sdraft' = NoFields
    /\ stop' = [stop EXCEPT !.live = FALSE]
    /\ UNCHANGED <<session, planview, sedits>>

SaveFails(i) ==
    /\ saves[i].state \in {"sent", "landed"}
    /\ dialog' = IF saves[i].live THEN [dialog EXCEPT !.pending = FALSE] ELSE dialog
    /\ saves' = [saves EXCEPT ![i] = OverSave]
    /\ UNCHANGED <<session, planview, view, sdraft, stop, sedits>>

-----------------------------------------------------------------------------
(* Stopping the plan                                                       *)

ConfirmDelete ==
    /\ EditorShown /\ view = "delete"
    /\ dialog' = [dialog EXCEPT !.confirmed = ~@]
    /\ UNCHANGED <<session, planview, view, sdraft, saves, stop, sedits>>

StopPlan ==
    /\ EditorShown /\ view = "delete" /\ dialog.confirmed /\ ~dialog.pending
    /\ stop.state = "idle"
    /\ stop' = [state |-> "sent", plan |-> Resolution, live |-> TRUE]
    /\ dialog' = [dialog EXCEPT !.pending = TRUE]
    /\ UNCHANGED <<session, planview, view, sdraft, saves, sedits>>

\* toggleLiveness(false) is mined, or reverts
StopMined ==
    /\ stop.state = "sent"
    /\ chain' \in {chain, [chain EXCEPT ![stop.plan].livenessActive = FALSE]}
    /\ stop' = [stop EXCEPT !.state = "mined"]
    /\ UNCHANGED <<session, read, view, sdraft, dialog, saves, sedits>>

\* a receipt of either status counts as a stop
Deleted ==
    /\ stop.state = "mined"
    /\ Reread
    /\ Show("none", saves) /\ sdraft' = NoFields
    /\ stop' = OverStop
    /\ UNCHANGED <<session, chain, sedits>>

StopFails ==
    /\ stop.state \in {"sent", "mined"}
    /\ dialog' = IF stop.live THEN [dialog EXCEPT !.pending = FALSE] ELSE dialog
    /\ stop' = OverStop
    /\ UNCHANGED <<session, planview, view, sdraft, saves, sedits>>

\* the estate of one of the plans is distributed meanwhile
EstateSettles ==
    /\ \A plan \in DOMAIN chain : ~Settled(chain[plan])
    /\ \E plan \in DOMAIN chain :
           chain' = [chain EXCEPT ![plan].inheritanceExecuted = TRUE]
    /\ UNCHANGED <<session, read, settings>>

SettingsInit ==
    /\ view = "none" /\ sdraft = NoFields /\ dialog = FreshDialog
    /\ saves = [i \in 1 .. MaxSaves |-> IdleSave]
    /\ stop = IdleStop /\ sedits = 0

\* Updates and the stop are explored apart, each with every dialog.
DialogsNext ==
    \/ SettingsSession \/ SettingsRefetch
    \/ Launch \/ Review \/ DeletePlan \/ ConfirmDelete \/ Close
SettingsNext ==
    \/ DialogsNext \/ SectionEditor \/ Save
    \/ \E i \in DOMAIN saves : SaveLands(i) \/ SaveVerified(i) \/ SaveFails(i)
StopNext == DialogsNext \/ EstateSettles \/ StopPlan \/ StopMined \/ Deleted \/ StopFails

\* An update in flight is for the plan of the owner who signs it, and the
\* route and the contract accept what it says, except for a heartbeat of zero
\* days, for days beyond the safe integers and for a list of tokens longer than
\* the contract takes; what the route accepts of a policy the contract does too.
SavesAreConsistent ==
    \A i \in DOMAIN saves :
        LET s == saves[i] IN
        s.state \in {"sent", "landed"} =>
            /\ s.plan = planOf[s.owner]
            /\ s.section # "recovery" => s.signer = s.owner
            /\ (s.section = "liveness" => s.payload.heartbeatInterval > 0 /\ SafePolicy(s.payload)) =>
                   ParsePayload(s.section, s.payload)
            /\ ParsePayload(s.section, s.payload)
                   /\ (s.section = "trackedTokens" => Len(s.payload.tokens) <= MAX_TRACKED_TOKENS) =>
                   SectionValid(s.owner, s.section, s.payload)
=============================================================================
