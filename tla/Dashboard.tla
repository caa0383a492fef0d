------------------------------ MODULE Dashboard ------------------------------
(***************************************************************************)
(* The dashboard: one page or component at a time over the session and the *)
(* plan they share.  What a component holds no other reads, so each is     *)
(* explored alone, with every change of wallet, answer and plan that can   *)
(* happen under it.                                                        *)
(***************************************************************************)
EXTENDS Onboarding, PlanSettings, PlanActions, TelegramPanel

CONSTANTS
    InitialPlans(_),    \* what the plan of an owner may hold at first
    RecoveryForms       \* recovery sections a user may type

\* A plan names its owner, one of the wallets of the browser.
ASSUME PlansAssumption ==
    /\ Owners \subseteq Accounts
    /\ \A owner \in Owners : \A plan \in InitialPlans(owner) : plan \in Plans /\ plan.owner = owner

VARIABLES
    part,       \* the component explored
    form        \* a form being typed, and the heartbeat of the plan it is for

Parts == {"forms", "onboarding", "settings", "stop", "checkIn", "approval", "trigger",
          "evacuation", "entry", "telegram"}
dashboardVars == <<session, planview, onboarding, settings, actions, telegram, part, form>>

-----------------------------------------------------------------------------
(* A form, typed field by field                                            *)

EmptyForm == [beneficiaries |-> <<>>, timing |-> EmptyTiming, tokens |-> <<>>, heartbeat |-> DAY]

TypeForm ==
    \/ \E list \in AddBeneficiary(form.beneficiaries) \cup EditBeneficiary(form.beneficiaries)
                       \cup RemoveRow(form.beneficiaries) :
           form.timing = EmptyTiming /\ form.tokens = <<>>
               /\ form' = [form EXCEPT !.beneficiaries = list]
    \/ \E timing \in EditTiming(form.timing) \cup
           {EnableAdvanced(form.timing, form.timing.timeoutDays * DAY, form.timing.graceDays * DAY)},
          heartbeat \in DayInputs :
           form.beneficiaries = <<>> /\ form.tokens = <<>>
               /\ form' = [form EXCEPT !.timing = timing, !.heartbeat = heartbeat]
    \/ \E list \in PickToken(form.tokens) \cup EditToken(form.tokens) \cup RemoveRow(form.tokens) :
           form.beneficiaries = <<>> /\ form.timing = EmptyTiming
               /\ Len(list) <= MAX_TRACKED_TOKENS + 1
               /\ form' = [form EXCEPT !.tokens = list]

-----------------------------------------------------------------------------

FormsPart ==
    /\ part = "forms" /\ TypeForm
    /\ UNCHANGED <<session, planview, onboarding, settings, actions, telegram, part>>
OnboardingPart ==
    /\ part = "onboarding" /\ OnboardingNext
    /\ UNCHANGED <<planview, settings, actions, telegram, part, form>>
SettingsPart(name, Step) ==
    /\ part = name /\ Step
    /\ UNCHANGED <<onboarding, actions, telegram, part, form>>
ActionsPart(name, Step) ==
    /\ part = name /\ Step
    /\ UNCHANGED <<onboarding, settings, telegram, part, form>>
TelegramPart ==
    /\ part = "telegram" /\ TelegramNext
    /\ UNCHANGED <<planview, onboarding, settings, actions, part, form>>

DashboardInit ==
    /\ part \in Parts /\ form = EmptyForm
    /\ SessionInit
    /\ planOf \in [Owners -> {NoPlan} \cup PlansOf(Owners)]
    /\ \A owner \in Owners : planOf[owner] \in {NoPlan, PlanFor(owner)}
    /\ part = "onboarding" <=> \E owner \in Owners : planOf[owner] = NoPlan
    /\ chain \in [PlansOf(Owners) -> UNION {InitialPlans(owner) : owner \in Owners}]
    /\ \A owner \in Owners : chain[PlanFor(owner)] \in InitialPlans(owner)
    /\ read = [plan \in PlansOf(Owners) |-> EmptyPlan]
    /\ OnboardingInit /\ SettingsInit /\ ActionsInit /\ TelegramInit
    /\ part = "onboarding" <=> \E owner \in Owners : stored[owner] # NoDraft
    /\ \A owner \in Owners : stored[owner] # NoDraft => planOf[owner] = NoPlan
    /\ part = "telegram" \/ linked = {}
    /\ part = "forms" => wallet = CHOOSE owner \in Owners : TRUE

DashboardNext ==
    \/ FormsPart
    \/ OnboardingPart
    \/ SettingsPart("settings", SettingsNext)
    \/ SettingsPart("stop", StopNext)
    \/ ActionsPart("checkIn", CheckInNext)
    \/ ActionsPart("approval", ApprovalNext)
    \/ ActionsPart("trigger", TriggerNext)
    \/ ActionsPart("evacuation", PanicNext)
    \/ ActionsPart("entry", EntryNext)
    \/ TelegramPart

\* Of the trigger: the queries of the page are answered, the retry timer
\* fires, and the route answers what it is sent, with a distribution or a
\* refusal.  Nothing says that it ever distributes: KeeperHub replays a failed
\* execution under the key of the heartbeat.
Fairness ==
    /\ WF_dashboardVars(ActionsPart("trigger", TriggerSession /\ wallet' = wallet))
    /\ WF_dashboardVars(ActionsPart("trigger", RetryTrigger))
    /\ \A i \in 1 .. MaxRequests :
           /\ WF_dashboardVars(ActionsPart("trigger", TriggerSettles(i) \/ TriggerRefused(i)))
           /\ WF_dashboardVars(ActionsPart("trigger", TriggerAnswered(i)))

DashboardSpec == DashboardInit /\ [][DashboardNext]_dashboardVars /\ Fairness

-----------------------------------------------------------------------------
(* Properties                                                              *)

\* Whatever is typed, the onboarding, the settings, the routes' parsers and
\* the contract agree on it, but for the shares, heartbeats and lengths that
\* SharesAgree, TimingsAgree and TokensAgree name.
FormsAgree ==
    part = "forms" =>
        /\ SharesAgree(form.beneficiaries)
        /\ TimingsAgree(form.timing, form.heartbeat)
        /\ TokensAgree(form.tokens)
        /\ \A owner \in Owners, r \in RecoveryForms : RecoveriesAgree(owner, r)

\* Over changes of wallet, late answers and dialogs closed while a request is
\* in flight: what is sent was reviewed, is for the plan of the owner who
\* signs it, and the trigger has one request in flight.
RequestsAreSound == CreationsAreReviewed /\ SavesAreConsistent /\ ActionsAreOwn

Due(owner) ==
    LET plan == chain[PlanFor(owner)] IN
    plan.livenessActive /\ plan.graceElapsed /\ ~Settled(plan)

AskedFor(owner) ==
    \E i \in DOMAIN triggers : triggers[i].state = "sent" /\ triggers[i].plan = PlanFor(owner)

\* A dashboard left open on a plan whose grace period has elapsed asks for its
\* distribution again and again while it is due: one failed trigger, or one
\* begun for another wallet, does not keep the guard of the next.
DuePlanIsTriggered ==
    \A owner \in Owners :
        []<>~(part = "trigger" /\ wallet = owner /\ Due(owner) /\ ~AskedFor(owner))
=============================================================================
