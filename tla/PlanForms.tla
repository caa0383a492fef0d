------------------------------ MODULE PlanForms ------------------------------
(***************************************************************************)
(* What the forms of the dashboard accept, what they send, and what the    *)
(* routes' parsers accept of it: the onboarding validators, the validators *)
(* of the settings editor and the server's parsers, next to the rules of   *)
(* the contract in PlanRules.                                              *)
(*                                                                         *)
(* A typed share is a number of half hundredths of a percent, the finest   *)
(* grain that rounding tells apart; None is an address that is malformed   *)
(* or zero.                                                                *)
(***************************************************************************)
EXTENDS PlanRules, SequencesExt

CONSTANTS
    DAY,        \* seconds of a day
    MaxSafe,    \* Number.MAX_SAFE_INTEGER, 2^53 - 1
    DayInputs, ShareInputs, TokenInputs     \* what a user types

ASSUME FormsAssumption ==
    /\ DAY \in Nat \ {0}
    /\ MaxSafe \in Nat \ {0} /\ 2 * MaxSafe <= MaxU64
    /\ DayInputs \subseteq Int /\ ShareInputs \subseteq Int
    /\ TokenInputs \subseteq Tokens \cup {None}

\* a row of the beneficiaries and a timing, as the forms hold them
Rows == [address : Addresses, share : Int]
Timings == [advanced : BOOLEAN, timeoutDays : Int, graceDays : Int,
            timeoutSeconds : Int, graceSeconds : Int]

Wallets(list) == [i \in DOMAIN list |-> list[i].address]
Distinct(seq) == \A i, j \in DOMAIN seq : seq[i] = seq[j] => i = j
Present(seq) == \A i \in DOMAIN seq : seq[i] # None

\* Math.round of a typed share to basis points
Round(half) == (half + 1) \div 2
Shares(list) == [i \in DOMAIN list |-> Round(list[i].share)]
WholeHundredths(list) == \A i \in DOMAIN list : list[i].share % 2 = 0
TypedTotal(list) == SumFunction([i \in DOMAIN list |-> list[i].share])

-----------------------------------------------------------------------------
(* The forms                                                               *)

OnboardingBeneficiaries(list) ==
    /\ Len(list) \in 1 .. MAX_BENEFICIARIES
    /\ Present(Wallets(list)) /\ Distinct(Wallets(list))
    /\ \A i \in DOMAIN list : list[i].share \in 1 .. 2 * TOTAL_BPS
    /\ TypedTotal(list) = 2 * TOTAL_BPS

\* the settings also ask for whole hundredths
SettingsBeneficiaries(list) ==
    /\ Len(list) \in 1 .. MAX_BENEFICIARIES
    /\ Present(Wallets(list)) /\ Distinct(Wallets(list))
    /\ \A i \in DOMAIN list : list[i].share > 0
    /\ WholeHundredths(list)
    /\ TypedTotal(list) = 2 * TOTAL_BPS

\* A timing as the forms hold it: days, and when it is advanced the seconds
\* typed as days, hours, minutes and seconds.  The settings add the heartbeat,
\* which no field edits.
AdvancedTiming(t) ==
    /\ t.timeoutSeconds >= 1 /\ t.graceSeconds >= 0
    /\ t.timeoutSeconds + t.graceSeconds <= MaxSafe

\* days have no bound from above
OnboardingTiming(t) ==
    IF t.advanced THEN AdvancedTiming(t)
    ELSE t.timeoutDays >= 1 /\ t.graceDays >= 0 /\ t.graceDays < t.timeoutDays

\* the settings bound neither the heartbeat from below nor the grace period
\* by the timeout
SettingsTiming(t) ==
    IF t.advanced THEN AdvancedTiming(t)
    ELSE t.timeoutDays >= 1 /\ t.graceDays >= 0

\* Math.round(seconds / DAY)
SecondsToDays(seconds) == (2 * seconds + DAY) \div (2 * DAY)

RecoveryForm(owner, r) ==
    /\ r.recoveryKey # None /\ r.safeVault # None
    /\ owner \notin {r.recoveryKey, r.safeVault}
    /\ r.recoveryKey # r.safeVault \/ r.allowSharedRecovery

OnboardingAssets(tokens) == Present(tokens)
SettingsTokens(tokens) == Present(tokens) /\ Distinct(tokens)

\* the policy that is sent: a beat a second with advanced timing, else a beat
\* a day from onboarding and the rounded current one from the settings
AdvancedPolicy(t) ==
    [heartbeatInterval |-> 1, timeoutDuration |-> t.timeoutSeconds, gracePeriod |-> t.graceSeconds]
PolicyInDays(heartbeatDays, t) ==
    [heartbeatInterval |-> heartbeatDays * DAY, timeoutDuration |-> t.timeoutDays * DAY,
     gracePeriod |-> t.graceDays * DAY]
OnboardingPayload(t) == IF t.advanced THEN AdvancedPolicy(t) ELSE PolicyInDays(1, t)
SettingsPayload(t, heartbeat) ==
    IF t.advanced THEN AdvancedPolicy(t) ELSE PolicyInDays(SecondsToDays(heartbeat), t)

\* a new row of the beneficiaries, the edit of one, the removal of any
AddBeneficiary(list) ==
    IF Len(list) < MAX_BENEFICIARIES THEN {Append(list, [address |-> None, share |-> 0])} ELSE {}
EditBeneficiary(list) ==
    UNION {{[list EXCEPT ![i].address = a] : a \in Addresses} \cup
           {[list EXCEPT ![i].share = s] : s \in ShareInputs} : i \in DOMAIN list}
RemoveRow(list) == {RemoveAt(list, i) : i \in DOMAIN list}

\* a token of the catalog is added once, an empty custom row at any time
PickToken(list) == {Append(list, token) : token \in TokenInputs \ ({None} \cup Range(list))}
EditToken(list) ==
    {Append(list, None)} \cup
    UNION {{[list EXCEPT ![i] = token] : token \in TokenInputs} : i \in DOMAIN list}

\* advanced timing on, from two durations, and off
EnableAdvanced(t, timeout, grace) ==
    [t EXCEPT !.advanced = TRUE, !.timeoutSeconds = timeout, !.graceSeconds = grace]
\* a typed number of days, or of an advanced duration
EditTiming(t) ==
    IF t.advanced
    THEN {[t EXCEPT !.timeoutSeconds = n] : n \in DayInputs} \cup
         {[t EXCEPT !.graceSeconds = n] : n \in DayInputs} \cup {[t EXCEPT !.advanced = FALSE]}
    ELSE {[t EXCEPT !.timeoutDays = n] : n \in DayInputs} \cup
         {[t EXCEPT !.graceDays = n] : n \in DayInputs}

-----------------------------------------------------------------------------
(* The routes' parsers                                                     *)

\* mutant: the total is trusted
UnsummedBeneficiaries(wallets, shares) ==
    /\ Len(wallets) = Len(shares) /\ Len(wallets) \in 1 .. MAX_BENEFICIARIES
    /\ Present(wallets) /\ Distinct(wallets)
    /\ \A i \in DOMAIN shares : shares[i] >= 1

ParseBeneficiaries(wallets, shares) ==
    /\ Len(wallets) = Len(shares) /\ Len(wallets) \in 1 .. MAX_BENEFICIARIES
    /\ Present(wallets) /\ Distinct(wallets)
    /\ \A i \in DOMAIN shares : shares[i] >= 1
    /\ SumFunction(shares) = TOTAL_BPS

SafePolicy(p) == \A n \in {p.heartbeatInterval, p.timeoutDuration, p.gracePeriod} : n <= MaxSafe
ParseLiveness(p) ==
    /\ p.heartbeatInterval >= 1 /\ p.timeoutDuration >= 1 /\ p.gracePeriod >= 0
    /\ SafePolicy(p)

\* plan creation checks the separation of the recovery wallets, a change of
\* the recovery policy leaves it to the contract
ParseRecovery(r) == r.recoveryKey # None /\ r.safeVault # None
RecoverySeparation(owner, r) ==
    /\ owner \notin {r.recoveryKey, r.safeVault}
    /\ r.recoveryKey # r.safeVault \/ r.allowSharedRecovery

ParseTokens(tokens) == Present(tokens) /\ Distinct(tokens)

\* a plan creation
ParsePlan(owner, config) ==
    /\ ParseBeneficiaries(config.wallets, config.shares)
    /\ ParseLiveness(config.settings)
    /\ ParseRecovery(config) /\ RecoverySeparation(owner, config)
    /\ ParseTokens(config.tokens)

\* a change of one section of a plan
Sections == {"beneficiaries", "liveness", "recovery", "trackedTokens"}
ParsePayload(section, payload) ==
    \/ section = "beneficiaries" /\ ParseBeneficiaries(payload.wallets, payload.shares)
    \/ section = "liveness" /\ ParseLiveness(payload)
    \/ section = "recovery" /\ ParseRecovery(payload)
    \/ section = "trackedTokens" /\ ParseTokens(payload.tokens)

-----------------------------------------------------------------------------
(* Agreement, for one value of each form                                   *)

\* A set of shares of whole hundredths that a form accepts is accepted by the
\* route and by the contract; one that the route accepts, typed anywhere, is
\* accepted by the contract.
SharesAgree(list) ==
    LET parsed == ParseBeneficiaries(Wallets(list), Shares(list)) IN
    /\ OnboardingBeneficiaries(list) /\ WholeHundredths(list) => parsed
    /\ SettingsBeneficiaries(list) => parsed
    /\ parsed => ValidAllocation(Wallets(list), Shares(list))

\* The same of a timing.  The route accepts every advanced timing a form
\* accepts, and days whose seconds are safe integers, but for the heartbeat the
\* settings round to zero days; what it accepts is a policy of the contract
\* whose timeout and grace period can be added in 64 bits, so that no policy
\* from the dashboard makes the check for inheritance revert.
TimingsAgree(t, heartbeat) ==
    LET onboarded == OnboardingPayload(t)
        updated == SettingsPayload(t, heartbeat)
    IN  /\ OnboardingTiming(t) /\ (t.advanced \/ SafePolicy(onboarded)) => ParseLiveness(onboarded)
        /\ SettingsTiming(t) /\ updated.heartbeatInterval > 0 /\ (t.advanced \/ SafePolicy(updated)) =>
               ParseLiveness(updated)
        /\ \A p \in {onboarded, updated} :
               ParseLiveness(p) => ValidSettings(p) /\ p.timeoutDuration + p.gracePeriod <= MaxU64

\* The forms' checks of the recovery wallets are the contract's.
RecoveriesAgree(owner, r) ==
    /\ RecoveryForm(owner, r) => ParseRecovery(r) /\ RecoverySeparation(owner, r)
    /\ ParseRecovery(r) /\ RecoverySeparation(owner, r) <=>
           ValidRecovery(owner, r.recoveryKey, r.safeVault, r.allowSharedRecovery)

\* A list of tracked tokens within the contract's limit, which nothing in the
\* dashboard checks, is accepted everywhere.
TokensAgree(tokens) ==
    /\ SettingsTokens(tokens) => ParseTokens(tokens)
    /\ ParseTokens(tokens) /\ Len(tokens) <= MAX_TRACKED_TOKENS => ValidTokenList(tokens)
=============================================================================
