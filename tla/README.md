# LegacyKeeper: TLA+ models, checks and proofs

LegacyKeeper is a continuity plan for a wallet. A contract per owner holds
ether and pulls ERC-20 tokens from the owner's wallet; if the owner stays
silent for a timeout and a grace period, anybody may have the estate
distributed to the beneficiaries; a separately registered recovery key may
evacuate it to a vault instead. Off chain, a dashboard relays signed actions
through KeeperHub, a durable workflow and several fallbacks trigger due
distributions, and Telegram carries alerts.

This directory models the parts that decide where the money goes and whether
it gets there. Paths are relative to the repository.

## The system

| Part | State | Operations | What is hard |
| --- | --- | --- | --- |
| Plan contract, `contracts/LegacyKeeper.sol` | owner, vault and recovery key, two nonce spaces, liveness record, beneficiaries, tracked tokens, executed flags, ether and token claims | heartbeats, direct and signed configuration, `executeInheritance(ERC20)`, `evacuate(Token)`, `withdraw`, `claimToken`, key rotation, ownership transfer | any relayer, any order; refusing recipients; rounding; uint64 periods; handover; two exclusive outcomes |
| Factory, `contracts/LegacyKeeperFactory.sol` | `planOf`, `nonceUsed` | `createPlan` | a creation is all or nothing; relayed signatures; plans change hands |
| Inheritance monitors, `dashboard/lib/inheritance-monitor*.ts`, `token-inheritance-monitor.ts`, `inheritance-trigger.ts` | none of their own; KeeperHub keeps executions by idempotency key, the activity ledger keeps outcomes | inspect, submit, settle, verify, record | several workers at once; stale reads; replayed and unknown outcomes; crashes |
| Inheritance watcher, `dashboard/workflows/inheritance-watcher.ts`, `dashboard/lib/inheritance-watcher*.ts` | one workflow run per hook, queued signals | start, signal, read, sleep, execute, complete | duplicate runs, signals racing completion, never giving up, ever stopping |
| Action routes, `dashboard/lib/{plan,configuration,heartbeat,evacuation}-route.ts` | none | validate, submit, settle, verify, notify, signal | state moves between the steps |
| Agent, `agent/` | audit ledger file, alert latch, MCP session | tick, execute with retries and key rotation | overlapping ticks, unknown outcomes, restarts |
| Telegram, `dashboard/lib/telegram-*.ts` | link sessions, links, deliveries | link, unlink, deliver, retry | two activations at once, retries that race, crashes |
| Activity ledger, `dashboard/lib/*activity*.ts` | numbered attempts | append, list | concurrent numbering, failing appends |
| Dashboard, `dashboard/app`, `dashboard/components` | draft per wallet in the browser, dialogs, requests in flight | onboarding, settings, stop, check-in, approval, trigger, evacuation, Telegram panel | a change of wallet under an open dialog or an answer; four sets of rules for one form |
| Bot process, scripts, starter | | one-shot jobs, a polling loop | |

The routes submit signed calls to the contracts through KeeperHub. The plan
route starts a watcher, the configuration and heartbeat routes signal it. The
watcher, the GitHub scan and open dashboards run the monitors, which submit
through KeeperHub and verify receipt, event and resulting state on chain.

What makes each part correct:

* contract: nothing before the deadline, everything after it; each share paid
  once; what is owed stays owed; an evacuated plan is never inherited; each
  signature works once; the owner alone cannot redirect the recovery;
* factory: registry and plans correspond; a plan is what its creator signed;
* monitors: workers that report a distribution at the same time report the same
  transaction; a failure is tried again; an unknown outcome is not broadcast twice;
* watcher: one watcher per plan; a watched plan ends distributed; a settled
  plan ends unwatched; changes wake it;
* agent: a key is left only when nothing of it can still be mined; an execution
  is announced once, by the transaction that made it; an estate that stays due
  is distributed;
* routes and ledger: the verified answers of one signature name one transaction
  of it; what a failed post did can be found; attempts are consecutive;
* Telegram: one account per wallet, two wallets per account, one message per
  event unless one failed; a session links once, an unlinked wallet stays so;
* dashboard: what a form accepts is what server and contract accept; what is
  sent is for the plan of the wallet that sends it; a due plan is triggered.

## Modules

| Module | Models | Built on |
| --- | --- | --- |
| `PlanRules` | the validity rules of `_validateBeneficiaries`, `_setLivenessConfig`, `_setRecoveryConfig`, `_replaceTrackedTokens`, `initializePlan` | |
| `Allocation` | what the beneficiary list promises: a map of shares | |
| `Beneficiaries` | the array, the flag and index mappings and the running total of the source | refines `Allocation` |
| `LegacyKeeper` | one plan, its tokens and the accounts around it | `PlanRules`, `Allocation` |
| `LegacyKeeperFactory` | creation and handover of plans | `PlanRules` |
| `InheritanceMonitor` | monitors, KeeperHub's idempotency cache, owner | |
| `InheritanceWatcher` | workflow runs, hook, signals, clock, owner | |
| `Agent` | the loop, its executor and MCP client, KeeperHub's jobs, the verifier, the alert latches | |
| `Telegram` | link sessions, links, deliveries, requests that interleave | |
| `ActionRoutes` | posts of the four signed actions, the plan they are checked against, KeeperHub, the activity ledger | |
| `PlanForms` | what forms, parsers and contract accept of one form | `PlanRules` |
| `Session` | the connected wallet and the plan resolved for it | |
| `PlanView` | the plan as read by `useKeeper`, and the plan on chain | `Session`, `PlanForms` |
| `Onboarding`, `PlanSettings`, `PlanActions`, `TelegramPanel` | the components of the dashboard | `PlanView` or `Session` |
| `Dashboard` | one component at a time over the shared session and plan | the four above |
| `MC...` | instances for TLC | the module named |
| `SumLemmas` | what the sum of a function over a finite set computes | |
| `LegacyKeeperProofs` | theorems about a plan: types, authority, estate, solvency, shares | `LegacyKeeper`, `SumLemmas` |
| `RegistryProofs` | theorems about the registry of beneficiaries and that of plans | `Beneficiaries`, `LegacyKeeperFactory`, `SumLemmas` |
| `InheritanceWatcherProofs`, `AgentProofs`, `ActionRoutesProofs`, `TelegramProofs` | theorems | the module named |
| `DashboardProofs` | theorems about the server's monitors and about the browser | `InheritanceMonitor`, `Dashboard`, `SumLemmas` |

### LegacyKeeper

The variables carry the names of the source. Every external function is an
action; `require` and modifier conditions are its guards, so a reverting call
is an action that is not enabled. `caller` is `msg.sender`. `Signed` is the set
of signatures that exist: an action with a signature takes one of them and may
be submitted by anybody, repeatedly. `timesUsed` is a history variable that
counts acceptances. A recipient that reverts is in the `refusing` argument of a
distribution; `Hostile` names accounts that always refuse. `Approve` and
`OwnerHolds` are what the token contracts and the owner do on their own.
`Deployed` is a plan created by the constructor alone, as the contract's tests
do, and `Created` one of the factory; both are initial states.

The list of beneficiaries is the map of `Allocation`; `Beneficiaries` shows
that the array with swap-and-pop removal implements it.

### InheritanceMonitor

A worker is an execution step of the watcher, a call of the trigger route, or
one half of the scheduled scan. Its program counter `at` stands between the
awaits of `inspectPlan`, `executePlan`, `runTokenInheritancePlan` and
`inspectToken`; what it has read by then is in `seen`, `todo` and `target`.
`job` is KeeperHub's cache: submitting a key it has met returns the execution
of the first submission, whatever became of it. A key is a scope and a target;
the scope is the workflow step id for the watcher and the last heartbeat for
everybody else. A new step of the watcher gets a new scope: its entries of
`job` start empty, and what was pending moves to `orphans`, where it may still
be mined. The contract is reduced to what the monitors read and to when a
distribution succeeds. The reads of one `Promise.all` are one step. A worker
that has proved its transaction stands at `executed` until it has reported it.
A throw that nobody catches ends a token run (`TokenRunThrows`): of the reads
before the tokens, and of a token's verification, whose promise `executeToken`
returns without awaiting it.

### InheritanceWatcher

A run stands in `at`: claiming the hook, reading (the plan in one step, its
tokens, periods and registry in a second one, as in `readTokenPlanState`),
holding a decision, waiting, executing, backing off, or ended. Time is relative
and saturates at the longest period, so that the model has no last instant.
Route actions (`HeartbeatBySig`, `Set...BySig`) leave a signal to be sent;
calls made directly on chain, and evacuations, do not. An execution step is reduced to its
possible effects, which `InheritanceMonitor` looks at closely.

### Agent

A run is a tick of `agent/index.ts` or a call of `runEvacuation`; `at` tells
whether it submits, polls or verifies. A job is named by the run and its
`idempotencyAttempt`; it survives everything the agent loses, as does what is
left of earlier executions (`orphans`). Answers may be lost, refused, late,
ambiguous or wrong about a reverted call, and a tool may answer a submission or
a poll with an error that rotates the key. `Restart` forgets all runs and the
latch. The attempts of `rpc` are a request sent again without a change of state.

### ActionRoutes

A post goes through `check`, `submit`, `await`, `verify`, `announce`, `record`,
`insert` and is `answered`; a kill ends it anywhere. `execution` is what
KeeperHub did, `known` what the server learned of it. `hash` is the transaction
that KeeperHub reports for a post: any that it submitted, mined or not, of this
post or of another. `Verify` looks in its receipt for the event of the action
and in the plan for the state, as the routes do, and for nothing else. The append is two steps
because the counter row is locked by the first and the entry written by the
second. The owner's own transactions and other posts of the same intent move
`plan` between all of these.

### Telegram

A request is a handler between two awaits, with what it has read by then. A
database statement is one step; the transaction of `activateLink` is two, with
the row of the account locked in between. `delivery` is the row of one event,
`inbox` a history variable about what reached the chat, `lost` one of the events
whose reserving request died. Expiry is a free
choice: a session may be used or never named again.

### Dashboard

`Session` and `PlanView` are what all components share: a wallet, the cached
resolution of its plan, which survives a change of wallet, and the plan as last
read beside the plan on chain. What a component holds no other reads, so
`Dashboard` explores one (`part`) at a time, under every change of wallet, late
answer and refetch: the forms alone, the onboarding wizard, the settings
editor, the stop of a plan, the check-in, a token approval, the automatic
trigger, the evacuation card, the recovery page, the Telegram panel. A request
in flight is a record of its own that outlives the dialog which sent it. The
shares of `PlanForms` are half hundredths of a percent, the finest grain that
`Math.round` tells apart.

## Runs

Passing runs:

| Run | Question | Instance |
| --- | --- | --- |
| `registry` | coherence and refinement of the list | 3 wallets, shares to a total of 3, lists with repetition and the zero address |
| `estate` | ether: solvency, claims, evacuation; distribution in spite of a recipient that always reverts | shares 1/3 and 2/3, deposits up to 5, 4 instants, one account that refuses always and one that refuses at times, reallocation and new periods mid-way, FairSpec |
| `tokens` | token claims, evacuation, the deadline | one token listed twice or not at all, supply 4, handover; uint64 replaced by 0..7, periods at its edge |
| `authority` | replay and recovery authority | two keys, two vaults, handover, late bootstrap, 18 signatures with shared nonces |
| `factory` | creation | any pairing of owner, configuration and signature |
| `monitor` | reports agree, what stays due is retried | a watcher step and a token scan, ether and one token, one heartbeat, failure or evacuation under them, FairSpec |
| `watcher` | one watcher; a watched plan is distributed, a settled one unwatched | 2 runs alive at a time, one token, 2 changes of any kind, periods of 1 and 2, FairSpec |
| `agent` | rotation, announcements and progress of the agent's executions | 2 overlapping ticks of 2 attempts, one evacuation, one change, lapse or restart, FairSpec |
| `telegram` | links, sessions that link once, messages, deliveries that settle | 2 wallets, 2 accounts of one wallet each, 2 sessions, 2 requests at a time, 2 delivery attempts, one crash |
| `routes` | a signature is vouched for by one transaction, failures are traceable, attempts are contiguous, posts settle | one intent of each action with three signers, 2 posts, one poll each, one transaction of the owner, one kill |
| `dashboard` | forms agree, requests are sound, restored links are own, a due plan is triggered | two owners, one with advanced timing, whose recovery key is the other's wallet; a stored draft; 2 requests per component |

The bounds are those at which each case of the code occurs: two beneficiaries
whose portions round down; one signature more than each nonce space can accept;
a clock long enough for a deadline, a change and a second deadline; two
concurrent workers; two runs, since a third one can only be deduplicated as the
second; two posts or requests, of which one meets what the other left halfway.
The limits of the code are scaled: an account watches one wallet instead of
two, a delivery is tried twice instead of five times, a plan holds two
beneficiaries and one token in the dashboard, a day has 2 seconds, safe integers
end at 7 and a share of 100% is 4 hundredths, so that durations and shares round
both ways and 4 days are more than a route takes. A user of
the dashboard edits once per dialog, with values on each side of each rule.
The dashboard's trigger is a role of `InheritanceMonitor` that no run
instantiates: it shares its keys with the scan and its path with the watcher.
Each property is violated by a mutation of the code it is about, listed in
`PROJECT.json` and marked as a mutant in the modules. Deadlock is checked except in `telegram` and `routes`, whose requests come to an end.

One run expects a violation, of a sentence of the repository that the code does
not keep: `refused_share`, "The refused share is preserved"
(`test/contracts/LegacyKeeper.predicates.test.ts:462`). A later evacuation
sweeps the ether behind it.

Other divergences from the documents or from what a user would expect, met while
modelling, which no run is spent on.

Contracts and watcher:

* an inherited plan can be evacuated (`contracts/LegacyKeeper.sol:385`), although
  a test calls the two modes mutually exclusive
  (`test/contracts/LegacyKeeper.predicates.test.ts:300`);
* `cancelInheritance` (`contracts/LegacyKeeper.sol:272`) has no cooldown, although
  README.md:123-124 allows one heartbeat per interval;
* tokens may be distributed before the native execution
  (`contracts/LegacyKeeper.sol:312`), although the comment at line 356 says they
  follow it;
* `acceptOwnership` (`contracts/LegacyKeeper.sol:1018`) accepts an owner who is
  the recovery key or the vault, which every setter forbids, and an owner who
  has a plan, although README.md:118 says one plan per wallet;
* a plan paused past its deadline is due at the moment it is unpaused
  (`contracts/LegacyKeeper.sol:1005`): the pause does not move the last heartbeat;
* a token claim recorded by a distribution is paid by the wallet that owns the
  plan when it is claimed (`contracts/LegacyKeeper.sol:345`): another one after a
  handover, and nobody when the allowance is spent;
* after a heartbeat that follows the native distribution, the watcher
  (`dashboard/lib/inheritance-watcher.ts:47`) executes tokens before the
  deadline: the monitor skips them, nothing fails, and the loop starts over
  without a sleep;
* the keys of the scan and the dashboard do not change after a failed execution
  (`dashboard/lib/inheritance-monitor.ts:123`), so KeeperHub replays the
  failure to them;
* an unknown outcome completes the watcher's step as failed and the next step
  has a new scope (`dashboard/workflows/inheritance-watcher.ts:54`), although
  README.md:199-201 says that unknown outcomes reuse their key;
* a token whose recipients all refuse it is distributed without the event that
  proves it (`dashboard/lib/inheritance-monitor-server.ts:309`): the worker
  records a failure;
* a read that throws while a token is verified ends the whole token run, and the
  tokens after it wait for the next one: `executeToken` returns the verification
  unawaited past its `catch` (`dashboard/lib/token-inheritance-monitor.ts:183`);
* a signal queued at a run that completes is gone
  (`dashboard/workflows/inheritance-watcher.ts:42`), although README.md:73 says
  that verified changes wake the watcher.

Agent:

* the grace alert's latch is set whether or not the alert was delivered
  (`agent/index.ts:124-128`);
* of two overlapping ticks one fails with a critical alert although the estate
  was distributed by the other (`agent/index.ts:79`);
* a success whose verification is missed is announced as a failure, and
  `runInheritance` always reports one beneficiary (`agent/index.ts:148`).

Routes:

* a route verifies an event of the plan in the receipt of the reported hash, not
  that the transaction carried the signature posted; configuration and recovery
  share `ConfigUpdated`, and so do the owner's own calls;
* a failure may be false: the state read is the current one, and a lost or late
  answer fails although the transaction may still land. When the answer of the
  webhook itself is lost, the entry holds no execution id;
* `createPlan` looks only at the current factory for an earlier plan, the other
  routes at all of them; none looks at nonces or at `livenessActive`;
* a function killed by the platform loses announcement and entry; a failed
  append is logged only.

Telegram:

* after the fifth failure the update sets `nextAttemptAt` to `undefined`, which
  leaves the column alone: the retry stays due
  (`dashboard/lib/telegram-notification-service.ts:178-182`);
* of two racing retries a late "failed" overwrites "sent", and a request that
  dies leaves its delivery pending for good (line 56); nothing calls `retry`;
* `unlinkFromDashboard` compares the id of a link, then revokes whatever link
  the wallet has by then (`dashboard/lib/telegram-link-service.ts:281-323`).

Dashboard, where an answer or a dialog outlives the wallet it was for:

* one unreadable factory counts as "no plan" and opens the wizard for an owner
  who has one (`dashboard/lib/usePlanResolver.ts:33`);
* finishing the wizard under another wallet deletes that wallet's draft, against
  "Your draft is saved for this wallet."
  (`dashboard/components/onboarding/OnboardingController.tsx:114`), and a late
  answer writes the first wallet's draft at the last step;
* closing the wizard while it creates allows a second signature; the answer to
  the first then leaves the last step without evidence, disabled until the
  plan is resolved anew;
* a settings draft stays open when the wallet changes and can be saved to the
  other plan; settings launched before the first read start from zeros;
* a late verified save closes whichever dialog is open; a stop or an approval is
  reported done without a look at the status of its receipt;
* a late answer of the Telegram panel sets its state after Cancel or under
  another wallet; the evacuation card keeps a prepared payload (the server
  rejects it);
* the trigger is done when ether is distributed: it does not retry a token; and as
  its key is that of the last heartbeat, a failed execution may be replayed to it
  for ever, however often it asks.

Dashboard, where the rules differ (`FormsAgree` is stated around them):

* shares finer than a hundredth of a percent can round to a total that is not
  100%; the settings reject legal ones such as 0.29
  (`dashboard/components/settings/PlanSettingsEditor.tsx:1229`);
* a plan with advanced timing has a heartbeat of zero days in the settings, and
  12 hours become a day (line 1385); grace may exceed the timeout there, not in
  the wizard;
* the forms take any whole number of days, the routes only seconds that are safe
  integers: 200000000000 days pass the wizard
  (`dashboard/lib/onboarding-draft.ts:165`) and the settings
  (`dashboard/components/settings/PlanSettingsEditor.tsx:1239`) and are refused
  on submission (`dashboard/lib/action-validation.ts:82`);
* nobody checks the limit of tracked tokens, nor the wizard a repeated token.

### Fairness

`LegacyKeeper!FairSpec`: blocks keep coming, and somebody keeps calling the
permissionless `executeInheritance`. `InheritanceMonitor!FairSpec`: a workflow
or a schedule keeps running its workers; a request sent again and again is
answered at times; KeeperHub does not drop every execution it could carry out
(strong fairness, because a worker that waits is not always at the point of
asking). `InheritanceWatcher!FairSpec`: the workflow engine resumes its runs,
the clock ticks, pending signals are sent (or lost), and an execution asked for
again and again succeeds at some time. `Agent!FairSpec`: the interval fires and
its ticks run on; a request sent again and again is answered, on a session that
can be renewed; KeeperHub does not drop every job. `Telegram!Spec` and
`ActionRoutes!Spec`: the event loop goes on with a request that it has accepted,
unless it dies; nothing obliges KeeperHub, the chain or Telegram to answer well.
`Dashboard!Fairness`: only of the trigger, whose queries are answered, whose
timer fires and whose route answers. Nothing says that it ever distributes:
`DuePlanIsTriggered` is that it goes on asking. No fairness is assumed of the owner, of crashes, of a change of wallet or of the other executors.

## Proofs

Contracts:

| Theorem | Property | Inductive invariant |
| --- | --- | --- |
| `TypeCorrect` | `TypeOK` | itself |
| `NoSignatureReplay` | `NoReplay` | `AuthorityInv`: every accepted signature has its nonce marked (`NoncesMarked`); an unregistered key is the zero address (`KeyUnset`) |
| `RecoveryChangesAreSigned` | `RecoveryChangeSigned` | `AuthorityInv` |
| `SharingIsAcknowledged` | `SharingAcknowledged` | `AuthorityInv` |
| `EtherClaimsConserved` | `ClaimsConserved` | `TypeOK` |
| `EvacuationFinal` | `EvacuationIsFinal` | `TypeOK` |
| `DeadlineRespected` | `NeverBeforeDeadline` | `TypeOK` |
| `TokensClaimsConserved` | `TokenClaimsConserved` | `TypeOK` |
| `EstateIsSolvent` | `Solvent` | `SolvencyInv`: nobody is owed anything before the distribution (`NothingOwedBefore`) |
| `SharesFollowRegistry` | every change of `share` is a step of `Allocation` | `TypeOK` |
| `RegistryTypeCorrect`, `RegistryIsCoherent` | `Beneficiaries!TypeOK`, `RegistryCoherent` | both together (`Sound`) |
| `RegistryImplementsAllocation` | `ImplementsAllocation`, the refinement | `Sound` |
| `RegistryIsExact`, `PlansAreAsSigned` | `RegistryExact`, `CreatedAsSigned` | `FactoryInv`: both and the types |

Off chain:

| Theorem | Property | Inductive invariant, with the types |
| --- | --- | --- |
| `MonitorTypeCorrect`, `MonitorReportsAgree` | `TypeOK`, `ReportsAgree` | every heartbeat counts as an event (`BeatsAreEvents`), so that the keys' scopes suffice; what is mined is done (`MinedIsDone`), by one key (`MinedOnce`), and what is about to be reported is mined (`ExecutedIsMined`) |
| `WatcherTypeCorrect`, `WatcherIsUnique` | `TypeOK`, `OneWatcher` | no more signals than changes (`SignalsAreEvents`); a run that has read the plan has decided (`Decided`) |
| `AgentTypeCorrect`, `AgentSuccessIsReportedOnce`, `AgentRotationIsSafe` | `TypeOK`, `SuccessIsReportedOnce`, `RotationIsSafe` | an execution that has not begun has nothing at KeeperHub (`Fresh`); `SuccessInv`: what is mined is carried out, by one job, and a run that succeeded holds that job |
| `RoutesTypeCorrect`, `RoutesFailuresAreTraceable`, `RoutesAttemptsAreContiguous`, `RoutesSignatureVouchedOnce` | `TypeOK`, `FailuresAreTraceable`, `AttemptsAreContiguous`, `SignatureVouchedOnce` | an open append excludes others of its intent and follows its counter (`AppendsExclude`); a post writes one entry (`OneEntryPerPost`); what is mined has used its nonce, once (`MinedIsUsed`), a verified post names a mined transaction (`VerifiedIsMined`, `UnsettledIsOpen`), what is known is so (`ResultIsKnown`, `EntriesAreFinal`) |
| `TelegramTypeCorrect`, `TelegramLinksAreBounded` | `TypeOK`, `LinksAreBounded` | `LinksInv`: a transaction about to insert is the only one of its account, which has room (`InsertionsAreAlone`); a linking request names owner and account of its session (`LinkRequestsMatch`) |
| `TelegramSendsOnce` | `OneMessageUnlessFailed` | `OneAttempt`: until an answer fails, only the request that reserved a delivery attempts it |
| `TelegramSessionsLinkOnce` | `SessionsLinkOnce` | `InsertionsAreNew`: no session about to be inserted has been consumed since it was read |
| `DashboardFormsAgree` | `FormsAgree` | `FormInv`: what a form holds is well typed |
| `DashboardRequestsAreSound` | `RequestsAreSound` | `DashboardInv`: a resolved plan is the wallet's own (`SessionInv`), a plan as read names its owner (`PlansInv`); what was reviewed is kept with the request (`SoundCreations`, `SoundSaves`); the guard is up while a trigger is out (`TriggersInv`) |
| `DashboardRestoredLinkIsOwn` | `RestoredLinkIsOwn` | `TelegramInv`: a restore still awaited is the connected wallet's |

They hold for every value of the constants under the named assumptions of the
modules: types of the inputs, a clock that fits uint64, and finitely many
accounts, of which there are 2^160 - 1. Each inductive invariant was first
checked by TLC on the run of its module.

`NoReplay` alone is not inductive: that a signature was used once says nothing
about its nonce, so a second use would not be excluded; `NoncesMarked` ties the
two together. The authority theorems first collect, in `NonceSteps` and
`VaultSteps`, which actions touch nonces and vault at all, and then argue about
those. `FactoryInv` joins the type, the registry and the signed configurations
because the step that creates a plan needs all three of the earlier plans.

Solvency and the registry are about sums. The community modules define a sum as
a recursive function over subsets. `SumLemmas` shows by a smallest
counterexample (a finite family of sets has a smallest member) that such a sum is
the number of units its terms consist of (`SumCounts`), and derives the laws of
sums from those of cardinalities. With them `PortionsAreCovered` shows that
portions which round down never exceed what is distributed, whoever refuses;
that a distribution cannot overdraw the plan is therefore a theorem and no
guard of the model. The registry's lemmas speak of a value of the four storage
fields, because a replacement is a fold over such values: `ChainIsSound` carries
soundness along its steps.

`RegistryImplementsAllocation` and `SharesFollowRegistry` meet in `Allocation`:
the array implements the map of shares, and the plan changes its map only as
`Allocation` allows.

The invariants of the off-chain modules all say who may be where at once. The
lemmas that carry them are stated of the place of one request, run or worker and
of what it may find there, and the other actors enter by frame lemmas
(`MatchKept`, `InsertionsKept`, `AttemptsKept` in `TelegramProofs`).

The dashboard's theorems are for any wallets and any number of requests in
flight, and its forms for lists of any length and any whole number of days,
seconds and half hundredths, those beyond the safe integers included, which the
routes refuse: `TimingsAgree` says that they refuse nothing else, and that what
they accept the contract can add in 64 bits, twice the safe integers being less
(`FormsAssumption`). `FormsAgree` needs no more than types, since it is
a fact about the rules: `TypedSharesParse` shows that shares which the forms
accept are whole hundredths, so that the parser's sum, which rounds every share,
is exactly half of the forms' (`SumDoubled`); `ParsedAllocationValid`
that a parsed list is the contract's. The same lemmas carry `RequestsAreSound`:
a payload that was validated when it was sent stays acceptable because a request
keeps it, whatever the form does later (`ReviewedAccepted`, `ValidatedPayload`).
That a request is for the own plan of who asks holds as the cache of
resolutions is by owner and a registered plan is never replaced; the invariant
of each component is preserved by the others' steps for that reason alone
(`SameRequests`, `SavesBecome`). The proofs assume of the constants what the
types of the source say, by name: `RulesAssumption`, `FormsAssumption`,
`SessionAssumption`, `DraftsAssumption`, `PlansAssumption`.

Only model-checked: liveness (`estate`, `monitor`, `watcher`, `agent`,
`telegram`, `routes`, `dashboard`), since fairness and `ENABLED` are out of reach
of the prover. Every safety property that a passing run checks is stated by a
theorem.

## Not modelled

* Callbacks in the middle of a distribution: a transaction is one step.
* Fee-on-transfer tokens and allowances that do not decrease.
* `privateRoutingEnabled` and other fields nothing decides on.
* The listing of plans from factory logs, several plans in one scan, OIDC
  authentication of the scan.
* A latest block older than the clock: the watcher waits again with a deadline
  in the past.
* Watcher and scan in one model. That the scan takes over when no run watches is
  why the routes may leave a plan unwatched; here each is checked by itself.
* The agent's payments, JSON-RPC framing and session handshake beyond its loss.
* The expiry of Telegram sessions by the clock, and the webhook's parsing.
* In the dashboard: disconnecting, another network, the failure of a single read
  (shown as zero), and what only renders: landing, activity and beneficiary
  pages, menus, wording.
* The bot process (a polling loop that changes no plan), deployment scripts,
  workflow definitions of KeeperHub, the starter, test contracts.

## Plan

Every safety property of the runs is proved. What remains are stronger
statements that the inductive invariants suggest, each to be checked by TLC
before it is proved: which drafts a wallet's storage may hold, and what an
outcome shown in the dashboard says of the plan on chain.
