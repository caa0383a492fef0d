---------------------------- MODULE LegacyKeeper ----------------------------
(***************************************************************************)
(* One plan contract, contracts/LegacyKeeper.sol, with what surrounds it:  *)
(* the block clock, the ERC-20 contracts it pulls from, and the accounts   *)
(* that accept or refuse the ether it pushes.                              *)
(*                                                                         *)
(* Every external function is an action; a call that reverts changes       *)
(* nothing and is an action that is not enabled.  A transaction is atomic. *)
(* `caller' is msg.sender.  A relayed action takes a member m of Signed,   *)
(* the typed data its signer has signed: anybody may submit it, at any     *)
(* time, in any order and as often as they like.  The domain separator     *)
(* binds a signature to this plan and chain, so one plan is enough, and    *)
(* recovering the signer is reading m.signer.                              *)
(*                                                                         *)
(* The beneficiaries are the abstract registry of module Allocation, which *)
(* module Beneficiaries shows the array of the source to implement.  The   *)
(* array and mapping of tracked tokens are the set of their members.       *)
(***************************************************************************)
EXTENDS PlanRules

CONSTANTS
    Plans,               \* configurations a plan may be bootstrapped with
    DirectOwners,        \* owners of plans deployed without the factory
    Deployer,            \* their deployer, None if it never calls them
    DefaultSettings,     \* 1 day, 30 days and 7 days in the source
    Signed,              \* kind of typed data -> signatures that exist
    Hostile,             \* accounts whose receive() always reverts
    OwnerInputs,         \* arguments of transferOwnership
    VaultInputs,         \* arguments of setSafeVault
    KeyInputs,           \* arguments of registerRecoveryKey
    WalletInputs,        \* arguments of addBeneficiary
    ShareInputs,
    SettingInputs,       \* arguments of setLivenessConfig
    TokenListInputs,     \* arguments of setTrackedTokens
    DepositInputs,       \* values sent to receive()
    TokenAmounts,        \* balances and allowances an owner may hold
    MaxEther,            \* bound: no deposit lifts the balance above it
    MaxSupply,           \* bound: an owner brings no token beyond this supply
    MaxTime              \* bound of the block clock

SharedKinds == {"Heartbeat", "Evacuate", "Panic", "RotateRecoveryKey", "SetSafeVault"}
ActionKinds == {"SetBeneficiaries", "SetLivenessConfig", "SetRecoveryConfig",
                "SetTrackedTokens"}
Kinds       == SharedKinds \cup ActionKinds

\* Every signature in existence, with the typehash it was made for.
Messages == UNION {{k} \X Signed[k] : k \in Kinds}

ASSUME InputAssumption ==
    /\ Plans \subseteq
          [owner : Accounts, settings : Settings, wallets : Seq(Addresses),
           shares : Seq(Nat), recoveryKey : Addresses, safeVault : Addresses,
           allowSharedRecovery : BOOLEAN, tokens : Seq(Tokens \cup {None})]
    /\ DirectOwners \subseteq Accounts
    /\ Deployer \in Addresses
    /\ DefaultSettings \in Settings
    /\ Hostile \subseteq Accounts
    /\ OwnerInputs \subseteq Addresses
    /\ VaultInputs \subseteq Addresses
    /\ KeyInputs \subseteq Addresses
    /\ WalletInputs \subseteq Addresses
    /\ ShareInputs \subseteq Nat
    /\ SettingInputs \subseteq Settings
    /\ TokenListInputs \subseteq Seq(Tokens \cup {None})
    /\ DepositInputs \subseteq Nat
    /\ TokenAmounts \subseteq Nat
    /\ MaxEther \in Nat
    /\ MaxSupply \in Nat
    /\ MaxTime \in Nat \ {0}
    /\ MaxTime <= MaxU64

ASSUME SignedAssumption ==
    /\ \A k \in {"Heartbeat", "Evacuate", "Panic"} :
          Signed[k] \subseteq [nonce : Nat, deadline : Nat, signer : Accounts]
    /\ Signed["RotateRecoveryKey"] \subseteq
          [newKey : Addresses, nonce : Nat, deadline : Nat, signer : Accounts]
    /\ Signed["SetSafeVault"] \subseteq
          [newVault : Addresses, nonce : Nat, deadline : Nat, signer : Accounts]
    /\ Signed["SetBeneficiaries"] \subseteq
          [wallets : Seq(Addresses), shares : Seq(Nat),
           nonce : Nat, deadline : Nat, signer : Accounts]
    /\ Signed["SetLivenessConfig"] \subseteq
          [settings : Settings, nonce : Nat, deadline : Nat, signer : Accounts]
    /\ Signed["SetRecoveryConfig"] \subseteq
          [recoveryKey : Addresses, safeVault : Addresses, allowSharedRecovery : BOOLEAN,
           nonce : Nat, deadline : Nat, signer : Accounts]
    /\ Signed["SetTrackedTokens"] \subseteq
          [tokens : Seq(Tokens \cup {None}), nonce : Nat, deadline : Nat, signer : Accounts]

VARIABLES
    now,                    \* block.timestamp
    initialized,            \* the one-time bootstrap has run
    owner, pendingOwner,
    vault,                  \* [safeVault, recoveryKeyAddress, recoveryKeyRegistered]
    nonceUsed,              \* nonces spent in the space the emergency actions share
    actionNonceUsed,        \* configuration typehash -> nonces spent
    timesUsed,              \* history: how often each signature was accepted
    liveness,               \* the LivenessConfig record
    share,                  \* beneficiary shares, see Allocation
    tracked,                \* tracked tokens
    inheritanceExecuted, inheritanceTimestamp,
    evacuationExecuted, evacuationTimestamp,
    tokenDistributed,       \* tokens already distributed
    balance,                \* ether held by the plan
    ether,                  \* environment: ether each account received from the plan
    pendingWithdrawal,      \* ether owed after a refused push
    tokenBalance,           \* environment: token -> account -> balance
    allowance,              \* environment: token -> account -> allowance to the plan
    pendingTokenWithdrawal  \* token -> account -> amount owed

authVars    == <<initialized, owner, pendingOwner, vault>>
nonceVars   == <<nonceUsed, actionNonceUsed, timesUsed>>
policyVars  == <<liveness, share, tracked>>
outcomeVars == <<inheritanceExecuted, inheritanceTimestamp, evacuationExecuted,
                 evacuationTimestamp, tokenDistributed>>
etherVars   == <<balance, ether, pendingWithdrawal>>
tokenVars   == <<tokenBalance, allowance, pendingTokenWithdrawal>>
moneyVars   == <<etherVars, tokenVars>>
vars        == <<now, authVars, nonceVars, policyVars, outcomeVars, moneyVars>>

Registry == INSTANCE Allocation
-----------------------------------------------------------------------------
LivenessOf(settings, lastHeartbeat, active) ==
    [heartbeatInterval |-> settings.heartbeatInterval,
     timeoutDuration   |-> settings.timeoutDuration,
     gracePeriod       |-> settings.gracePeriod,
     lastHeartbeat     |-> lastHeartbeat,
     livenessActive    |-> active]

VaultOf(safeVault, recoveryKey, registered) ==
    [safeVault |-> safeVault, recoveryKeyAddress |-> recoveryKey,
     recoveryKeyRegistered |-> registered]

\* A plan as LegacyKeeperFactory.createPlan leaves it: constructor and
\* initializePlan in one transaction.
Created(plan) ==
    /\ ValidPlan(plan.owner, plan)
    /\ initialized = TRUE
    /\ owner = plan.owner
    /\ vault = VaultOf(plan.safeVault, plan.recoveryKey, TRUE)
    /\ liveness = LivenessOf(plan.settings, now, TRUE)
    /\ share = AllocationOf(plan.wallets, plan.shares)
    /\ tracked = Range(plan.tokens)

\* The constructor alone, as the contract tests deploy plans.  The owner
\* configures such a plan through the direct setters.
Deployed(initialOwner) ==
    /\ initialized = FALSE
    /\ owner = initialOwner
    /\ vault = VaultOf(None, None, FALSE)
    /\ liveness = LivenessOf(DefaultSettings, now, TRUE)
    /\ share = [w \in Accounts |-> 0]
    /\ tracked = {}

Init ==
    /\ now = 1
    /\ \/ \E plan \in Plans : Created(plan)
       \/ \E initialOwner \in DirectOwners : Deployed(initialOwner)
    /\ pendingOwner = None
    /\ nonceUsed = {}
    /\ actionNonceUsed = [k \in ActionKinds |-> {}]
    /\ timesUsed = [x \in Messages |-> 0]
    /\ inheritanceExecuted = FALSE /\ inheritanceTimestamp = 0
    /\ evacuationExecuted = FALSE /\ evacuationTimestamp = 0
    /\ tokenDistributed = {}
    /\ balance = 0
    /\ ether = [a \in Accounts |-> 0]
    /\ pendingWithdrawal = [a \in Accounts |-> 0]
    /\ tokenBalance = [t \in Tokens |-> [a \in Accounts |-> 0]]
    /\ allowance = [t \in Tokens |-> [a \in Accounts |-> 0]]
    /\ pendingTokenWithdrawal = [t \in Tokens |-> [a \in Accounts |-> 0]]
-----------------------------------------------------------------------------
(* Signatures: _consumeSignature, _consumeAddressSignature and             *)
(* _consumeActionDigest.                                                   *)

Accept(kind, m, expectedSigner) ==
    /\ now <= m.deadline
    /\ m.signer = expectedSigner
    /\ timesUsed' = [timesUsed EXCEPT ![<<kind, m>>] = @ + 1]

\* Mutant: the nonce is checked and never marked.
ConsumeUnmarked(kind, m, expectedSigner) ==
    /\ Accept(kind, m, expectedSigner)
    /\ m.nonce \notin nonceUsed
    /\ UNCHANGED <<nonceUsed, actionNonceUsed>>

ConsumeSignature(kind, m, expectedSigner) ==
    /\ Accept(kind, m, expectedSigner)
    /\ m.nonce \notin nonceUsed
    /\ nonceUsed' = nonceUsed \cup {m.nonce}
    /\ UNCHANGED actionNonceUsed

ConsumeActionDigest(kind, m, expectedSigner) ==
    /\ Accept(kind, m, expectedSigner)
    /\ m.nonce \notin actionNonceUsed[kind]
    /\ actionNonceUsed' = [actionNonceUsed EXCEPT ![kind] = @ \cup {m.nonce}]
    /\ UNCHANGED nonceUsed
-----------------------------------------------------------------------------
(* Liveness.                                                               *)

\* Computed in uint256, so the sum cannot overflow.
CooldownOver == now >= liveness.lastHeartbeat + liveness.heartbeatInterval

RecordHeartbeat == liveness' = [liveness EXCEPT !.lastHeartbeat = now]

Heartbeat(caller) ==
    /\ caller = owner
    /\ liveness.livenessActive
    /\ CooldownOver
    /\ RecordHeartbeat
    /\ UNCHANGED <<now, authVars, nonceVars, share, tracked, outcomeVars, moneyVars>>

HeartbeatBySig(m) ==
    /\ liveness.livenessActive
    /\ ConsumeSignature("Heartbeat", m, owner)
    /\ CooldownOver
    /\ RecordHeartbeat
    /\ UNCHANGED <<now, authVars, share, tracked, outcomeVars, moneyVars>>

\* The one proof of life that waits for no cooldown.
CancelInheritance(caller) ==
    /\ caller = owner
    /\ ~inheritanceExecuted
    /\ liveness.livenessActive
    /\ RecordHeartbeat
    /\ UNCHANGED <<now, authVars, nonceVars, share, tracked, outcomeVars, moneyVars>>

ApplySettings(s) ==
    /\ ValidSettings(s)
    /\ liveness' = LivenessOf(s, liveness.lastHeartbeat, liveness.livenessActive)

SetLivenessConfig(caller, s) ==
    /\ caller = owner
    /\ ApplySettings(s)
    /\ UNCHANGED <<now, authVars, nonceVars, share, tracked, outcomeVars, moneyVars>>

SetLivenessConfigBySig(m) ==
    /\ ConsumeActionDigest("SetLivenessConfig", m, owner)
    /\ ApplySettings(m.settings)
    /\ UNCHANGED <<now, authVars, share, tracked, outcomeVars, moneyVars>>

ToggleLiveness(caller, active) ==
    /\ caller = owner
    /\ liveness' = [liveness EXCEPT !.livenessActive = active]
    /\ UNCHANGED <<now, authVars, nonceVars, share, tracked, outcomeVars, moneyVars>>
-----------------------------------------------------------------------------
(* Inheritance.                                                            *)

\* Mutant: the sum of the two periods wraps around.
GraceElapsedWrapping ==
    now - liveness.lastHeartbeat
        >= (liveness.timeoutDuration + liveness.gracePeriod) % (MaxU64 + 1)

\* getTimeoutStatus adds the two periods in checked uint64 arithmetic: a
\* sum beyond MaxU64 reverts, and the estate is not due.
GraceElapsed ==
    /\ liveness.timeoutDuration + liveness.gracePeriod <= MaxU64
    /\ now - liveness.lastHeartbeat >= liveness.timeoutDuration + liveness.gracePeriod

\* Mutant: the flag the evacuation cleared is taken to be enough.
DueIfActive ==
    /\ liveness.livenessActive
    /\ Registry!Wallets # {}
    /\ Registry!TotalShareBps = TOTAL_BPS
    /\ GraceElapsed

\* _assertInheritanceReadyForTokens.  The evacuation is checked although it
\* also clears livenessActive, which the owner may set again.
DistributionDue ==
    /\ ~evacuationExecuted
    /\ liveness.livenessActive
    /\ Registry!Wallets # {}
    /\ Registry!TotalShareBps = TOTAL_BPS
    /\ GraceElapsed

\* Mutant: nothing remembers the first execution.
ReadyAgain == DistributionDue

\* _assertInheritanceReady.
InheritanceReady == ~inheritanceExecuted /\ DistributionDue

\* The part of an amount that wallet w inherits, rounded down.
Portion(amount, w) == (amount * share[w]) \div TOTAL_BPS

\* The portions of those who take delivery, and of those who refuse it.
Pushed(amount, refusing) ==
    [w \in Accounts |-> IF w \in refusing THEN 0 ELSE Portion(amount, w)]
Deferred(amount, refusing) ==
    [w \in Accounts |-> IF w \in refusing THEN Portion(amount, w) ELSE 0]

\* Mutant: a refused push reverts the distribution.
ExecuteOrRevert(refusing) ==
    LET pushed == Pushed(balance, {})
        sent   == SumFunction(pushed)
    IN  /\ InheritanceReady
        /\ \A w \in refusing : Portion(balance, w) = 0
        /\ inheritanceExecuted' = TRUE
        /\ inheritanceTimestamp' = now
        /\ balance' = balance - sent
        /\ ether' = [w \in Accounts |-> ether[w] + pushed[w]]
        /\ UNCHANGED <<now, authVars, nonceVars, policyVars, evacuationExecuted,
                       evacuationTimestamp, tokenDistributed, pendingWithdrawal, tokenVars>>

\* A refused push is credited, never reverted.
ExecuteInheritance(refusing) ==
    LET pushed   == Pushed(balance, refusing)
        deferred == Deferred(balance, refusing)
        sent     == SumFunction(pushed)
    IN  /\ InheritanceReady
        /\ inheritanceExecuted' = TRUE
        /\ inheritanceTimestamp' = now
        /\ balance' = balance - sent
        /\ ether' = [w \in Accounts |-> ether[w] + pushed[w]]
        /\ pendingWithdrawal' = [w \in Accounts |-> pendingWithdrawal[w] + deferred[w]]
        /\ UNCHANGED <<now, authVars, nonceVars, policyVars, evacuationExecuted,
                       evacuationTimestamp, tokenDistributed, tokenVars>>

\* Mutant: the claim is paid and kept.
WithdrawKeepingClaim(caller) ==
    LET amount == pendingWithdrawal[caller]
    IN  /\ amount > 0
        /\ amount <= balance
        /\ caller \notin Hostile
        /\ balance' = balance - amount
        /\ ether' = [ether EXCEPT ![caller] = @ + amount]
        /\ UNCHANGED <<now, authVars, nonceVars, policyVars, outcomeVars,
                       pendingWithdrawal, tokenVars>>

\* Mutant: what the plan still holds is not consulted.
WithdrawUnbacked(caller) ==
    LET amount == pendingWithdrawal[caller]
    IN  /\ amount > 0
        /\ caller \notin Hostile
        /\ pendingWithdrawal' = [pendingWithdrawal EXCEPT ![caller] = 0]
        /\ balance' = balance - amount
        /\ ether' = [ether EXCEPT ![caller] = @ + amount]
        /\ UNCHANGED <<now, authVars, nonceVars, policyVars, outcomeVars, tokenVars>>

\* msg.sender pulls a refused share.
Withdraw(caller) ==
    LET amount == pendingWithdrawal[caller]
    IN  /\ amount > 0
        /\ amount <= balance
        /\ caller \notin Hostile
        /\ pendingWithdrawal' = [pendingWithdrawal EXCEPT ![caller] = 0]
        /\ balance' = balance - amount
        /\ ether' = [ether EXCEPT ![caller] = @ + amount]
        /\ UNCHANGED <<now, authVars, nonceVars, policyVars, outcomeVars, tokenVars>>

\* receive(): anybody may send ether.
Deposit(amount) ==
    /\ balance + amount <= MaxEther
    /\ balance' = balance + amount
    /\ UNCHANGED <<now, authVars, nonceVars, policyVars, outcomeVars, ether,
                   pendingWithdrawal, tokenVars>>
-----------------------------------------------------------------------------
(* ERC-20 tokens.  A transferFrom that the token refuses (it reverts,      *)
(* returns false, or returns malformed data) moves nothing.                *)

Smaller(x, y) == IF x < y THEN x ELSE y

Pullable(t) == Smaller(tokenBalance[t][owner], allowance[t][owner])

\* Balances of token t after the owner's amounts moved[w] reach each w.
AfterTransfers(t, moved, total) ==
    [w \in Accounts |->
        (IF w = owner THEN tokenBalance[t][w] - total ELSE tokenBalance[t][w]) + moved[w]]

\* One recipient's share of a single transfer.
Only(recipient, amount) == [w \in Accounts |-> IF w = recipient THEN amount ELSE 0]

\* Mutant: a token may be distributed again.
TokenReadyAgain(t) == t \in tracked /\ DistributionDue

TokenReady(t) ==
    /\ t \in tracked
    /\ t \notin tokenDistributed
    /\ DistributionDue

ExecuteInheritanceERC20(t, refusing) ==
    LET available == Pullable(t)
        pushed    == Pushed(available, refusing)
        deferred  == Deferred(available, refusing)
        moved     == SumFunction(pushed)
    IN  /\ TokenReady(t)
        /\ available > 0
        /\ tokenDistributed' = tokenDistributed \cup {t}
        /\ tokenBalance' = [tokenBalance EXCEPT ![t] = AfterTransfers(t, pushed, moved)]
        /\ allowance' = [allowance EXCEPT ![t][owner] = @ - moved]
        /\ pendingTokenWithdrawal' =
              [pendingTokenWithdrawal EXCEPT ![t] =
                  [w \in Accounts |-> @[w] + deferred[w]]]
        /\ UNCHANGED <<now, authVars, nonceVars, policyVars, inheritanceExecuted,
                       inheritanceTimestamp, evacuationExecuted, evacuationTimestamp,
                       etherVars>>

\* The claim is pulled from whoever owns the plan now.
ClaimToken(caller, t) ==
    LET amount == pendingTokenWithdrawal[t][caller]
    IN  /\ amount > 0
        /\ amount <= Pullable(t)
        /\ pendingTokenWithdrawal' = [pendingTokenWithdrawal EXCEPT ![t][caller] = 0]
        /\ tokenBalance' =
              [tokenBalance EXCEPT ![t] = AfterTransfers(t, Only(caller, amount), amount)]
        /\ allowance' = [allowance EXCEPT ![t][owner] = @ - amount]
        /\ UNCHANGED <<now, authVars, nonceVars, policyVars, outcomeVars, etherVars>>

\* Environment: the owner, or the candidate about to become one, approves
\* the plan; the owner spends or receives tokens elsewhere.
Approve(t, holder, amount) ==
    /\ holder \in {owner, pendingOwner} \ {None}
    /\ allowance' = [allowance EXCEPT ![t][holder] = amount]
    /\ UNCHANGED <<now, authVars, nonceVars, policyVars, outcomeVars, etherVars,
                   tokenBalance, pendingTokenWithdrawal>>

OwnerHolds(t, amount) ==
    /\ amount + SumFunctionOnSet(tokenBalance[t], Accounts \ {owner}) <= MaxSupply
    /\ tokenBalance' = [tokenBalance EXCEPT ![t][owner] = amount]
    /\ UNCHANGED <<now, authVars, nonceVars, policyVars, outcomeVars, etherVars,
                   allowance, pendingTokenWithdrawal>>
-----------------------------------------------------------------------------
(* Emergency evacuation.                                                   *)

\* Tokens in `stuck' refuse the transfer and are skipped.
Evacuate(m, stuck) ==
    LET swept(t) == IF t \in tracked \ stuck THEN Pullable(t) ELSE 0
    IN  /\ vault.recoveryKeyRegistered
        /\ vault.safeVault # None
        /\ ~evacuationExecuted
        /\ ConsumeSignature("Evacuate", m, vault.recoveryKeyAddress)
        /\ evacuationExecuted' = TRUE
        /\ evacuationTimestamp' = now
        /\ liveness' = [liveness EXCEPT !.livenessActive = FALSE]
        /\ balance > 0 => vault.safeVault \notin Hostile
        /\ balance' = 0
        /\ ether' = [ether EXCEPT ![vault.safeVault] = @ + balance]
        /\ tokenBalance' =
              [t \in Tokens |-> AfterTransfers(t, Only(vault.safeVault, swept(t)), swept(t))]
        /\ allowance' = [t \in Tokens |-> [allowance[t] EXCEPT ![owner] = @ - swept(t)]]
        /\ UNCHANGED <<now, authVars, share, tracked, inheritanceExecuted,
                       inheritanceTimestamp, tokenDistributed, pendingWithdrawal,
                       pendingTokenWithdrawal>>

EvacuateToken(t) ==
    LET amount == Pullable(t)
    IN  /\ evacuationExecuted
        /\ t \in tracked
        /\ amount > 0
        /\ tokenBalance' =
              [tokenBalance EXCEPT ![t] =
                  AfterTransfers(t, Only(vault.safeVault, amount), amount)]
        /\ allowance' = [allowance EXCEPT ![t][owner] = @ - amount]
        /\ UNCHANGED <<now, authVars, nonceVars, policyVars, outcomeVars, etherVars,
                       pendingTokenWithdrawal>>

PanicButton(m) ==
    /\ vault.recoveryKeyRegistered
    /\ ConsumeSignature("Panic", m, vault.recoveryKeyAddress)
    /\ UNCHANGED <<now, authVars, policyVars, outcomeVars, moneyVars>>
-----------------------------------------------------------------------------
(* Configuration.                                                          *)

AddBeneficiary(caller, wallet, shareBps) ==
    /\ caller = owner
    /\ Registry!Add(wallet, shareBps)
    /\ UNCHANGED <<now, authVars, nonceVars, liveness, tracked, outcomeVars, moneyVars>>

RemoveBeneficiary(caller, wallet) ==
    /\ caller = owner
    /\ Registry!Remove(wallet)
    /\ UNCHANGED <<now, authVars, nonceVars, liveness, tracked, outcomeVars, moneyVars>>

SetBeneficiariesBySig(m) ==
    /\ ConsumeActionDigest("SetBeneficiaries", m, owner)
    /\ Registry!Replace(m.wallets, m.shares)
    /\ UNCHANGED <<now, authVars, liveness, tracked, outcomeVars, moneyVars>>

ReplaceTrackedTokens(tokens) ==
    /\ ValidTokenList(tokens)
    /\ tracked' = Range(tokens)

SetTrackedTokens(caller, tokens) ==
    /\ caller = owner
    /\ ReplaceTrackedTokens(tokens)
    /\ UNCHANGED <<now, authVars, nonceVars, liveness, share, outcomeVars, moneyVars>>

SetTrackedTokensBySig(m) ==
    /\ ConsumeActionDigest("SetTrackedTokens", m, owner)
    /\ ReplaceTrackedTokens(m.tokens)
    /\ UNCHANGED <<now, authVars, liveness, share, outcomeVars, moneyVars>>

\* Mutant: the owner may always move the vault.
OwnerControlsAlways == TRUE

\* The owner decides alone until a recovery key exists.
OwnerControls == ~vault.recoveryKeyRegistered

SetSafeVault(caller, newVault) ==
    /\ caller = owner
    /\ OwnerControls
    /\ newVault # None
    /\ newVault # owner
    /\ vault' = [vault EXCEPT !.safeVault = newVault]
    /\ UNCHANGED <<now, initialized, owner, pendingOwner, nonceVars, policyVars,
                   outcomeVars, moneyVars>>

SetSafeVaultBySig(m) ==
    /\ vault.recoveryKeyRegistered
    /\ m.newVault # None
    /\ m.newVault # owner
    /\ m.newVault # vault.recoveryKeyAddress
    /\ ConsumeSignature("SetSafeVault", m, vault.recoveryKeyAddress)
    /\ vault' = [vault EXCEPT !.safeVault = m.newVault]
    /\ UNCHANGED <<now, initialized, owner, pendingOwner, policyVars, outcomeVars, moneyVars>>

\* Mutant: the vault is not consulted.
KeyNonZero(key) == key # None /\ key # owner

\* A key on its own may not be the owner nor, without the acknowledgement
\* of the configuration signature, the vault.
KeyAcceptable(key) ==
    /\ key # None
    /\ key # owner
    /\ key # vault.safeVault

RegisterRecoveryKey(caller, recoveryKey) ==
    /\ caller = owner
    /\ OwnerControls
    /\ KeyAcceptable(recoveryKey)
    /\ vault' = VaultOf(vault.safeVault, recoveryKey, TRUE)
    /\ UNCHANGED <<now, initialized, owner, pendingOwner, nonceVars, policyVars,
                   outcomeVars, moneyVars>>

RotateRecoveryKey(m) ==
    /\ vault.recoveryKeyRegistered
    /\ KeyAcceptable(m.newKey)
    /\ ConsumeSignature("RotateRecoveryKey", m, vault.recoveryKeyAddress)
    /\ vault' = [vault EXCEPT !.recoveryKeyAddress = m.newKey]
    /\ UNCHANGED <<now, initialized, owner, pendingOwner, policyVars, outcomeVars, moneyVars>>

\* Both addresses in one reviewed action, in place of whatever was there.
SetRecoveryConfig(recoveryKey, safeVault, allowSharedRecovery) ==
    /\ ValidRecovery(owner, recoveryKey, safeVault, allowSharedRecovery)
    /\ vault' = VaultOf(safeVault, recoveryKey, TRUE)

SetRecoveryConfigBySig(m) ==
    /\ ConsumeActionDigest("SetRecoveryConfig", m,
          IF vault.recoveryKeyRegistered THEN vault.recoveryKeyAddress ELSE owner)
    /\ SetRecoveryConfig(m.recoveryKey, m.safeVault, m.allowSharedRecovery)
    /\ UNCHANGED <<now, initialized, owner, pendingOwner, policyVars, outcomeVars, moneyVars>>

\* The bootstrap of a plan that did not come from the factory.
InitializePlan(caller, plan) ==
    /\ caller = Deployer
    /\ ~initialized
    /\ initialized' = TRUE
    /\ ApplySettings(plan.settings)
    /\ Registry!Replace(plan.wallets, plan.shares)
    /\ SetRecoveryConfig(plan.recoveryKey, plan.safeVault, plan.allowSharedRecovery)
    /\ ReplaceTrackedTokens(plan.tokens)
    /\ UNCHANGED <<now, owner, pendingOwner, nonceVars, outcomeVars, moneyVars>>

TransferOwnership(caller, newOwner) ==
    /\ caller = owner
    /\ newOwner # None
    /\ pendingOwner' = newOwner
    /\ UNCHANGED <<now, initialized, owner, vault, nonceVars, policyVars, outcomeVars,
                   moneyVars>>

AcceptOwnership(caller) ==
    /\ caller = pendingOwner
    /\ owner' = pendingOwner
    /\ pendingOwner' = None
    /\ UNCHANGED <<now, initialized, vault, nonceVars, policyVars, outcomeVars, moneyVars>>
-----------------------------------------------------------------------------
\* The next block.
Tick ==
    /\ now < MaxTime
    /\ now' = now + 1
    /\ UNCHANGED <<authVars, nonceVars, policyVars, outcomeVars, moneyVars>>

\* Who refuses delivery is decided when it is attempted, except that a
\* hostile account always does.
Refusals == {r \in SUBSET Registry!Wallets : Hostile \cap Registry!Wallets \subseteq r}

LivenessStep ==
    \/ \E caller \in Accounts :
          \/ Heartbeat(caller)
          \/ CancelInheritance(caller)
          \/ \E s \in SettingInputs : SetLivenessConfig(caller, s)
          \/ \E active \in BOOLEAN : ToggleLiveness(caller, active)
    \/ \E m \in Signed["Heartbeat"] : HeartbeatBySig(m)
    \/ \E m \in Signed["SetLivenessConfig"] : SetLivenessConfigBySig(m)

NativeInheritance == \E refusing \in Refusals : ExecuteInheritance(refusing)

EstateStep ==
    \/ NativeInheritance
    \/ \E t \in Tokens : \E refusing \in SUBSET Registry!Wallets :
          ExecuteInheritanceERC20(t, refusing)
    \/ \E caller \in Accounts : Withdraw(caller)
    \/ \E caller \in Accounts : \E t \in Tokens : ClaimToken(caller, t)
    \/ \E m \in Signed["Evacuate"] : \E stuck \in SUBSET tracked : Evacuate(m, stuck)
    \/ \E t \in Tokens : EvacuateToken(t)
    \/ \E m \in Signed["Panic"] : PanicButton(m)

ConfigStep ==
    \/ \E caller \in Accounts :
          \/ \E w \in WalletInputs : \E bps \in ShareInputs : AddBeneficiary(caller, w, bps)
          \/ \E w \in WalletInputs : RemoveBeneficiary(caller, w)
          \/ \E tokens \in TokenListInputs : SetTrackedTokens(caller, tokens)
          \/ \E v \in VaultInputs : SetSafeVault(caller, v)
          \/ \E k \in KeyInputs : RegisterRecoveryKey(caller, k)
          \/ \E plan \in Plans : InitializePlan(caller, plan)
          \/ \E o \in OwnerInputs : TransferOwnership(caller, o)
          \/ AcceptOwnership(caller)
    \/ \E m \in Signed["SetBeneficiaries"] : SetBeneficiariesBySig(m)
    \/ \E m \in Signed["SetTrackedTokens"] : SetTrackedTokensBySig(m)
    \/ \E m \in Signed["SetSafeVault"] : SetSafeVaultBySig(m)
    \/ \E m \in Signed["RotateRecoveryKey"] : RotateRecoveryKey(m)
    \/ \E m \in Signed["SetRecoveryConfig"] : SetRecoveryConfigBySig(m)

EnvironmentStep ==
    \/ \E amount \in DepositInputs : Deposit(amount)
    \/ \E t \in Tokens : \E a \in Accounts : \E amount \in TokenAmounts : Approve(t, a, amount)
    \/ \E t \in Tokens : \E amount \in TokenAmounts : OwnerHolds(t, amount)

Next == LivenessStep \/ EstateStep \/ ConfigStep \/ EnvironmentStep \/ Tick

Spec == Init /\ [][Next]_vars

\* Blocks keep coming, and some keeper keeps trying the permissionless call.
FairSpec == Spec /\ WF_vars(Tick) /\ WF_vars(NativeInheritance)
-----------------------------------------------------------------------------
\* The type invariant, one part per group of variables.
ClockType == now \in 1 .. MaxTime

AuthType ==
    /\ initialized \in BOOLEAN
    /\ owner \in Accounts
    /\ pendingOwner \in Addresses
    /\ vault \in [safeVault : Addresses, recoveryKeyAddress : Addresses,
                  recoveryKeyRegistered : BOOLEAN]

NonceType ==
    /\ nonceUsed \subseteq Nat
    /\ actionNonceUsed \in [ActionKinds -> SUBSET Nat]
    /\ timesUsed \in [Messages -> Nat]

LivenessType ==
    liveness \in [heartbeatInterval : U64, timeoutDuration : U64, gracePeriod : U64,
                  lastHeartbeat : 1 .. MaxTime, livenessActive : BOOLEAN]

EstateType ==
    /\ share \in [Accounts -> 0 .. TOTAL_BPS]
    /\ tracked \subseteq Tokens

OutcomeType ==
    /\ inheritanceExecuted \in BOOLEAN /\ inheritanceTimestamp \in 0 .. MaxTime
    /\ evacuationExecuted \in BOOLEAN /\ evacuationTimestamp \in 0 .. MaxTime
    /\ tokenDistributed \subseteq Tokens

EtherType ==
    /\ balance \in Nat
    /\ ether \in [Accounts -> Nat]
    /\ pendingWithdrawal \in [Accounts -> Nat]

TokenType ==
    /\ tokenBalance \in [Tokens -> [Accounts -> Nat]]
    /\ allowance \in [Tokens -> [Accounts -> Nat]]
    /\ pendingTokenWithdrawal \in [Tokens -> [Accounts -> Nat]]

\* Every variable keeps the type the source gives it: no balance, claim or
\* allowance is ever driven below zero, and no share above 100%.
TypeOK ==
    /\ ClockType
    /\ AuthType
    /\ NonceType
    /\ LivenessType
    /\ EstateType
    /\ OutcomeType
    /\ EtherType
    /\ TokenType
-----------------------------------------------------------------------------
(* Properties of the estate.                                               *)

\* Until an evacuation, the plan holds every wei it owes to beneficiaries
\* who refused delivery, whatever was deposited, removed, reconfigured or
\* withdrawn in between: shares round down and are paid once, so deferred
\* portions never exceed what was left behind for them.
Solvent == ~evacuationExecuted => SumFunction(pendingWithdrawal) <= balance

\* Once the ether has been distributed, a claim turns into a payment wei
\* for wei and never twice: no call credits or pays an account again.  Only
\* the evacuation, which pays the vault, is exempt.
ClaimsKept ==
    (inheritanceExecuted /\ evacuationExecuted' = evacuationExecuted) =>
      \A w \in Accounts : ether'[w] + pendingWithdrawal'[w] = ether[w] + pendingWithdrawal[w]

ClaimsConserved == [][ClaimsKept]_vars

\* A token is distributed once.  After that, and after an evacuation, no
\* bystander (neither the owner whose wallet is pulled nor the vault) gains
\* or loses by any call except by turning a recorded claim into tokens.
TokenClaimsKept ==
    \A t \in Tokens : \A w \in Accounts \ {owner, vault.safeVault} :
      (t \in tokenDistributed \/ evacuationExecuted) =>
         tokenBalance'[t][w] + pendingTokenWithdrawal'[t][w]
            = tokenBalance[t][w] + pendingTokenWithdrawal[t][w]

TokenClaimsConserved == [][TokenClaimsKept]_vars

\* An evacuated estate never goes on to be inherited, even when its owner
\* switches liveness back on and lets the deadline pass again, and no new
\* claim against it arises.
StaysEvacuated ==
    evacuationExecuted =>
      /\ evacuationExecuted'
      /\ inheritanceExecuted' = inheritanceExecuted
      /\ tokenDistributed' = tokenDistributed
      /\ \A w \in Accounts :
            /\ pendingWithdrawal'[w] <= pendingWithdrawal[w]
            /\ \A t \in Tokens :
                  pendingTokenWithdrawal'[t][w] <= pendingTokenWithdrawal[t][w]

EvacuationIsFinal == [][StaysEvacuated]_vars

\* Nothing is distributed before the owner has been silent for timeout plus
\* grace, the sum taken without the bound of uint64: periods too long to add
\* postpone the inheritance, they never bring it forward.
DistributesWhenDue ==
    (inheritanceExecuted' # inheritanceExecuted \/ tokenDistributed' # tokenDistributed) =>
      now >= liveness.lastHeartbeat + liveness.timeoutDuration + liveness.gracePeriod

NeverBeforeDeadline == [][DistributesWhenDue]_vars

\* A complete, active plan whose deadline the clock can reach.
Armed ==
    /\ ~evacuationExecuted
    /\ liveness.livenessActive
    /\ Registry!Wallets # {}
    /\ Registry!TotalShareBps = TOTAL_BPS
    /\ liveness.timeoutDuration + liveness.gracePeriod <= MaxU64
    /\ liveness.lastHeartbeat + liveness.timeoutDuration + liveness.gracePeriod <= MaxTime

\* If from some point on the plan stays armed, its estate is eventually
\* distributed, even when a beneficiary's receive() always reverts ("must
\* not be able to brick the whole estate").
SilentOwnerIsInherited == (<>[]Armed) => <>inheritanceExecuted
-----------------------------------------------------------------------------
(* Properties of the authority.                                            *)

JustAccepted(kind, m) ==
    /\ timesUsed[<<kind, m>>] = 0
    /\ timesUsed'[<<kind, m>>] = 1

\* Once a recovery key is registered, the key and the vault change only by
\* a signature of the key in force, made for exactly that change and never
\* accepted before: a stolen owner key cannot redirect the evacuation, and
\* a rotated-out key has lost its say.  The one exception is the bootstrap
\* of a plan deployed without the factory.
ChangesRecoverySigned ==
    (vault.recoveryKeyRegistered /\ vault' # vault /\ initialized' = initialized) =>
      \/ \E m \in Signed["RotateRecoveryKey"] :
            /\ JustAccepted("RotateRecoveryKey", m)
            /\ m.signer = vault.recoveryKeyAddress
            /\ vault' = [vault EXCEPT !.recoveryKeyAddress = m.newKey]
      \/ \E m \in Signed["SetSafeVault"] :
            /\ JustAccepted("SetSafeVault", m)
            /\ m.signer = vault.recoveryKeyAddress
            /\ vault' = [vault EXCEPT !.safeVault = m.newVault]
      \/ \E m \in Signed["SetRecoveryConfig"] :
            /\ JustAccepted("SetRecoveryConfig", m)
            /\ m.signer = vault.recoveryKeyAddress
            /\ vault' = VaultOf(m.safeVault, m.recoveryKey, TRUE)

RecoveryChangeSigned == [][ChangesRecoverySigned]_vars

\* One wallet becomes both recovery key and vault only through a step that
\* carries the explicit acknowledgement; no sequence of single-address
\* changes gets there.
Shared == vault.safeVault = vault.recoveryKeyAddress /\ vault.safeVault # None

SharesAcknowledged ==
    (~Shared /\ Shared') =>
      \/ \E m \in Signed["SetRecoveryConfig"] :
            JustAccepted("SetRecoveryConfig", m) /\ m.allowSharedRecovery
      \/ \E plan \in Plans : plan.allowSharedRecovery /\ initialized' # initialized

SharingAcknowledged == [][SharesAcknowledged]_vars

NonceSpace(kind) == IF kind \in SharedKinds THEN SharedKinds ELSE {kind}

\* No signature is accepted twice, and of two signatures that spend the
\* same nonce of the same space at most one is: a panic burns its nonce for
\* the evacuation, and one configuration kind leaves the others alone.
NoReplay ==
    /\ \A x \in Messages : timesUsed[x] <= 1
    /\ \A x, y \in Messages :
          (x # y /\ y[1] \in NonceSpace(x[1]) /\ x[2].nonce = y[2].nonce) =>
             timesUsed[x] + timesUsed[y] <= 1
-----------------------------------------------------------------------------
(* What a test says of the contract and the code does not do.              *)

\* "The refused share is preserved, not lost or reverted": the plan always
\* holds what it owes.
RefusedSharePreserved == SumFunction(pendingWithdrawal) <= balance
=============================================================================
