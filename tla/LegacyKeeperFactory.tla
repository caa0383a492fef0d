------------------------- MODULE LegacyKeeperFactory -------------------------
(***************************************************************************)
(* The registry contract, contracts/LegacyKeeperFactory.sol, together with *)
(* the one thing that happens to a registered plan behind its back: the    *)
(* two-step handover of the plan's own ownership.                          *)
(*                                                                         *)
(* Anybody may relay a creation: they choose the owner and configuration   *)
(* of the call and the signature to go with them.  A signature covers the  *)
(* digest of exactly one owner, configuration, nonce and deadline; checked *)
(* against any other call it recovers an address nobody has, here None.    *)
(* Deployed plans are numbered in order of creation and 0 is the zero      *)
(* address, as planOf returns it for an unregistered owner.                *)
(***************************************************************************)
EXTENDS PlanRules

CONSTANTS
    Configs,             \* the PlanConfig values offered to createPlan
    Signatures,          \* CreatePlan typed data that wallets have signed
    MaxTime              \* bound of the block clock

ASSUME FactoryAssumption ==
    /\ Configs \subseteq
          [settings : Settings, wallets : Seq(Addresses), shares : Seq(Nat),
           recoveryKey : Addresses, safeVault : Addresses,
           allowSharedRecovery : BOOLEAN, tokens : Seq(Tokens \cup {None})]
    /\ Signatures \subseteq
          [owner : Addresses, config : Configs, nonce : Nat, deadline : Nat,
           signer : Accounts]
    /\ MaxTime \in Nat \ {0}

VARIABLES
    now,                 \* block.timestamp
    planOf,              \* owner -> number of the registered plan, or 0
    nonceUsed,           \* owner -> nonces spent
    plans                \* sequence of [creator, config, owner, pendingOwner]

factoryVars == <<now, planOf, nonceUsed, plans>>

FactoryInit ==
    /\ now = 1
    /\ planOf = [a \in Accounts |-> 0]
    /\ nonceUsed = [a \in Accounts |-> {}]
    /\ plans = <<>>
-----------------------------------------------------------------------------
\* Mutant: the configuration is not part of the digest.
RecoveredLoosely(m, owner, config) ==
    IF m.owner = owner THEN m.signer ELSE None

\* The address ecrecover yields for the digest of this call.
Recovered(m, owner, config) ==
    IF m.owner = owner /\ m.config = config THEN m.signer ELSE None

\* _consumeCreationSignature.
ConsumeCreationSignature(m, owner, config) ==
    /\ now <= m.deadline
    /\ m.nonce \notin nonceUsed[owner]
    /\ Recovered(m, owner, config) = owner
    /\ nonceUsed' = [nonceUsed EXCEPT ![owner] = @ \cup {m.nonce}]

\* Mutant: a failed initialisation is swallowed instead of reverting.
CreateBestEffort(owner, config, m) ==
    /\ owner # None
    /\ planOf[owner] = 0
    /\ ConsumeCreationSignature(m, owner, config)
    /\ IF ValidPlan(owner, config)
       THEN /\ plans' = Append(plans, [creator |-> owner, config |-> config,
                                       owner |-> owner, pendingOwner |-> None])
            /\ planOf' = [planOf EXCEPT ![owner] = Len(plans) + 1]
       ELSE UNCHANGED <<plans, planOf>>
    /\ UNCHANGED now

\* Deployment, initialisation and registration are one transaction: a
\* configuration that initializePlan rejects takes the nonce back too.
CreatePlan(owner, config, m) ==
    /\ owner # None
    /\ planOf[owner] = 0
    /\ ConsumeCreationSignature(m, owner, config)
    /\ ValidPlan(owner, config)
    /\ plans' = Append(plans, [creator |-> owner, config |-> config,
                               owner |-> owner, pendingOwner |-> None])
    /\ planOf' = [planOf EXCEPT ![owner] = Len(plans) + 1]
    /\ UNCHANGED now

\* LegacyKeeper.transferOwnership and acceptOwnership of plan number p.
TransferOwnership(p, newOwner) ==
    /\ newOwner # None
    /\ plans' = [plans EXCEPT ![p].pendingOwner = newOwner]
    /\ UNCHANGED <<now, planOf, nonceUsed>>

AcceptOwnership(p) ==
    /\ plans[p].pendingOwner # None
    /\ plans' = [plans EXCEPT ![p].owner = plans[p].pendingOwner, ![p].pendingOwner = None]
    /\ UNCHANGED <<now, planOf, nonceUsed>>

Tick ==
    /\ now < MaxTime
    /\ now' = now + 1
    /\ UNCHANGED <<planOf, nonceUsed, plans>>

FactoryNext ==
    \/ \E owner \in Addresses : \E config \in Configs : \E m \in Signatures :
          CreatePlan(owner, config, m)
    \/ \E p \in DOMAIN plans : \E newOwner \in Addresses : TransferOwnership(p, newOwner)
    \/ \E p \in DOMAIN plans : AcceptOwnership(p)
    \/ Tick

FactorySpec == FactoryInit /\ [][FactoryNext]_factoryVars
-----------------------------------------------------------------------------
FactoryTypeOK ==
    /\ now \in 1 .. MaxTime
    /\ planOf \in [Accounts -> Nat]
    /\ nonceUsed \in [Accounts -> SUBSET Nat]
    /\ plans \in Seq([creator : Accounts, config : Configs, owner : Accounts,
                      pendingOwner : Addresses])

\* The registry and the deployed plans are in one-to-one correspondence
\* forever, and no signature is spent in vain: every plan is registered for
\* the wallet that created it, and a wallet has spent exactly one nonce if
\* it is registered and none otherwise, so a creation that fails for any
\* reason can be retried with the same signature.
RegistryExact ==
    /\ \A p \in DOMAIN plans : planOf[plans[p].creator] = p
    /\ \A a \in Accounts :
          IF planOf[a] = 0
          THEN nonceUsed[a] = {}
          ELSE /\ planOf[a] \in DOMAIN plans
               /\ plans[planOf[a]].creator = a
               /\ \E m \in Signatures : nonceUsed[a] = {m.nonce}

\* Every plan was created from a signature of its creator over the whole of
\* its configuration, whatever configuration a relayer submitted with it.
CreatedAsSigned ==
    \A p \in DOMAIN plans :
       \E m \in Signatures :
          /\ m.signer = plans[p].creator
          /\ m.owner = plans[p].creator
          /\ m.config = plans[p].config
          /\ m.nonce \in nonceUsed[plans[p].creator]
          /\ ValidPlan(plans[p].creator, m.config)
=============================================================================
