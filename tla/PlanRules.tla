------------------------------ MODULE PlanRules ------------------------------
(***************************************************************************)
(* The data of a LegacyKeeper plan and the validation rules that every     *)
(* path writing it must pass: the owner's direct setters, the signed       *)
(* setters and the factory's one-time initialisation all go through the    *)
(* same private functions of contracts/LegacyKeeper.sol.                   *)
(*                                                                         *)
(* An address is an account or None, the zero address.  Shares are basis   *)
(* points of TOTAL_BPS.  MaxU64 is the largest value of the uint64 fields. *)
(***************************************************************************)
EXTENDS Integers, Sequences, FiniteSets, Functions

CONSTANTS
    Accounts,            \* the non-zero addresses
    None,                \* address(0)
    Tokens,              \* ERC-20 contracts
    TOTAL_BPS,           \* 10000 in the source
    MAX_BENEFICIARIES,   \* 10 in the source
    MAX_TRACKED_TOKENS,  \* 32 in the source
    MaxU64               \* 2^64 - 1 in the source

ASSUME RulesAssumption ==
    /\ IsFiniteSet(Accounts)        \* there are 2^160 - 1 of them
    /\ None \notin Accounts
    /\ None \notin Tokens
    /\ TOTAL_BPS \in Nat \ {0}
    /\ MAX_BENEFICIARIES \in Nat \ {0}
    /\ MAX_TRACKED_TOKENS \in Nat
    /\ MaxU64 \in Nat \ {0}

Addresses == Accounts \cup {None}
U64       == 0 .. MaxU64

\* What the three numbers of the liveness policy can hold.
Settings == [heartbeatInterval : U64, timeoutDuration : U64, gracePeriod : U64]

ValidSettings(s) ==
    /\ s.heartbeatInterval > 0
    /\ s.timeoutDuration > 0

\* A complete allocation: distinct wallets whose shares make exactly 100%.
ValidAllocation(wallets, shares) ==
    /\ Len(wallets) > 0
    /\ Len(wallets) = Len(shares)
    /\ Len(wallets) <= MAX_BENEFICIARIES
    /\ \A i \in DOMAIN wallets :
          /\ wallets[i] # None
          /\ shares[i] > 0
          /\ shares[i] <= TOTAL_BPS
          /\ \A j \in DOMAIN wallets : j < i => wallets[j] # wallets[i]
    /\ SumFunction(shares) = TOTAL_BPS

\* The allocation that two parallel arrays describe.
AllocationOf(wallets, shares) ==
    [w \in Accounts |->
        IF \E i \in DOMAIN wallets : wallets[i] = w
        THEN shares[CHOOSE i \in DOMAIN wallets : wallets[i] = w]
        ELSE 0]

ValidRecovery(owner, recoveryKey, safeVault, allowSharedRecovery) ==
    /\ recoveryKey # None
    /\ safeVault # None
    /\ recoveryKey # owner
    /\ safeVault # owner
    /\ recoveryKey # safeVault \/ allowSharedRecovery

\* The limit counts the list as given, duplicates included.
ValidTokenList(tokens) ==
    /\ Len(tokens) <= MAX_TRACKED_TOKENS
    /\ \A i \in DOMAIN tokens : tokens[i] # None

\* What initializePlan checks, field by field, before a plan exists.
ValidPlan(owner, plan) ==
    /\ ValidSettings(plan.settings)
    /\ ValidAllocation(plan.wallets, plan.shares)
    /\ ValidRecovery(owner, plan.recoveryKey, plan.safeVault, plan.allowSharedRecovery)
    /\ ValidTokenList(plan.tokens)
=============================================================================
