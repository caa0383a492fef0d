------------------------------- MODULE Session -------------------------------
(***************************************************************************)
(* The session every page of the dashboard shares: the connected wallet,   *)
(* and the plan the factories hold for it as a cached query answers it.    *)
(* The cache survives a change of wallet, so a wallet seen before has a    *)
(* resolution at once and a new one is loading.  The wallet is on Sepolia. *)
(***************************************************************************)
EXTENDS Naturals

CONSTANTS
    Owners,     \* the wallets a user of the browser owns plans with
    NoPlan,     \* no factory has a plan of the owner
    Loading     \* the query is not answered yet

\* the one plan a factory can register for an owner
PlanFor(owner) == <<"plan", owner>>

ASSUME SessionAssumption ==
    /\ NoPlan # Loading
    /\ \A owner \in Owners : PlanFor(owner) \notin {NoPlan, Loading}

VARIABLES
    wallet,     \* the connected wallet
    planOf,     \* the current factory's registry; earlier factories hold no plan
    cache       \* answers of the planOf query, by owner
session == <<wallet, planOf, cache>>

\* mutant: the last answer is shown until the next one arrives
KeptResolution ==
    IF cache[wallet] = Loading /\ \E owner \in Owners : cache[owner] # Loading
    THEN CHOOSE answer \in {cache[owner] : owner \in Owners} : answer # Loading
    ELSE cache[wallet]

\* classifyFactoryPlans: a plan, NoPlan when every factory answered none
Resolution == cache[wallet]

Missing  == Resolution = NoPlan
Resolved == Resolution \notin {Loading, NoPlan}

SessionInit ==
    /\ wallet \in Owners
    /\ cache = [owner \in Owners |-> Loading]

\* the wallet extension switches accounts
SwitchWallet ==
    /\ wallet' \in Owners \ {wallet}
    /\ UNCHANGED <<planOf, cache>>

\* the query of the connected wallet is answered, at first or by a refetch
Resolve ==
    /\ cache' = [cache EXCEPT ![wallet] = planOf[wallet]]
    /\ cache' # cache
    /\ UNCHANGED <<wallet, planOf>>

\* A factory that cannot be read counts as one that answered without a plan.
\* To a component that needs a plan, that is no different from Loading.
FactoryUnread ==
    /\ cache' = [cache EXCEPT ![wallet] = NoPlan]
    /\ cache' # cache
    /\ UNCHANGED <<wallet, planOf>>
=============================================================================
