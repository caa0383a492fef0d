----------------------------- MODULE Allocation -----------------------------
(***************************************************************************)
(* What the beneficiary registry promises the rest of the contract: a map  *)
(* from wallets to shares.  Adding never exceeds 100%, removing forgets    *)
(* one wallet and touches nobody else, and replacing installs a complete   *)
(* allocation in one step.  The module Beneficiaries shows that the array, *)
(* the flags, the index and the running total of the source implement it;  *)
(* the module LegacyKeeper is built on it.                                 *)
(***************************************************************************)
EXTENDS PlanRules

VARIABLE share           \* share[w] in basis points, 0 for a stranger

TotalShareBps == SumFunction(share)
Wallets       == {w \in Accounts : share[w] > 0}

Init == share = [w \in Accounts |-> 0]

Add(wallet, shareBps) ==
    /\ wallet \in Accounts
    /\ share[wallet] = 0
    /\ Cardinality(Wallets) < MAX_BENEFICIARIES
    /\ shareBps > 0 /\ shareBps <= TOTAL_BPS
    /\ TotalShareBps + shareBps <= TOTAL_BPS
    /\ share' = [share EXCEPT ![wallet] = shareBps]

Remove(wallet) ==
    /\ wallet \in Accounts
    /\ share[wallet] > 0
    /\ share' = [share EXCEPT ![wallet] = 0]

Replace(wallets, shares) ==
    /\ ValidAllocation(wallets, shares)
    /\ share' = AllocationOf(wallets, shares)

\* Any step of a registry that keeps the promise.
Next ==
    \/ \E w \in Accounts : \E bps \in 1 .. TOTAL_BPS : Add(w, bps)
    \/ \E w \in Accounts : Remove(w)
    \/ /\ TotalShareBps' = TOTAL_BPS
       /\ share' \in [Accounts -> 0 .. TOTAL_BPS]
       /\ Cardinality(Wallets') <= MAX_BENEFICIARIES

Spec == Init /\ [][Next]_share
=============================================================================
