---------------------------- MODULE Beneficiaries ----------------------------
(***************************************************************************)
(* The beneficiary registry as contracts/LegacyKeeper.sol stores it: a     *)
(* dynamic array that the distribution loop walks, a membership flag and a *)
(* position per wallet, and a running total.  Positions count from 0 in    *)
(* the source and from 1 here; `delete` resets a position to Unset, the    *)
(* default value a mapping has for a wallet that was never written.        *)
(***************************************************************************)
EXTENDS PlanRules, SequencesExt

CONSTANTS
    ShareInputs,         \* shares offered to addBeneficiary
    Lists                \* <<wallets, shares>> offered to a replacement

ASSUME RegistryAssumption ==
    /\ ShareInputs \subseteq Nat
    /\ \A l \in Lists : l[1] \in Seq(Addresses) /\ l[2] \in Seq(Nat)

VARIABLES
    beneficiaries,       \* sequence of [wallet, shareBps]
    isBeneficiary,       \* wallet -> flag
    beneficiaryIndex,    \* wallet -> position in the array
    totalShareBps        \* running total

vars == <<beneficiaries, isBeneficiary, beneficiaryIndex, totalShareBps>>

\* A mapping's default, position 0 of the source.
Unset == 1

Entry == [wallet : Accounts, shareBps : 1 .. TOTAL_BPS]

\* The value of the four storage fields, so that the loops of the source
\* can be folds over it.
Registry == [list |-> beneficiaries, flag |-> isBeneficiary,
             index |-> beneficiaryIndex, total |-> totalShareBps]

Store(r) ==
    /\ beneficiaries'    = r.list
    /\ isBeneficiary'    = r.flag
    /\ beneficiaryIndex' = r.index
    /\ totalShareBps'    = r.total

Empty == [list |-> <<>>, flag |-> [w \in Accounts |-> FALSE],
          index |-> [w \in Accounts |-> Unset], total |-> 0]

Init ==
    /\ beneficiaries    = Empty.list
    /\ isBeneficiary    = Empty.flag
    /\ beneficiaryIndex = Empty.index
    /\ totalShareBps    = Empty.total
-----------------------------------------------------------------------------
\* Mutant: the running total is not consulted.
CanAddUnbounded(r, wallet, shareBps) ==
    /\ wallet # None
    /\ ~r.flag[wallet]
    /\ Len(r.list) < MAX_BENEFICIARIES
    /\ shareBps > 0 /\ shareBps <= TOTAL_BPS

CanAdd(r, wallet, shareBps) ==
    /\ wallet # None
    /\ ~r.flag[wallet]
    /\ Len(r.list) < MAX_BENEFICIARIES
    /\ shareBps > 0 /\ shareBps <= TOTAL_BPS
    /\ r.total + shareBps <= TOTAL_BPS

Added(r, wallet, shareBps) ==
    [list  |-> Append(r.list, [wallet |-> wallet, shareBps |-> shareBps]),
     flag  |-> [r.flag EXCEPT ![wallet] = TRUE],
     index |-> [r.index EXCEPT ![wallet] = Len(r.list) + 1],
     total |-> r.total + shareBps]

AddBeneficiary(wallet, shareBps) ==
    /\ CanAdd(Registry, wallet, shareBps)
    /\ Store(Added(Registry, wallet, shareBps))

\* Mutant: the moved entry keeps its old position.
RemoveWithoutReindex(wallet) ==
    LET idx   == beneficiaryIndex[wallet]
        last  == Len(beneficiaries)
        moved == beneficiaries[last]
    IN  /\ isBeneficiary[wallet]
        /\ beneficiaries' = Front([beneficiaries EXCEPT ![idx] = moved])
        /\ beneficiaryIndex' = [beneficiaryIndex EXCEPT ![wallet] = Unset]
        /\ isBeneficiary' = [isBeneficiary EXCEPT ![wallet] = FALSE]
        /\ totalShareBps' = totalShareBps - beneficiaries[idx].shareBps

\* Swap-and-pop: the last entry takes the place of the removed one, unless
\* the removed one is itself the last.
RemoveBeneficiary(wallet) ==
    LET idx   == beneficiaryIndex[wallet]
        last  == Len(beneficiaries)
        moved == beneficiaries[last]
    IN  /\ isBeneficiary[wallet]
        /\ beneficiaries' = Front([beneficiaries EXCEPT ![idx] = moved])
        /\ beneficiaryIndex' =
              [beneficiaryIndex EXCEPT ![moved.wallet] = idx, ![wallet] = Unset]
        /\ isBeneficiary' = [isBeneficiary EXCEPT ![wallet] = FALSE]
        /\ totalShareBps' = totalShareBps - beneficiaries[idx].shareBps

\* Mutant: the array survives the clearing of its wallets.
ClearedKeepingList(r) ==
    LET listed == {r.list[i].wallet : i \in DOMAIN r.list}
    IN  [list  |-> r.list,
         flag  |-> [w \in Accounts |-> r.flag[w] /\ w \notin listed],
         index |-> [w \in Accounts |-> IF w \in listed THEN Unset ELSE r.index[w]],
         total |-> 0]

\* Every listed wallet loses its flag and its position; a wallet that is
\* flagged but not listed would keep them.
Cleared(r) ==
    LET listed == {r.list[i].wallet : i \in DOMAIN r.list}
    IN  [list  |-> <<>>,
         flag  |-> [w \in Accounts |-> r.flag[w] /\ w \notin listed],
         index |-> [w \in Accounts |-> IF w \in listed THEN Unset ELSE r.index[w]],
         total |-> 0]

\* Each addition re-checks its own guard, so a list that passes the
\* validation and fails an addition reverts the whole call.
ReplaceBeneficiaries(wallets, shares) ==
    LET steps[i \in 0 .. Len(wallets)] ==
            IF i = 0 THEN Cleared(Registry)
                     ELSE Added(steps[i-1], wallets[i], shares[i])
    IN  /\ ValidAllocation(wallets, shares)
        /\ \A i \in DOMAIN wallets : CanAdd(steps[i-1], wallets[i], shares[i])
        /\ Store(steps[Len(wallets)])

Next ==
    \/ \E w \in Addresses : \E bps \in ShareInputs : AddBeneficiary(w, bps)
    \/ \E w \in Accounts : RemoveBeneficiary(w)
    \/ \E l \in Lists : ReplaceBeneficiaries(l[1], l[2])

Spec == Init /\ [][Next]_vars
-----------------------------------------------------------------------------
TypeOK ==
    /\ beneficiaries \in Seq(Entry)
    /\ isBeneficiary \in [Accounts -> BOOLEAN]
    /\ beneficiaryIndex \in [Accounts -> Nat \ {0}]
    /\ totalShareBps \in 0 .. TOTAL_BPS

\* The array, the flags and the positions describe the same wallets after
\* any sequence of additions, swap-and-pop removals and replacements: a
\* flagged wallet is found at its position, every entry of the array is
\* flagged and positioned there (so no wallet is listed twice), and the
\* running total is the sum that the distribution loop will pay out.
RegistryCoherent ==
    /\ \A w \in Accounts :
          isBeneficiary[w] =>
             /\ beneficiaryIndex[w] \in DOMAIN beneficiaries
             /\ beneficiaries[beneficiaryIndex[w]].wallet = w
    /\ \A i \in DOMAIN beneficiaries :
          /\ isBeneficiary[beneficiaries[i].wallet]
          /\ beneficiaryIndex[beneficiaries[i].wallet] = i
    /\ totalShareBps = SumFunction([i \in DOMAIN beneficiaries |-> beneficiaries[i].shareBps])

\* What the distribution loop pays wallet w, in basis points: the sum over
\* the entries that name it.
PaidShare(w) ==
    SumFunctionOnSet([i \in DOMAIN beneficiaries |-> beneficiaries[i].shareBps],
                     {i \in DOMAIN beneficiaries : beneficiaries[i].wallet = w})

Share == [w \in Accounts |-> PaidShare(w)]

\* The array registry implements the abstract allocation: read through the
\* loop that pays it, every operation is an addition, a removal that leaves
\* the other wallets' shares alone, or the atomic installation of a
\* complete allocation ("Partial totals never become live state").
Abstract == INSTANCE Allocation WITH share <- Share
ImplementsAllocation == Abstract!Spec
=============================================================================
