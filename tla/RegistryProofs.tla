--------------------------- MODULE RegistryProofs ---------------------------
(***************************************************************************)
(* Theorems about the two registries of the contracts.                     *)
(*                                                                         *)
(* The registry of beneficiaries, for every number of accounts, every      *)
(* limit and every list offered: the array, the flags, the positions and   *)
(* the running total stay coherent, and together they implement the map of *)
(* shares of module Allocation.  Coherence is stated of a value of the     *)
(* four storage fields, so that it speaks of the steps inside a            *)
(* replacement as well as of states.                                       *)
(*                                                                         *)
(* The registry of plans, for every number of wallets, configurations and  *)
(* signatures: RegistryExact and CreatedAsSigned are inductive together    *)
(* with the type invariant, because a registered owner fails the guard of  *)
(* the next creation, and an unregistered one has no nonce to lose.        *)
(***************************************************************************)
EXTENDS Beneficiaries, LegacyKeeperFactory, SumLemmas, SequenceTheorems

-----------------------------------------------------------------------------
(* The registry of beneficiaries.                                          *)

Terms(list) == [i \in DOMAIN list |-> list[i].shareBps]

\* Flags and array describe each other by way of the positions.
Linked(r) ==
    /\ \A w \in Accounts :
          r.flag[w] => /\ r.index[w] \in DOMAIN r.list
                       /\ r.list[r.index[w]].wallet = w
    /\ \A i \in DOMAIN r.list :
          /\ r.flag[r.list[i].wallet]
          /\ r.index[r.list[i].wallet] = i

Sound(r) ==
    /\ r.list \in Seq(Entry)
    /\ r.flag \in [Accounts -> BOOLEAN]
    /\ r.index \in [Accounts -> Nat \ {0}]
    /\ r.total \in 0 .. TOTAL_BPS
    /\ Linked(r)
    /\ r.total = SumFunction(Terms(r.list))

IInv == Sound(Registry)

LEMMA InvIsSound == IInv <=> TypeOK /\ RegistryCoherent
BY DEF IInv, Sound, Linked, Terms, Registry, TypeOK, RegistryCoherent
-----------------------------------------------------------------------------
\* The terms of a well-typed list, and their sum.
LEMMA TermsOfList ==
    ASSUME NEW list \in Seq(Entry)
    PROVE  /\ DOMAIN list = 1 .. Len(list)
           /\ Len(list) \in Nat
           /\ IsFiniteSet(1 .. Len(list))
           /\ \A i \in 1 .. Len(list) : /\ list[i].wallet \in Accounts
                                        /\ list[i].shareBps \in 1 .. TOTAL_BPS
                                        /\ Terms(list)[i] = list[i].shareBps
                                        /\ Terms(list)[i] \in Nat
           /\ SumFunction(Terms(list)) = SumFunctionOnSet(Terms(list), 1 .. Len(list))
           /\ SumFunction(Terms(list)) \in Nat
<1>1. DOMAIN list = 1 .. Len(list) /\ Len(list) \in Nat
  OBVIOUS
<1>2. IsFiniteSet(1 .. Len(list))
  BY <1>1, FS_Interval
<1>3. ASSUME NEW i \in 1 .. Len(list)
      PROVE  /\ list[i].wallet \in Accounts
             /\ list[i].shareBps \in 1 .. TOTAL_BPS
             /\ Terms(list)[i] = list[i].shareBps
             /\ Terms(list)[i] \in Nat
  <2>1. list[i] \in Entry
    OBVIOUS
  <2>2. list[i].wallet \in Accounts /\ list[i].shareBps \in 1 .. TOTAL_BPS
    BY <2>1 DEF Entry
  <2> QED BY <1>1, <2>2, RulesAssumption DEF Terms
<1>4. SumFunction(Terms(list)) = SumFunctionOnSet(Terms(list), 1 .. Len(list))
  BY <1>1 DEF SumFunction, Terms
<1>5. SumFunction(Terms(list)) \in Nat
  BY <1>2, <1>3, <1>4, SumNatural
<1> QED BY <1>1, <1>2, <1>3, <1>4, <1>5

\* One more entry at the end.
LEMMA AppendedTerms ==
    ASSUME NEW list \in Seq(Entry), NEW e \in Entry
    PROVE  /\ Append(list, e) \in Seq(Entry)
           /\ SumFunction(Terms(Append(list, e))) = SumFunction(Terms(list)) + e.shareBps
<1> DEFINE longer == Append(list, e)
           n == Len(list)
<1>1. /\ longer \in Seq(Entry)
      /\ Len(longer) = n + 1
      /\ \A i \in 1 .. n : longer[i] = list[i]
      /\ longer[n + 1] = e
  BY AppendProperties
<1> HIDE DEF longer
<1>2. /\ n \in Nat
      /\ IsFiniteSet(1 .. n)
      /\ \A i \in 1 .. n : Terms(list)[i] = list[i].shareBps /\ Terms(list)[i] \in Nat
      /\ SumFunction(Terms(list)) = SumFunctionOnSet(Terms(list), 1 .. n)
      /\ SumFunction(Terms(list)) \in Nat
  BY TermsOfList
<1>3. /\ IsFiniteSet(1 .. n + 1)
      /\ \A i \in 1 .. n + 1 : Terms(longer)[i] = longer[i].shareBps /\ Terms(longer)[i] \in Nat
      /\ SumFunction(Terms(longer)) = SumFunctionOnSet(Terms(longer), 1 .. n + 1)
  BY <1>1, TermsOfList
<1>4. n + 1 \in 1 .. n + 1 /\ (1 .. n + 1) \ {n + 1} = 1 .. n
  BY <1>2
<1>5. SumFunctionOnSet(Terms(longer), 1 .. n + 1)
        = Terms(longer)[n + 1] + SumFunctionOnSet(Terms(longer), 1 .. n)
  <2> DEFINE S == 1 .. n + 1
             x == n + 1
  <2>1. IsFiniteSet(S) /\ x \in S /\ S \ {x} = 1 .. n /\ \A i \in S : Terms(longer)[i] \in Nat
    BY <1>3, <1>4
  <2> HIDE DEF S, x
  <2>2. SumFunctionOnSet(Terms(longer), S)
          = Terms(longer)[x] + SumFunctionOnSet(Terms(longer), S \ {x})
    BY <2>1, SumOneMore
  <2> QED BY <2>1, <2>2 DEF S, x
<1>6. \A i \in 1 .. n : Terms(longer)[i] = Terms(list)[i]
  BY <1>1, <1>2, <1>3
<1>7. SumFunctionOnSet(Terms(longer), 1 .. n) = SumFunctionOnSet(Terms(list), 1 .. n)
  BY <1>2, <1>6, SumSameTerms
<1>8. Terms(longer)[n + 1] = e.shareBps /\ e.shareBps \in Nat
  BY <1>1, <1>3, <1>4
<1>9. SumFunction(Terms(longer)) = SumFunction(Terms(list)) + e.shareBps
  BY <1>2, <1>3, <1>5, <1>7, <1>8
<1> QED BY <1>1, <1>9 DEF longer

LEMMA AddedIsSound ==
    ASSUME NEW r, Sound(r), NEW wallet \in Addresses, NEW shareBps \in Nat,
           CanAdd(r, wallet, shareBps)
    PROVE  /\ Sound(Added(r, wallet, shareBps))
           /\ Len(Added(r, wallet, shareBps).list) = Len(r.list) + 1
           /\ Added(r, wallet, shareBps).total = r.total + shareBps
<1> DEFINE e == [wallet |-> wallet, shareBps |-> shareBps]
           n == Len(r.list)
           new == Added(r, wallet, shareBps)
<1>1. /\ wallet \in Accounts
      /\ ~r.flag[wallet]
      /\ e \in Entry
      /\ r.total + shareBps \in 0 .. TOTAL_BPS
  BY RulesAssumption DEF CanAdd, Addresses, Entry, Sound
<1>2. /\ r.list \in Seq(Entry)
      /\ r.flag \in [Accounts -> BOOLEAN]
      /\ r.index \in [Accounts -> Nat \ {0}]
      /\ Linked(r)
      /\ n \in Nat
      /\ DOMAIN r.list = 1 .. n
  BY DEF Sound
<1>3. /\ new.list = Append(r.list, e)
      /\ new.flag = [r.flag EXCEPT ![wallet] = TRUE]
      /\ new.index = [r.index EXCEPT ![wallet] = n + 1]
      /\ new.total = r.total + shareBps
  BY DEF Added
<1>4. /\ new.list \in Seq(Entry)
      /\ Len(new.list) = n + 1
      /\ DOMAIN new.list = 1 .. n + 1
      /\ \A i \in 1 .. n : new.list[i] = r.list[i]
      /\ new.list[n + 1] = e
      /\ SumFunction(Terms(new.list)) = SumFunction(Terms(r.list)) + shareBps
  BY <1>1, <1>2, <1>3, AppendProperties, AppendedTerms
<1> HIDE DEF new
<1>5. Linked(new)
  <2>1. ASSUME NEW w \in Accounts, new.flag[w]
        PROVE  new.index[w] \in DOMAIN new.list /\ new.list[new.index[w]].wallet = w
    <3>1. CASE w = wallet
      BY <1>2, <1>3, <1>4, <3>1
    <3>2. CASE w # wallet
      <4>1. r.flag[w] /\ new.index[w] = r.index[w]
        BY <1>2, <1>3, <2>1, <3>2
      <4> QED BY <1>2, <1>4, <4>1 DEF Linked
    <3> QED BY <3>1, <3>2
  <2>2. ASSUME NEW i \in DOMAIN new.list
        PROVE  new.flag[new.list[i].wallet] /\ new.index[new.list[i].wallet] = i
    <3>1. CASE i = n + 1
      BY <1>1, <1>2, <1>3, <1>4, <3>1
    <3>2. CASE i # n + 1
      <4>1. i \in 1 .. n /\ new.list[i] = r.list[i]
        BY <1>2, <1>4, <3>2
      <4>2. r.flag[r.list[i].wallet] /\ r.index[r.list[i].wallet] = i
        BY <1>2, <4>1 DEF Linked
      <4>3. r.list[i].wallet \in Accounts /\ r.list[i].wallet # wallet
        BY <1>1, <1>2, <4>1, <4>2, TermsOfList
      <4> QED BY <1>2, <1>3, <4>1, <4>2, <4>3
    <3> QED BY <3>1, <3>2
  <2> QED BY <2>1, <2>2 DEF Linked
<1> QED BY <1>1, <1>2, <1>3, <1>4, <1>5 DEF Sound, new
-----------------------------------------------------------------------------
(* Swap and pop.                                                           *)

SwapPop(list, idx) == Front([list EXCEPT ![idx] = list[Len(list)]])

LEMMA SwapPopEntries ==
    ASSUME NEW list \in Seq(Entry), NEW idx \in 1 .. Len(list)
    PROVE  /\ SwapPop(list, idx) \in Seq(Entry)
           /\ Len(SwapPop(list, idx)) = Len(list) - 1
           /\ \A i \in 1 .. Len(list) - 1 :
                 SwapPop(list, idx)[i] = IF i = idx THEN list[Len(list)] ELSE list[i]
<1> DEFINE n == Len(list)
           swapped == [list EXCEPT ![idx] = list[n]]
<1>1. n \in Nat /\ n >= 1 /\ list[n] \in Entry
  OBVIOUS
<1>2. /\ Len(swapped) = n
      /\ \A i \in 1 .. n : swapped[i] = IF i = idx THEN list[n] ELSE list[i]
      /\ \A i \in 1 .. n : swapped[i] \in Entry
  BY <1>1, ExceptSeq
<1> HIDE DEF swapped
<1>3. \A i \in 1 .. n - 1 : swapped[i] \in Entry
  BY <1>1, <1>2
<1>4. /\ SubSeq(swapped, 1, n - 1) \in Seq(Entry)
      /\ Len(SubSeq(swapped, 1, n - 1)) = IF 1 <= n - 1 THEN (n - 1) - 1 + 1 ELSE 0
      /\ \A i \in 1 .. (n - 1) - 1 + 1 : SubSeq(swapped, 1, n - 1)[i] = swapped[1 + i - 1]
  BY <1>1, <1>3, SubSeqProperties
<1>5. SwapPop(list, idx) = SubSeq(swapped, 1, n - 1)
  BY <1>2 DEF SwapPop, Front, swapped
<1> QED BY <1>1, <1>2, <1>4, <1>5

\* The sum loses the term of the removed entry and no other.
LEMMA SwapPopTerms ==
    ASSUME NEW list \in Seq(Entry), NEW idx \in 1 .. Len(list)
    PROVE  SumFunction(Terms(list))
             = list[idx].shareBps + SumFunction(Terms(SwapPop(list, idx)))
<1> DEFINE n == Len(list)
           shorter == SwapPop(list, idx)
           a == Terms(list)
           b == Terms(shorter)
           S == 1 .. n - 1
<1>1. /\ n \in Nat /\ n >= 1
      /\ \A i \in 1 .. n : a[i] = list[i].shareBps /\ a[i] \in Nat
      /\ SumFunction(a) = SumFunctionOnSet(a, 1 .. n)
      /\ IsFiniteSet(1 .. n)
  BY TermsOfList
<1>2. /\ shorter \in Seq(Entry)
      /\ Len(shorter) = n - 1
      /\ \A i \in S : shorter[i] = IF i = idx THEN list[n] ELSE list[i]
  BY SwapPopEntries
<1>3. /\ \A i \in S : b[i] = shorter[i].shareBps /\ b[i] \in Nat
      /\ SumFunction(b) = SumFunctionOnSet(b, S)
      /\ IsFiniteSet(S)
  BY <1>2, TermsOfList
<1>4. \A i \in S : b[i] = IF i = idx THEN a[n] ELSE a[i]
  BY <1>1, <1>2, <1>3
<1> HIDE DEF a, b, shorter
<1>5. SumFunctionOnSet(a, 1 .. n) = a[n] + SumFunctionOnSet(a, S)
  <2> DEFINE R == 1 .. n
  <2>1. IsFiniteSet(R) /\ n \in R /\ R \ {n} = S /\ \A i \in R : a[i] \in Nat
    BY <1>1
  <2> HIDE DEF R, S, n
  <2>2. SumFunctionOnSet(a, R) = a[n] + SumFunctionOnSet(a, R \ {n})
    BY <2>1, SumOneMore
  <2> QED BY <2>1, <2>2 DEF R
<1>6. /\ \A i \in S : a[i] \in Nat /\ b[i] \in Nat
      /\ a[n] \in Nat /\ a[idx] \in Nat /\ a[idx] = list[idx].shareBps
      /\ SumFunctionOnSet(a, S) \in Nat /\ SumFunctionOnSet(b, S) \in Nat
  <2>1. \A i \in S : a[i] \in Nat /\ b[i] \in Nat
    BY <1>1, <1>3
  <2>2. a[n] \in Nat /\ a[idx] \in Nat /\ a[idx] = list[idx].shareBps
    BY <1>1
  <2> HIDE DEF S
  <2> QED BY <1>3, <2>1, <2>2, SumNatural
<1>7. CASE idx = n
  <2>1. \A i \in S : a[i] \in Nat /\ b[i] = a[i]
    BY <1>1, <1>4, <1>6, <1>7
  <2> HIDE DEF S
  <2>2. SumFunctionOnSet(b, S) = SumFunctionOnSet(a, S)
    BY <1>3, <2>1, SumSameTerms
  <2> QED BY <1>1, <1>3, <1>5, <1>6, <1>7, <2>2 DEF a, b, shorter
<1>8. CASE idx # n
  <2>1. idx \in S /\ b[idx] = a[n] /\ \A i \in S \ {idx} : b[i] = a[i]
    BY <1>1, <1>4, <1>8
  <2> HIDE DEF S
  <2>2. SumFunctionOnSet(b, S) + a[idx] = SumFunctionOnSet(a, S) + b[idx]
    <3> DEFINE x == idx
    <3>1. IsFiniteSet(S) /\ \A i \in S : a[i] \in Nat /\ b[i] \in Nat
      BY <1>3, <1>6
    <3>2. x \in S /\ \A i \in S \ {x} : b[i] = a[i]
      BY <2>1
    <3> HIDE DEF x
    <3>3. SumFunctionOnSet(b, S) + a[x] = SumFunctionOnSet(a, S) + b[x]
      BY <3>1, <3>2, SumOneChanged
    <3> QED BY <3>3 DEF x
  <2> QED BY <1>1, <1>3, <1>5, <1>6, <2>1, <2>2 DEF a, b, shorter
<1> QED BY <1>7, <1>8

\* The value that RemoveBeneficiary leaves in storage.
Removed(r, wallet) ==
    LET idx   == r.index[wallet]
        moved == r.list[Len(r.list)]
    IN  [list  |-> SwapPop(r.list, idx),
         flag  |-> [r.flag EXCEPT ![wallet] = FALSE],
         index |-> [r.index EXCEPT ![moved.wallet] = idx, ![wallet] = Unset],
         total |-> r.total - r.list[idx].shareBps]

LEMMA RemovedIsSound ==
    ASSUME NEW r, Sound(r), NEW wallet \in Accounts, r.flag[wallet]
    PROVE  Sound(Removed(r, wallet))
<1> DEFINE idx == r.index[wallet]
           n == Len(r.list)
           moved == r.list[n]
           new == Removed(r, wallet)
<1>1. /\ r.list \in Seq(Entry)
      /\ r.flag \in [Accounts -> BOOLEAN]
      /\ r.index \in [Accounts -> Nat \ {0}]
      /\ r.total \in 0 .. TOTAL_BPS
      /\ r.total = SumFunction(Terms(r.list))
      /\ n \in Nat
      /\ DOMAIN r.list = 1 .. n
      /\ \A i \in 1 .. n : r.list[i].wallet \in Accounts
      /\ \A w \in Accounts : r.flag[w] => r.index[w] \in 1 .. n /\ r.list[r.index[w]].wallet = w
      /\ \A i \in 1 .. n : r.flag[r.list[i].wallet] /\ r.index[r.list[i].wallet] = i
  BY TermsOfList DEF Sound, Linked
<1>2. /\ idx \in 1 .. n /\ r.list[idx].wallet = wallet
      /\ n \in 1 .. n /\ moved.wallet \in Accounts /\ r.index[moved.wallet] = n
      /\ moved.wallet = wallet => idx = n
  BY <1>1
<1>3. /\ new.list \in Seq(Entry)
      /\ Len(new.list) = n - 1
      /\ DOMAIN new.list = 1 .. n - 1
      /\ \A i \in 1 .. n - 1 : new.list[i] = IF i = idx THEN moved ELSE r.list[i]
      /\ SumFunction(Terms(r.list)) = r.list[idx].shareBps + SumFunction(Terms(new.list))
  <2>1. new.list = SwapPop(r.list, idx)
    BY DEF Removed
  <2>2. /\ SwapPop(r.list, idx) \in Seq(Entry)
        /\ Len(SwapPop(r.list, idx)) = n - 1
        /\ \A i \in 1 .. n - 1 :
              SwapPop(r.list, idx)[i] = IF i = idx THEN moved ELSE r.list[i]
    <3>1. r.list \in Seq(Entry) /\ idx \in 1 .. Len(r.list)
      BY <1>1, <1>2
    <3> HIDE DEF idx
    <3> QED BY <3>1, SwapPopEntries
  <2>3. SumFunction(Terms(r.list))
          = r.list[idx].shareBps + SumFunction(Terms(SwapPop(r.list, idx)))
    BY <1>1, <1>2, SwapPopTerms
  <2> HIDE DEF new, idx, moved
  <2>4. DOMAIN new.list = 1 .. n - 1
    BY <2>1, <2>2
  <2> QED BY <2>1, <2>2, <2>3, <2>4
<1>4. /\ new.flag = [r.flag EXCEPT ![wallet] = FALSE]
      /\ new.index = [r.index EXCEPT ![moved.wallet] = idx, ![wallet] = Unset]
      /\ new.total = r.total - r.list[idx].shareBps
  BY DEF Removed
<1>5. /\ new.flag \in [Accounts -> BOOLEAN]
      /\ new.index \in [Accounts -> Nat \ {0}]
      /\ \A w \in Accounts : new.flag[w] <=> (w # wallet /\ r.flag[w])
      /\ \A w \in Accounts \ {wallet} :
            new.index[w] = IF w = moved.wallet THEN idx ELSE r.index[w]
  <2> HIDE DEF new, idx, moved
  <2> QED BY <1>1, <1>2, <1>4 DEF Unset
<1>6. new.total \in 0 .. TOTAL_BPS /\ new.total = SumFunction(Terms(new.list))
  <2>1. /\ SumFunction(Terms(new.list)) \in Nat
        /\ r.list[idx].shareBps \in Nat
    <3> HIDE DEF new, idx
    <3>1. SumFunction(Terms(new.list)) \in Nat
      BY <1>3, TermsOfList
    <3>2. r.list[idx].shareBps \in Nat
      BY <1>1, <1>2, TermsOfList
    <3> QED BY <3>1, <3>2
  <2> DEFINE share == r.list[idx].shareBps
             rest == SumFunction(Terms(new.list))
  <2>2. r.total = share + rest /\ new.total = r.total - share
    BY <1>1, <1>3, <1>4
  <2>3. r.total \in 0 .. TOTAL_BPS /\ TOTAL_BPS \in Nat
    BY <1>1, RulesAssumption
  <2> HIDE DEF new, idx, share, rest
  <2>4. share \in Nat /\ rest \in Nat
    BY <2>1 DEF share, rest
  <2>5. new.total = rest /\ new.total \in 0 .. TOTAL_BPS
    BY <2>2, <2>3, <2>4
  <2> QED BY <2>5 DEF rest
<1> HIDE DEF new, idx, moved
<1>7. Linked(new)
  <2>1. ASSUME NEW w \in Accounts, new.flag[w]
        PROVE  new.index[w] \in DOMAIN new.list /\ new.list[new.index[w]].wallet = w
    <3>1. w # wallet /\ r.flag[w] /\ r.index[w] \in 1 .. n /\ r.list[r.index[w]].wallet = w
      BY <1>1, <1>5, <2>1
    <3>2. r.index[w] # idx
      BY <1>2, <3>1
    <3>3. CASE w = moved.wallet
      <4>1. idx \in 1 .. n - 1
        BY <1>1, <1>2, <3>2, <3>3
      <4>2. new.index[w] = idx /\ new.list[idx] = moved
        BY <1>3, <1>5, <3>1, <3>3, <4>1
      <4> QED BY <1>3, <3>3, <4>1, <4>2
    <3>4. CASE w # moved.wallet
      <4>1. r.index[w] \in 1 .. n - 1
        BY <1>1, <3>1, <3>4 DEF moved
      <4>2. new.index[w] = r.index[w] /\ new.list[r.index[w]] = r.list[r.index[w]]
        BY <1>3, <1>5, <3>1, <3>2, <3>4, <4>1
      <4> QED BY <1>3, <3>1, <4>1, <4>2
    <3> QED BY <3>3, <3>4
  <2>2. ASSUME NEW i \in DOMAIN new.list
        PROVE  new.flag[new.list[i].wallet] /\ new.index[new.list[i].wallet] = i
    <3>1. i \in 1 .. n /\ i # n
      BY <1>1, <1>3, <2>2
    <3>2. CASE i = idx
      <4>1. new.list[i] = moved /\ moved.wallet # wallet
        BY <1>2, <1>3, <3>1, <3>2
      <4>2. r.flag[moved.wallet]
        BY <1>1, <1>2 DEF moved
      <4> QED BY <1>2, <1>5, <3>2, <4>1, <4>2
    <3>3. CASE i # idx
      <4>1. new.list[i] = r.list[i] /\ r.list[i].wallet \in Accounts
            /\ r.flag[r.list[i].wallet] /\ r.index[r.list[i].wallet] = i
        BY <1>1, <1>3, <2>2, <3>1, <3>3
      <4>2. r.list[i].wallet # wallet /\ r.list[i].wallet # moved.wallet
        BY <1>2, <3>1, <3>3, <4>1 DEF idx
      <4> QED BY <1>5, <4>1, <4>2
    <3> QED BY <3>2, <3>3
  <2> QED BY <2>1, <2>2 DEF Linked
<1> QED BY <1>3, <1>5, <1>6, <1>7 DEF Sound, new
-----------------------------------------------------------------------------
(* Replacement.                                                            *)

\* A sound registry is cleared to the last flag.
LEMMA ClearedIsSound ==
    ASSUME NEW r, Sound(r)
    PROVE  /\ Sound(Cleared(r))
           /\ Len(Cleared(r).list) = 0
           /\ Cleared(r).total = 0
<1> DEFINE new == Cleared(r)
           listed == {r.list[i].wallet : i \in DOMAIN r.list}
<1>1. /\ r.flag \in [Accounts -> BOOLEAN]
      /\ r.index \in [Accounts -> Nat \ {0}]
      /\ \A w \in Accounts : r.flag[w] => w \in listed
  BY DEF Sound, Linked
<1>2. /\ new.list = << >>
      /\ new.flag = [w \in Accounts |-> r.flag[w] /\ w \notin listed]
      /\ new.index = [w \in Accounts |-> IF w \in listed THEN Unset ELSE r.index[w]]
      /\ new.total = 0
  BY DEF Cleared
<1> HIDE DEF new, listed
<1>3. /\ new.list \in Seq(Entry) /\ Len(new.list) = 0 /\ DOMAIN new.list = {}
      /\ new.flag \in [Accounts -> BOOLEAN]
      /\ new.index \in [Accounts -> Nat \ {0}]
      /\ \A w \in Accounts : ~new.flag[w]
  <2>1. << >> \in Seq(Entry) /\ Len(<< >>) = 0 /\ DOMAIN << >> = {}
    OBVIOUS
  <2>2. new.flag \in [Accounts -> BOOLEAN] /\ \A w \in Accounts : ~new.flag[w]
    BY <1>1, <1>2
  <2>3. new.index \in [Accounts -> Nat \ {0}]
    BY <1>1, <1>2 DEF Unset
  <2> QED BY <1>2, <2>1, <2>2, <2>3
<1>4. SumFunction(Terms(new.list)) = 0
  BY <1>3, SumEmpty DEF SumFunction, Terms
<1> QED BY <1>2, <1>3, <1>4, RulesAssumption DEF Sound, Linked, new

\* The registries between the additions of a replacement, up to the k-th.
IsChain(g, k, r, wallets, shares) ==
    g = [i \in 0 .. k |->
            IF i = 0 THEN Cleared(r) ELSE Added(g[i-1], wallets[i], shares[i])]

ChainOf(r, wallets, shares) == CHOOSE g : IsChain(g, Len(wallets), r, wallets, shares)

LEMMA ChainExists ==
    ASSUME NEW n \in Nat, NEW r, NEW wallets, NEW shares
    PROVE  \E g : IsChain(g, n, r, wallets, shares)
<1> DEFINE value(g, i) == IF i = 0 THEN Cleared(r) ELSE Added(g[i-1], wallets[i], shares[i])
           G == {k \in 0 .. n : \E g : g = [i \in 0 .. k |-> value(g, i)]}
<1>1. 0 \in G
  <2> DEFINE g == [i \in 0 .. 0 |-> Cleared(r)]
  <2>1. g = [i \in 0 .. 0 |-> value(g, i)]
    OBVIOUS
  <2>2. \E h : h = [i \in 0 .. 0 |-> value(h, i)]
    <3> HIDE DEF g, value
    <3> QED BY <2>1
  <2> QED BY <2>2
<1>2. ASSUME NEW k \in 0 .. n - 1, k \in G
      PROVE  k + 1 \in G
  <2>1. PICK g : g = [i \in 0 .. k |-> value(g, i)]
    BY <1>2
  <2> DEFINE h == [i \in 0 .. k + 1 |-> IF i <= k THEN g[i] ELSE value(g, i)]
  <2>2. \A i \in 0 .. k + 1 : h[i] = value(h, i)
    <3> SUFFICES ASSUME NEW i \in 0 .. k + 1 PROVE h[i] = value(h, i)
      OBVIOUS
    <3>1. h[i] = value(g, i)
      BY <2>1
    <3>2. i # 0 => h[i-1] = g[i-1]
      OBVIOUS
    <3> QED BY <3>1, <3>2
  <2>3. h = [i \in 0 .. k + 1 |-> value(h, i)]
    BY <2>2
  <2>4. \E f : f = [i \in 0 .. k + 1 |-> value(f, i)]
    <3> HIDE DEF h, value
    <3> QED BY <2>3
  <2>5. k + 1 \in 0 .. n
    OBVIOUS
  <2> QED BY <2>4, <2>5
<1>3. \A k \in 0 .. n : k \in G
  <2> HIDE DEF G
  <2> QED BY <1>1, <1>2, UpToInduction
<1> QED BY <1>3 DEF IsChain

LEMMA ReplacementIsChain ==
    ASSUME NEW wallets \in Seq(Addresses), NEW shares \in Seq(Nat),
           ReplaceBeneficiaries(wallets, shares)
    PROVE  LET g == ChainOf(Registry, wallets, shares) IN
             /\ IsChain(g, Len(wallets), Registry, wallets, shares)
             /\ ValidAllocation(wallets, shares)
             /\ \A i \in DOMAIN wallets : CanAdd(g[i-1], wallets[i], shares[i])
             /\ Store(g[Len(wallets)])
<1>1. IsChain(ChainOf(Registry, wallets, shares), Len(wallets), Registry, wallets, shares)
  <2>1. Len(wallets) \in Nat
    OBVIOUS
  <2> QED BY <2>1, ChainExists DEF ChainOf
<1>2. LET g == ChainOf(Registry, wallets, shares) IN
        /\ ValidAllocation(wallets, shares)
        /\ \A i \in DOMAIN wallets : CanAdd(g[i-1], wallets[i], shares[i])
        /\ Store(g[Len(wallets)])
  BY DEF ReplaceBeneficiaries, ChainOf, IsChain
<1> QED BY <1>1, <1>2

\* Each addition of a replacement leaves a sound registry, whose total is
\* that of the list so far.
LEMMA ChainIsSound ==
    ASSUME NEW r, Sound(r), NEW wallets \in Seq(Addresses), NEW shares \in Seq(Nat),
           ValidAllocation(wallets, shares), NEW g,
           IsChain(g, Len(wallets), r, wallets, shares),
           \A i \in DOMAIN wallets : CanAdd(g[i-1], wallets[i], shares[i])
    PROVE  /\ Sound(g[Len(wallets)])
           /\ Len(g[Len(wallets)].list) = Len(wallets)
           /\ g[Len(wallets)].total = TOTAL_BPS
<1> DEFINE n == Len(wallets)
           sum(i) == SumFunctionOnSet(shares, 1 .. i)
           G == {i \in 0 .. n : /\ Sound(g[i])
                                /\ Len(g[i].list) = i
                                /\ g[i].total = sum(i)}
<1>0. /\ n \in Nat
      /\ DOMAIN wallets = 1 .. n
      /\ Len(shares) = n
      /\ \A i \in 1 .. n : wallets[i] \in Addresses /\ shares[i] \in Nat
  BY DEF ValidAllocation
<1>1. 0 \in G
  <2>1. g[0] = Cleared(r)
    BY <1>0 DEF IsChain
  <2>2. sum(0) = 0
    <3>1. 1 .. 0 = {}
      OBVIOUS
    <3> QED BY <3>1, SumEmpty
  <2> QED BY <1>0, <2>1, <2>2, ClearedIsSound
<1>2. ASSUME NEW i \in 0 .. n - 1, i \in G
      PROVE  i + 1 \in G
  <2>1. i + 1 \in 1 .. n /\ i \in Nat
    BY <1>0
  <2>2. g[i + 1] = Added(g[i], wallets[i + 1], shares[i + 1])
    BY <1>0, <2>1 DEF IsChain
  <2>3. CanAdd(g[i], wallets[i + 1], shares[i + 1])
    <3>1. CanAdd(g[(i + 1) - 1], wallets[i + 1], shares[i + 1])
      BY <1>0, <2>1
    <3> QED BY <2>1, <3>1
  <2>4. /\ Sound(g[i + 1])
        /\ Len(g[i + 1].list) = Len(g[i].list) + 1
        /\ g[i + 1].total = g[i].total + shares[i + 1]
    <3>1. Sound(g[i]) /\ wallets[i + 1] \in Addresses /\ shares[i + 1] \in Nat
      BY <1>0, <1>2, <2>1
    <3> HIDE DEF G, sum
    <3>2. LET q == Added(g[i], wallets[i + 1], shares[i + 1]) IN
              /\ Sound(q)
              /\ Len(q.list) = Len(g[i].list) + 1
              /\ q.total = g[i].total + shares[i + 1]
      BY <2>3, <3>1, AddedIsSound
    <3> QED BY <2>2, <3>2
  <2>5. sum(i + 1) = shares[i + 1] + sum(i)
    <3> DEFINE S == 1 .. i + 1
               x == i + 1
    <3>0. IsFiniteSet(S)
      BY <2>1, FS_Interval
    <3>1. x \in S /\ S \ {x} = 1 .. i
      BY <2>1
    <3>2. \A j \in S : shares[j] \in Nat
      BY <1>0, <2>1
    <3> HIDE DEF S, x
    <3>3. SumFunctionOnSet(shares, S) = shares[x] + SumFunctionOnSet(shares, S \ {x})
      BY <3>0, <3>1, <3>2, SumOneMore
    <3> QED BY <3>1, <3>3 DEF S, x
  <2>6. shares[i + 1] \in Nat /\ sum(i) \in Nat
    <3>1. IsFiniteSet(1 .. i)
      BY <2>1, FS_Interval
    <3>2. \A j \in 1 .. i : shares[j] \in Nat
      BY <1>0, <2>1
    <3> QED BY <1>0, <2>1, <3>1, <3>2, SumNatural
  <2> HIDE DEF sum
  <2>7. g[i + 1].total = sum(i + 1) /\ Len(g[i + 1].list) = i + 1
    <3>1. g[i].total = sum(i) /\ Len(g[i].list) = i
      BY <1>2
    <3>2. g[i + 1].total = sum(i) + shares[i + 1]
      BY <2>4, <3>1
    <3>3. sum(i) + shares[i + 1] = shares[i + 1] + sum(i)
      BY <2>6
    <3> QED BY <2>4, <2>5, <3>1, <3>2, <3>3
  <2> QED BY <1>0, <2>1, <2>4, <2>7
<1>3. \A i \in 0 .. n : i \in G
  <2> HIDE DEF G
  <2> QED BY <1>0, <1>1, <1>2, UpToInduction
<1>4. n \in G
  BY <1>0, <1>3
<1>5. sum(n) = TOTAL_BPS
  BY <1>0 DEF ValidAllocation, SumFunction
<1> QED BY <1>4, <1>5
-----------------------------------------------------------------------------
LEMMA InitSound == Init => IInv
<1> SUFFICES ASSUME Init PROVE IInv
  OBVIOUS
<1>1. /\ beneficiaries = << >>
      /\ isBeneficiary = [w \in Accounts |-> FALSE]
      /\ beneficiaryIndex = [w \in Accounts |-> Unset]
      /\ totalShareBps = 0
  BY DEF Init, Empty
<1>2. << >> \in Seq(Entry) /\ DOMAIN << >> = {}
  OBVIOUS
<1>3. SumFunction(Terms(beneficiaries)) = 0
  BY <1>1, <1>2, SumEmpty DEF SumFunction, Terms
<1> QED BY <1>1, <1>2, <1>3, RulesAssumption DEF IInv, Sound, Linked, Registry, Unset

\* What a step makes of the four storage fields.
LEMMA StoreIsRegistry ==
    ASSUME NEW r, r = [list |-> r.list, flag |-> r.flag, index |-> r.index, total |-> r.total],
           Store(r)
    PROVE  Registry' = r
BY DEF Store, Registry

LEMMA AddStep ==
    ASSUME NEW w \in Addresses, NEW bps \in ShareInputs, AddBeneficiary(w, bps)
    PROVE  /\ Registry' = Added(Registry, w, bps)
           /\ CanAdd(Registry, w, bps)
           /\ bps \in Nat
BY StoreIsRegistry, RegistryAssumption DEF AddBeneficiary, Added

LEMMA RemoveStep ==
    ASSUME NEW w \in Accounts, RemoveBeneficiary(w)
    PROVE  /\ Registry' = Removed(Registry, w)
           /\ Registry.flag[w]
BY DEF RemoveBeneficiary, Removed, SwapPop, Registry

LEMMA ReplaceStep ==
    ASSUME IInv, NEW l \in Lists, ReplaceBeneficiaries(l[1], l[2])
    PROVE  /\ Sound(Registry')
           /\ Len(Registry'.list) = Len(l[1])
           /\ Registry'.total = TOTAL_BPS
           /\ ValidAllocation(l[1], l[2])
<1> DEFINE wallets == l[1]
           shares == l[2]
           g == ChainOf(Registry, wallets, shares)
           last == g[Len(wallets)]
<1>1. wallets \in Seq(Addresses) /\ shares \in Seq(Nat)
  BY RegistryAssumption
<1>2. /\ IsChain(g, Len(wallets), Registry, wallets, shares)
      /\ ValidAllocation(wallets, shares)
      /\ \A i \in DOMAIN wallets : CanAdd(g[i-1], wallets[i], shares[i])
      /\ Store(last)
  BY <1>1, ReplacementIsChain
<1>3. /\ Sound(last)
      /\ Len(last.list) = Len(wallets)
      /\ last.total = TOTAL_BPS
  <2> HIDE DEF g
  <2> QED BY <1>1, <1>2, ChainIsSound DEF IInv
<1>4. /\ Registry'.list = last.list
      /\ Registry'.flag = last.flag
      /\ Registry'.index = last.index
      /\ Registry'.total = last.total
  BY <1>2 DEF Store, Registry
<1>5. Sound(Registry')
  <2> DEFINE after == Registry'
  <2>1. /\ after.list = last.list /\ after.flag = last.flag
        /\ after.index = last.index /\ after.total = last.total
    BY <1>4
  <2> HIDE DEF last, after
  <2>2. Linked(after)
    BY <1>3, <2>1 DEF Sound, Linked
  <2>3. Sound(after)
    BY <1>3, <2>1, <2>2 DEF Sound
  <2> QED BY <2>3 DEF after
<1> QED BY <1>2, <1>3, <1>4, <1>5

LEMMA StepSound ==
    ASSUME IInv, [Next]_vars
    PROVE  IInv'
<1>1. ASSUME NEW w \in Addresses, NEW bps \in ShareInputs, AddBeneficiary(w, bps)
      PROVE  IInv'
  BY <1>1, AddStep, AddedIsSound DEF IInv
<1>2. ASSUME NEW w \in Accounts, RemoveBeneficiary(w) PROVE IInv'
  BY <1>2, RemoveStep, RemovedIsSound DEF IInv
<1>3. ASSUME NEW l \in Lists, ReplaceBeneficiaries(l[1], l[2]) PROVE IInv'
  BY <1>3, ReplaceStep DEF IInv
<1>4. CASE UNCHANGED vars
  BY <1>4 DEF IInv, Sound, Linked, Registry, vars
<1> QED BY <1>1, <1>2, <1>3, <1>4 DEF Next

LEMMA Invariance == Spec => []IInv
<1>1. IInv /\ [Next]_vars => IInv'
  BY StepSound
<1> QED BY InitSound, <1>1, PTL DEF Spec

\* No removal underflows the total and no position leaves the array.
THEOREM RegistryTypeCorrect == Spec => []TypeOK
BY Invariance, InvIsSound, PTL

\* Array, flags, positions and total agree after any sequence of additions,
\* swap-and-pop removals and replacements.
THEOREM RegistryIsCoherent == Spec => []RegistryCoherent
BY Invariance, InvIsSound, PTL
-----------------------------------------------------------------------------
(* Refinement.  Read through the loop that pays it, a sound registry is    *)
(* the map of the shares at the positions of the flagged wallets.          *)

PaidBy(list, w) == SumFunctionOnSet(Terms(list), {i \in DOMAIN list : list[i].wallet = w})

SharesOf(r) ==
    [w \in Accounts |-> IF r.flag[w] THEN r.list[r.index[w]].shareBps ELSE 0]

LEMMA PaidIsShare ==
    ASSUME NEW r, Sound(r), NEW w \in Accounts
    PROVE  PaidBy(r.list, w) = SharesOf(r)[w]
<1> DEFINE S == {i \in DOMAIN r.list : r.list[i].wallet = w}
           terms == Terms(r.list)
           x == r.index[w]
<1>1. /\ r.list \in Seq(Entry)
      /\ \A i \in DOMAIN r.list : terms[i] = r.list[i].shareBps /\ terms[i] \in Nat
      /\ Linked(r)
  BY TermsOfList DEF Sound
<1>2. PaidBy(r.list, w) = SumFunctionOnSet(terms, S)
  BY DEF PaidBy
<1>3. CASE ~r.flag[w]
  <2>1. S = {}
    BY <1>1, <1>3 DEF Linked
  <2>2. SumFunctionOnSet(terms, S) = 0
    BY <2>1, SumEmpty
  <2> QED BY <1>2, <1>3, <2>2 DEF SharesOf
<1>4. CASE r.flag[w]
  <2>1. S = {x} /\ terms[x] = r.list[x].shareBps /\ terms[x] \in Nat
    BY <1>1, <1>4 DEF Linked
  <2> HIDE DEF S, terms, x
  <2>2. IsFiniteSet(S) /\ x \in S /\ S \ {x} = {} /\ \A i \in S : terms[i] \in Nat
    BY <2>1, FS_Singleton
  <2>3. SumFunctionOnSet(terms, S) = terms[x] + SumFunctionOnSet(terms, S \ {x})
    BY <2>2, SumOneMore
  <2>4. SumFunctionOnSet(terms, S) = r.list[x].shareBps
    BY <2>1, <2>2, <2>3, SumEmpty
  <2> QED BY <1>2, <1>4, <2>4 DEF SharesOf, x
<1> QED BY <1>3, <1>4

\* The map adds up to the running total, and as many wallets have a share
\* as there are entries.
LEMMA SharesOfSound ==
    ASSUME NEW r, Sound(r)
    PROVE  /\ SharesOf(r) \in [Accounts -> 0 .. TOTAL_BPS]
           /\ \A w \in Accounts : SharesOf(r)[w] > 0 <=> r.flag[w]
           /\ SumFunctionOnSet(SharesOf(r), Accounts) = r.total
           /\ Cardinality({w \in Accounts : SharesOf(r)[w] > 0}) = Len(r.list)
<1> DEFINE n == Len(r.list)
           shares == SharesOf(r)
           name == [i \in 1 .. n |-> r.list[i].wallet]
           terms == Terms(r.list)
           held == {w \in Accounts : shares[w] > 0}
<1>1. /\ n \in Nat
      /\ DOMAIN r.list = 1 .. n
      /\ IsFiniteSet(1 .. n)
      /\ \A i \in 1 .. n : /\ r.list[i].wallet \in Accounts
                           /\ r.list[i].shareBps \in 1 .. TOTAL_BPS
                           /\ terms[i] = r.list[i].shareBps
      /\ r.total = SumFunctionOnSet(terms, 1 .. n)
      /\ r.flag \in [Accounts -> BOOLEAN]
      /\ \A w \in Accounts : r.flag[w] => r.index[w] \in 1 .. n /\ r.list[r.index[w]].wallet = w
      /\ \A i \in 1 .. n : r.flag[r.list[i].wallet] /\ r.index[r.list[i].wallet] = i
  BY TermsOfList DEF Sound, Linked
<1>2. ASSUME NEW w \in Accounts
      PROVE  shares[w] \in 0 .. TOTAL_BPS /\ (shares[w] > 0 <=> r.flag[w])
  BY <1>1, <1>2, RulesAssumption DEF SharesOf
<1>3. shares \in [Accounts -> 0 .. TOTAL_BPS]
  BY <1>2 DEF SharesOf
<1>4. \A i \in 1 .. n : /\ name[i] \in Accounts
                        /\ r.flag[name[i]]
                        /\ r.index[name[i]] = i
                        /\ terms[i] = shares[name[i]]
  BY <1>1 DEF SharesOf
<1>5. \A w \in Accounts : shares[w] > 0 => \E i \in 1 .. n : name[i] = w
  BY <1>1, <1>2
<1>6. \A w \in Accounts : shares[w] \in Nat
  BY <1>2, RulesAssumption
<1>7. \A i, j \in 1 .. n : name[i] = name[j] => i = j
  <2> HIDE DEF name, n
  <2> QED BY <1>4
<1> HIDE DEF shares, terms
<1>8. SumFunctionOnSet(shares, Accounts) = SumFunctionOnSet(terms, 1 .. n)
  <2> DEFINE T == 1 .. n
  <2>1. /\ IsFiniteSet(Accounts) /\ IsFiniteSet(T)
        /\ \A i \in T : name[i] \in Accounts /\ terms[i] = shares[name[i]]
        /\ \A i, j \in T : name[i] = name[j] => i = j
        /\ \A w \in Accounts : (\A i \in T : name[i] # w) => shares[w] = 0
    <3> HIDE DEF name, n
    <3> QED BY <1>1, <1>4, <1>5, <1>6, <1>7, RulesAssumption
  <2> HIDE DEF T, name
  <2>2. SumFunctionOnSet(shares, Accounts) = SumFunctionOnSet(terms, T)
    BY <1>6, <2>1, SumRenamed
  <2> QED BY <2>2 DEF T
<1>9. Cardinality(held) = n
  <2>1. name \in [1 .. n -> held]
    BY <1>2, <1>4
  <2>2. \A w \in held : \E i \in 1 .. n : name[i] = w
    BY <1>5
  <2> HIDE DEF name, held, n
  <2>3. name \in Bijection(1 .. n, held)
    BY <1>7, <2>1, <2>2 DEF Bijection, Injection, IsInjective, Surjection
  <2>4. Cardinality(1 .. n) = n
    BY <1>1, FS_Interval
  <2>5. ExistsBijection(1 .. n, held)
    BY <2>3 DEF ExistsBijection
  <2> QED BY <1>1, <2>4, <2>5, FS_Bijection
<1> QED BY <1>1, <1>2, <1>3, <1>8, <1>9 DEF shares
-----------------------------------------------------------------------------
\* The refinement mapping in a state of the invariant.
LEMMA ShareIs ==
    ASSUME IInv
    PROVE  Share = SharesOf(Registry)
<1>1. \A w \in Accounts : PaidShare(w) = PaidBy(Registry.list, w)
  BY DEF PaidShare, PaidBy, Terms, Registry
<1> QED BY <1>1, PaidIsShare DEF IInv, Share, SharesOf

LEMMA ShareIsNext ==
    ASSUME IInv'
    PROVE  Share' = SharesOf(Registry')
<1>1. \A w \in Accounts : PaidShare(w)' = PaidBy(Registry'.list, w)
  BY DEF PaidShare, PaidBy, Terms, Registry
<1> QED BY <1>1, PaidIsShare DEF IInv, Share, SharesOf

LEMMA AbstractSum ==
    ASSUME NEW f
    PROVE  Abstract!SumFunction(f) = SumFunction(f)
BY DEF Abstract!SumFunction, Abstract!SumFunctionOnSet, Abstract!FoldFunctionOnSet,
       Abstract!MapThenFoldSet, SumFunction, SumFunctionOnSet, FoldFunctionOnSet, MapThenFoldSet

LEMMA AbstractCardinality ==
    ASSUME NEW S
    PROVE  Abstract!Cardinality(S) = Cardinality(S)
BY DEF Abstract!Cardinality, Cardinality

\* What the abstract registry reads off a sound one.
LEMMA AbstractView ==
    ASSUME IInv
    PROVE  /\ \A w \in Accounts : Share[w] > 0 <=> isBeneficiary[w]
           /\ \A w \in Accounts : ~isBeneficiary[w] => Share[w] = 0
           /\ Abstract!TotalShareBps = totalShareBps
           /\ Cardinality(Abstract!Wallets) = Len(beneficiaries)
<1>1. /\ Share = SharesOf(Registry)
      /\ Sound(Registry)
      /\ Registry.flag = isBeneficiary
      /\ Registry.total = totalShareBps
      /\ Registry.list = beneficiaries
  BY ShareIs DEF IInv, Registry
<1>2. DOMAIN Share = Accounts
  BY DEF Share
<1>3. Abstract!TotalShareBps = SumFunctionOnSet(Share, Accounts)
  BY <1>2, AbstractSum DEF Abstract!TotalShareBps, SumFunction
<1>4. \A w \in Accounts : ~isBeneficiary[w] => Share[w] = 0
  BY <1>1 DEF SharesOf
<1>5. Cardinality(Abstract!Wallets) = Len(beneficiaries)
  BY <1>1, SharesOfSound DEF Abstract!Wallets
<1> QED BY <1>1, <1>3, <1>4, <1>5, SharesOfSound

LEMMA InitRefines == Init => Abstract!Init
<1> SUFFICES ASSUME Init PROVE Abstract!Init
  OBVIOUS
<1>1. IInv /\ \A w \in Accounts : ~isBeneficiary[w]
  BY InitSound DEF Init, Empty
<1>2. \A w \in Accounts : Share[w] = 0
  BY <1>1, AbstractView
<1> QED BY <1>2 DEF Abstract!Init, Share

LEMMA AddRefines ==
    ASSUME IInv, IInv', NEW w \in Addresses, NEW bps \in ShareInputs, AddBeneficiary(w, bps)
    PROVE  w \in Accounts /\ bps \in 1 .. TOTAL_BPS /\ Abstract!Add(w, bps)
<1>1. /\ Registry' = Added(Registry, w, bps)
      /\ CanAdd(Registry, w, bps)
      /\ bps \in Nat
  BY AddStep
<1>2. /\ w \in Accounts
      /\ bps \in 1 .. TOTAL_BPS
      /\ ~isBeneficiary[w]
      /\ Len(beneficiaries) < MAX_BENEFICIARIES
      /\ totalShareBps + bps <= TOTAL_BPS
  BY <1>1, RulesAssumption DEF CanAdd, Registry, Addresses
<1>3. Share' = [Share EXCEPT ![w] = bps]
  <2> DEFINE old == Registry
             new == Registry'
             n == Len(old.list)
  <2>1. /\ Share = SharesOf(old)
        /\ Share' = SharesOf(new)
        /\ Sound(old)
    BY ShareIs, ShareIsNext DEF IInv
  <2>2. /\ new.list = Append(old.list, [wallet |-> w, shareBps |-> bps])
        /\ new.flag = [old.flag EXCEPT ![w] = TRUE]
        /\ new.index = [old.index EXCEPT ![w] = n + 1]
    BY <1>1 DEF Added
  <2> HIDE DEF old, new
  <2>3. /\ old.list \in Seq(Entry)
        /\ old.flag \in [Accounts -> BOOLEAN]
        /\ old.index \in [Accounts -> Nat \ {0}]
        /\ \A v \in Accounts : old.flag[v] => old.index[v] \in 1 .. n
    BY <2>1 DEF Sound, Linked
  <2>4. /\ new.list[n + 1].shareBps = bps
        /\ \A i \in 1 .. n : new.list[i] = old.list[i]
    <3>1. [wallet |-> w, shareBps |-> bps] \in Entry
      BY <1>2 DEF Entry
    <3> QED BY <2>2, <2>3, <3>1, AppendProperties
  <2>5. \A v \in Accounts : SharesOf(new)[v] = IF v = w THEN bps ELSE SharesOf(old)[v]
    BY <1>2, <2>2, <2>3, <2>4 DEF SharesOf
  <2>6. SharesOf(new) = [SharesOf(old) EXCEPT ![w] = bps]
    BY <2>5 DEF SharesOf
  <2> QED BY <2>1, <2>6
<1>4. /\ Share[w] = 0
      /\ Cardinality(Abstract!Wallets) < MAX_BENEFICIARIES
      /\ Abstract!TotalShareBps + bps <= TOTAL_BPS
  BY <1>2, AbstractView
<1>5. bps > 0 /\ bps <= TOTAL_BPS
  BY <1>2, RulesAssumption
<1>6. Abstract!Add(w, bps)
  BY <1>2, <1>3, <1>4, <1>5, AbstractCardinality DEF Abstract!Add
<1> QED BY <1>2, <1>6

LEMMA RemoveRefines ==
    ASSUME IInv, IInv', NEW w \in Accounts, RemoveBeneficiary(w)
    PROVE  Abstract!Remove(w)
<1>1. /\ Registry' = Removed(Registry, w)
      /\ isBeneficiary[w]
  BY RemoveStep DEF Registry
<1>2. Share' = [Share EXCEPT ![w] = 0]
  <2> DEFINE old == Registry
             new == Registry'
             n == Len(old.list)
             idx == old.index[w]
             moved == old.list[n]
  <2>1. /\ Share = SharesOf(old)
        /\ Share' = SharesOf(new)
        /\ Sound(old)
        /\ old.flag[w]
    BY <1>1, ShareIs, ShareIsNext DEF IInv, Registry
  <2>2. /\ new.list = SwapPop(old.list, idx)
        /\ new.flag = [old.flag EXCEPT ![w] = FALSE]
        /\ new.index = [old.index EXCEPT ![moved.wallet] = idx, ![w] = Unset]
    BY <1>1 DEF Removed
  <2> HIDE DEF old, new
  <2>3. /\ old.list \in Seq(Entry)
        /\ old.flag \in [Accounts -> BOOLEAN]
        /\ old.index \in [Accounts -> Nat \ {0}]
        /\ \A v \in Accounts :
              old.flag[v] => old.index[v] \in 1 .. n /\ old.list[old.index[v]].wallet = v
        /\ \A i \in 1 .. n : old.index[old.list[i].wallet] = i
        /\ n \in Nat
    BY <2>1 DEF Sound, Linked
  <2>4. /\ idx \in 1 .. n
        /\ \A i \in 1 .. n - 1 : new.list[i] = IF i = idx THEN moved ELSE old.list[i]
    <3>1. old.list \in Seq(Entry) /\ idx \in 1 .. Len(old.list)
      BY <2>1, <2>3
    <3> HIDE DEF idx
    <3>2. \A i \in 1 .. n - 1 :
            SwapPop(old.list, idx)[i] = IF i = idx THEN moved ELSE old.list[i]
      BY <3>1, SwapPopEntries
    <3> QED BY <2>2, <3>1, <3>2
  <2>5. ASSUME NEW v \in Accounts
        PROVE  SharesOf(new)[v] = IF v = w THEN 0 ELSE SharesOf(old)[v]
    <3>1. CASE v = w \/ ~old.flag[v]
      BY <2>2, <2>3, <3>1 DEF SharesOf
    <3>2. CASE v # w /\ old.flag[v]
      <4>1. /\ new.flag[v]
            /\ new.index[v] = IF v = moved.wallet THEN idx ELSE old.index[v]
        BY <2>2, <2>3, <3>2
      <4>2. old.index[v] \in 1 .. n /\ old.index[v] # idx /\ old.list[old.index[v]].wallet = v
        BY <2>1, <2>3, <3>2
      <4> HIDE DEF idx
      <4>3. CASE v = moved.wallet
        <5>1. old.index[v] = n /\ idx \in 1 .. n - 1
          <6> HIDE DEF n
          <6>1. n \in 1 .. n
            BY <2>3, <4>2
          <6>2. old.index[v] = n
            BY <2>3, <4>3, <6>1
          <6> QED BY <2>3, <2>4, <4>2, <6>2
        <5>2. new.list[new.index[v]] = old.list[old.index[v]]
          BY <2>4, <4>1, <4>3, <5>1
        <5> QED BY <3>2, <4>1, <5>2 DEF SharesOf
      <4>4. CASE v # moved.wallet
        <5>1. old.index[v] \in 1 .. n - 1
          BY <2>3, <4>2, <4>4
        <5>2. new.list[new.index[v]] = old.list[old.index[v]]
          BY <2>4, <4>1, <4>2, <4>4, <5>1
        <5> QED BY <3>2, <4>1, <5>2 DEF SharesOf
      <4> QED BY <4>3, <4>4
    <3> QED BY <3>1, <3>2
  <2>6. SharesOf(new) = [SharesOf(old) EXCEPT ![w] = 0]
    BY <2>5 DEF SharesOf
  <2> QED BY <2>1, <2>6
<1>3. Share[w] > 0
  BY <1>1, AbstractView
<1> QED BY <1>2, <1>3 DEF Abstract!Remove

LEMMA ReplaceRefines ==
    ASSUME IInv, IInv', NEW l \in Lists, ReplaceBeneficiaries(l[1], l[2])
    PROVE  /\ Abstract!TotalShareBps' = TOTAL_BPS
           /\ Share' \in [Accounts -> 0 .. TOTAL_BPS]
           /\ Cardinality(Abstract!Wallets') <= MAX_BENEFICIARIES
<1> DEFINE new == Registry'
<1>1. /\ Sound(new)
      /\ Len(new.list) = Len(l[1])
      /\ new.total = TOTAL_BPS
      /\ Len(l[1]) <= MAX_BENEFICIARIES
      /\ Share' = SharesOf(new)
  BY ReplaceStep, ShareIsNext DEF ValidAllocation
<1> HIDE DEF new
<1>2. /\ Share' \in [Accounts -> 0 .. TOTAL_BPS]
      /\ SumFunctionOnSet(Share', Accounts) = TOTAL_BPS
      /\ Cardinality({w \in Accounts : Share'[w] > 0}) <= MAX_BENEFICIARIES
  <2>1. /\ SharesOf(new) \in [Accounts -> 0 .. TOTAL_BPS]
        /\ SumFunctionOnSet(SharesOf(new), Accounts) = new.total
        /\ Cardinality({w \in Accounts : SharesOf(new)[w] > 0}) = Len(new.list)
    BY <1>1, SharesOfSound
  <2> QED BY <1>1, <2>1
<1>3. Abstract!TotalShareBps' = SumFunctionOnSet(Share', Accounts)
  BY <1>2, AbstractSum DEF Abstract!TotalShareBps, SumFunction
<1> QED BY <1>2, <1>3 DEF Abstract!Wallets

LEMMA StepRefines ==
    ASSUME IInv, IInv', [Next]_vars
    PROVE  [Abstract!Next]_Share
<1>1. ASSUME NEW w \in Addresses, NEW bps \in ShareInputs, AddBeneficiary(w, bps)
      PROVE  Abstract!Next
  BY <1>1, AddRefines DEF Abstract!Next
<1>2. ASSUME NEW w \in Accounts, RemoveBeneficiary(w) PROVE Abstract!Next
  BY <1>2, RemoveRefines DEF Abstract!Next
<1>3. ASSUME NEW l \in Lists, ReplaceBeneficiaries(l[1], l[2]) PROVE Abstract!Next
  <2>1. /\ Abstract!TotalShareBps' = TOTAL_BPS
        /\ Share' \in [Accounts -> 0 .. TOTAL_BPS]
        /\ Cardinality(Abstract!Wallets') <= MAX_BENEFICIARIES
    BY <1>3, ReplaceRefines
  <2> QED BY <2>1, AbstractCardinality DEF Abstract!Next
<1>4. CASE UNCHANGED vars
  BY <1>4 DEF vars, Share, PaidShare
<1> QED BY <1>1, <1>2, <1>3, <1>4 DEF Next

\* The array with its swap-and-pop removal, its flags, positions and total
\* implements the map of shares, for any accounts, limits and lists.
THEOREM RegistryImplementsAllocation == Spec => ImplementsAllocation
<1>1. IInv /\ IInv' /\ [Next]_vars => [Abstract!Next]_Share
  BY StepRefines
<1> QED BY Invariance, InitRefines, <1>1, PTL DEF Spec, ImplementsAllocation, Abstract!Spec
-----------------------------------------------------------------------------
(* The registry of plans.                                                  *)

Plan == [creator : Accounts, config : Configs, owner : Accounts, pendingOwner : Addresses]

FactoryInv == FactoryTypeOK /\ RegistryExact /\ CreatedAsSigned

LEMMA FactoryStart == FactoryInit => FactoryInv
BY FactoryAssumption DEF FactoryInit, FactoryInv, FactoryTypeOK, RegistryExact, CreatedAsSigned

\* A handover changes who owns a plan, and nothing the registry knows.
LEMMA HandoverKeeps ==
    ASSUME FactoryInv, NEW p \in DOMAIN plans, NEW plan \in Plan,
           plans' = [plans EXCEPT ![p] = plan],
           plan.creator = plans[p].creator, plan.config = plans[p].config,
           UNCHANGED <<now, planOf, nonceUsed>>
    PROVE  FactoryInv'
<1>1. plans \in Seq(Plan)
  BY DEF FactoryInv, FactoryTypeOK, Plan
<1>2. plans' \in Seq(Plan) /\ DOMAIN plans' = DOMAIN plans
  BY <1>1
<1>3. \A q \in DOMAIN plans :
         plans'[q].creator = plans[q].creator /\ plans'[q].config = plans[q].config
  BY <1>1
<1>4. FactoryTypeOK'
  BY <1>2 DEF FactoryInv, FactoryTypeOK, Plan
<1>5. RegistryExact'
  BY <1>2, <1>3 DEF FactoryInv, RegistryExact
<1>6. CreatedAsSigned'
  BY <1>2, <1>3 DEF FactoryInv, CreatedAsSigned
<1> QED BY <1>4, <1>5, <1>6 DEF FactoryInv

LEMMA CreateKeeps ==
    ASSUME FactoryInv, NEW owner \in Addresses, NEW config \in Configs, NEW m \in Signatures,
           CreatePlan(owner, config, m)
    PROVE  FactoryInv'
<1> DEFINE plan == [creator |-> owner, config |-> config, owner |-> owner,
                    pendingOwner |-> None]
           next == Len(plans) + 1
<1>1. /\ plans \in Seq(Plan)
      /\ planOf \in [Accounts -> Nat]
      /\ nonceUsed \in [Accounts -> SUBSET Nat]
  BY DEF FactoryInv, FactoryTypeOK, Plan
<1>2. owner \in Accounts /\ plan \in Plan
  BY DEF CreatePlan, Addresses, Plan
<1>3. m.nonce \in Nat /\ m.signer = owner /\ m.owner = owner /\ m.config = config
  BY <1>2, FactoryAssumption, RulesAssumption
  DEF CreatePlan, ConsumeCreationSignature, Recovered
<1>4. /\ plans' = Append(plans, plan)
      /\ planOf' = [planOf EXCEPT ![owner] = next]
      /\ nonceUsed' = [nonceUsed EXCEPT ![owner] = @ \cup {m.nonce}]
      /\ planOf[owner] = 0
      /\ ValidPlan(owner, config)
      /\ now' = now
  BY DEF CreatePlan, ConsumeCreationSignature
<1> HIDE DEF plan
<1>5. /\ plans' \in Seq(Plan)
      /\ DOMAIN plans' = DOMAIN plans \cup {next}
      /\ plans'[next] = plan
      /\ \A p \in DOMAIN plans : plans'[p] = plans[p] /\ p # next
      /\ next \in Nat \ {0}
  BY <1>1, <1>2, <1>4
<1>6. plan.creator = owner /\ plan.config = config
  BY DEF plan
<1>7. FactoryTypeOK'
  BY <1>1, <1>2, <1>3, <1>4, <1>5 DEF FactoryInv, FactoryTypeOK, Plan
<1>8. \A p \in DOMAIN plans : plans[p].creator # owner
  BY <1>1, <1>4 DEF FactoryInv, RegistryExact
<1>9. nonceUsed'[owner] = {m.nonce}
  BY <1>1, <1>2, <1>4 DEF FactoryInv, RegistryExact
<1>10. RegistryExact'
  <2>1. ASSUME NEW p \in DOMAIN plans' PROVE planOf'[plans'[p].creator] = p
    BY <1>1, <1>2, <1>4, <1>5, <1>6, <1>8, <2>1 DEF FactoryInv, RegistryExact, Plan
  <2>2. ASSUME NEW a \in Accounts
        PROVE  IF planOf'[a] = 0
               THEN nonceUsed'[a] = {}
               ELSE /\ planOf'[a] \in DOMAIN plans'
                    /\ plans'[planOf'[a]].creator = a
                    /\ \E s \in Signatures : nonceUsed'[a] = {s.nonce}
    <3>1. CASE a = owner
      BY <1>1, <1>2, <1>4, <1>5, <1>6, <1>9, <3>1
    <3>2. CASE a # owner
      BY <1>1, <1>4, <1>5, <3>2 DEF FactoryInv, RegistryExact
    <3> QED BY <3>1, <3>2
  <2> QED BY <2>1, <2>2 DEF RegistryExact
<1>11. CreatedAsSigned'
  <2>1. ASSUME NEW p \in DOMAIN plans'
        PROVE  \E s \in Signatures :
                  /\ s.signer = plans'[p].creator
                  /\ s.owner = plans'[p].creator
                  /\ s.config = plans'[p].config
                  /\ s.nonce \in nonceUsed'[plans'[p].creator]
                  /\ ValidPlan(plans'[p].creator, s.config)
    <3>1. CASE p = next
      BY <1>3, <1>4, <1>5, <1>6, <1>9, <3>1
    <3>2. CASE p \in DOMAIN plans
      <4>1. plans'[p] = plans[p] /\ plans[p].creator # owner
        BY <1>5, <1>8, <3>2
      <4>2. nonceUsed'[plans[p].creator] = nonceUsed[plans[p].creator]
        BY <1>1, <1>4, <3>2, <4>1 DEF Plan
      <4> QED BY <3>2, <4>1, <4>2 DEF FactoryInv, CreatedAsSigned
    <3> QED BY <1>5, <3>1, <3>2
  <2> QED BY <2>1 DEF CreatedAsSigned
<1> QED BY <1>7, <1>10, <1>11 DEF FactoryInv

LEMMA FactoryStep ==
    ASSUME FactoryInv, [FactoryNext]_factoryVars
    PROVE  FactoryInv'
<1>0. plans \in Seq(Plan)
  BY DEF FactoryInv, FactoryTypeOK, Plan
<1>1. ASSUME NEW p \in DOMAIN plans, NEW newOwner \in Addresses, TransferOwnership(p, newOwner)
      PROVE  FactoryInv'
  <2> DEFINE plan == [plans[p] EXCEPT !.pendingOwner = newOwner]
  <2>1. plans[p] \in Plan
    BY <1>0
  <2>2. /\ plan \in Plan
        /\ plan.creator = plans[p].creator
        /\ plan.config = plans[p].config
    BY <2>1 DEF Plan
  <2>3. plans' = [plans EXCEPT ![p] = plan] /\ UNCHANGED <<now, planOf, nonceUsed>>
    BY <1>1 DEF TransferOwnership
  <2> QED BY <2>2, <2>3, HandoverKeeps
<1>2. ASSUME NEW p \in DOMAIN plans, AcceptOwnership(p)
      PROVE  FactoryInv'
  <2> DEFINE plan == [plans[p] EXCEPT !.owner = plans[p].pendingOwner, !.pendingOwner = None]
  <2>0. plans[p] \in Plan
    BY <1>0
  <2>1. plans[p] \in Plan /\ plans[p].pendingOwner \in Accounts
    BY <1>2, <2>0 DEF AcceptOwnership, Plan, Addresses
  <2>2. /\ plan \in Plan
        /\ plan.creator = plans[p].creator
        /\ plan.config = plans[p].config
    BY <2>1 DEF Plan, Addresses
  <2>3. plans' = [plans EXCEPT ![p] = plan] /\ UNCHANGED <<now, planOf, nonceUsed>>
    BY <1>0, <1>2, <2>1 DEF AcceptOwnership, Plan
  <2> QED BY <2>2, <2>3, HandoverKeeps
<1>3. ASSUME UNCHANGED <<planOf, nonceUsed, plans>>, now' \in 1 .. MaxTime PROVE FactoryInv'
  BY <1>3 DEF FactoryInv, FactoryTypeOK, RegistryExact, CreatedAsSigned
<1>4. CASE Tick
  <2>1. now' \in 1 .. MaxTime
    BY <1>4, FactoryAssumption DEF Tick, FactoryInv, FactoryTypeOK
  <2> QED BY <1>3, <1>4, <2>1 DEF Tick
<1>5. CASE UNCHANGED factoryVars
  BY <1>3, <1>5 DEF factoryVars, FactoryInv, FactoryTypeOK
<1> QED BY <1>1, <1>2, <1>4, <1>5, CreateKeeps DEF FactoryNext

\* The registry and the plans stay in one-to-one correspondence and no
\* signature is spent in vain, whatever is relayed in whatever order.
THEOREM RegistryIsExact == FactorySpec => []RegistryExact
<1>1. FactoryInv /\ [FactoryNext]_factoryVars => FactoryInv'
  BY FactoryStep
<1>2. FactoryInv => RegistryExact
  BY DEF FactoryInv
<1> QED BY FactoryStart, <1>1, <1>2, PTL DEF FactorySpec

\* Every plan carries the configuration its creator signed.
THEOREM PlansAreAsSigned == FactorySpec => []CreatedAsSigned
<1>1. FactoryInv /\ [FactoryNext]_factoryVars => FactoryInv'
  BY FactoryStep
<1>2. FactoryInv => CreatedAsSigned
  BY DEF FactoryInv
<1> QED BY FactoryStart, <1>1, <1>2, PTL DEF FactorySpec
=============================================================================
