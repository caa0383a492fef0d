-------------------------- MODULE LegacyKeeperProofs --------------------------
(***************************************************************************)
(* Theorems about every plan: any accounts, tokens, signatures, inputs and *)
(* bounds that satisfy the assumptions.  Types first, then authority:      *)
(* who may use a signature and who may change the recovery key and vault.  *)
(* Then the estate: claims, the deadline, evacuation and solvency.  Last,  *)
(* the beneficiaries' shares as steps of the abstract registry.            *)
(***************************************************************************)
EXTENDS LegacyKeeper, SumLemmas

\* Rounding down never leaves the naturals.
LEMMA PortionType ==
    ASSUME NEW amount \in Nat, NEW bps \in Nat
    PROVE  (amount * bps) \div TOTAL_BPS \in Nat
<1>1. amount * bps \in Nat
  OBVIOUS
<1>2. TOTAL_BPS \in Nat /\ TOTAL_BPS > 0
  BY RulesAssumption
<1> DEFINE p == amount * bps
<1>3. p \div TOTAL_BPS \in Nat
  <2> HIDE DEF p
  <2> QED BY <1>1, <1>2 DEF p
<1> QED BY <1>3

LEMMA SmallerType ==
    ASSUME NEW x \in Nat, NEW y \in Nat
    PROVE  /\ Smaller(x, y) \in Nat
           /\ Smaller(x, y) <= x
           /\ Smaller(x, y) <= y
BY DEF Smaller

LEMMA PullableType ==
    ASSUME TypeOK, NEW t \in Tokens
    PROVE  /\ Pullable(t) \in Nat
           /\ Pullable(t) <= tokenBalance[t][owner]
           /\ Pullable(t) <= allowance[t][owner]
<1>1. tokenBalance[t][owner] \in Nat /\ allowance[t][owner] \in Nat
  BY DEF TypeOK, TokenType, AuthType
<1> QED BY <1>1, SmallerType DEF Pullable

LEMMA DistributionType ==
    ASSUME TypeOK, NEW amount \in Nat, NEW refusing
    PROVE  /\ Pushed(amount, refusing) \in [Accounts -> Nat]
           /\ Deferred(amount, refusing) \in [Accounts -> Nat]
<1>1. ASSUME NEW w \in Accounts PROVE Portion(amount, w) \in Nat
  <2>1. share[w] \in Nat
    BY RulesAssumption DEF TypeOK, EstateType
  <2> QED BY <2>1, PortionType DEF Portion
<1> QED BY <1>1 DEF Pushed, Deferred

\* The registry sums and counts as the plan does.
LEMMA RegistrySum ==
    ASSUME NEW f
    PROVE  Registry!SumFunction(f) = SumFunction(f)
BY DEF Registry!SumFunction, Registry!SumFunctionOnSet, Registry!FoldFunctionOnSet,
       Registry!MapThenFoldSet, SumFunction, SumFunctionOnSet, FoldFunctionOnSet, MapThenFoldSet

LEMMA RegistryCardinality ==
    ASSUME NEW S
    PROVE  Registry!Cardinality(S) = Cardinality(S)
BY DEF Registry!Cardinality, Cardinality

\* A distribution that is due divides the whole.
LEMMA SharesAreWhole ==
    ASSUME TypeOK, DistributionDue
    PROVE  SumFunctionOnSet(share, Accounts) = TOTAL_BPS
<1>1. Registry!TotalShareBps = SumFunction(share)
  BY RegistrySum DEF Registry!TotalShareBps
<1>2. DOMAIN share = Accounts
  BY DEF TypeOK, EstateType
<1> QED BY <1>1, <1>2 DEF DistributionDue, SumFunction

\* Portions round down: what is pushed and what is deferred never exceed
\* what is distributed.
LEMMA PortionsAreCovered ==
    ASSUME TypeOK, DistributionDue, NEW amount \in Nat, NEW refusing
    PROVE  /\ SumFunction(Pushed(amount, refusing)) \in Nat
           /\ SumFunction(Deferred(amount, refusing)) \in Nat
           /\ SumFunction(Pushed(amount, refusing)) + SumFunction(Deferred(amount, refusing))
                <= amount
<1> DEFINE portion == [w \in Accounts |-> Portion(amount, w)]
           pushed == Pushed(amount, refusing)
           deferred == Deferred(amount, refusing)
<1>1. pushed \in [Accounts -> Nat] /\ deferred \in [Accounts -> Nat]
  BY DistributionType
<1>2. \A w \in Accounts : portion[w] \in Nat /\ portion[w] = pushed[w] + deferred[w]
  BY <1>1 DEF Pushed, Deferred
<1>3. IsFiniteSet(Accounts) /\ TOTAL_BPS \in Nat \ {0}
  BY RulesAssumption
<1>4. \A w \in Accounts : share[w] \in Nat /\ portion[w] = (amount * share[w]) \div TOTAL_BPS
  BY <1>3 DEF TypeOK, EstateType, Portion
<1> HIDE DEF portion, pushed, deferred
<1>5. TOTAL_BPS * SumFunctionOnSet(portion, Accounts) <= amount * TOTAL_BPS
  BY <1>3, <1>4, PortionsWithin, SharesAreWhole
<1>6. SumFunctionOnSet(portion, Accounts)
        = SumFunctionOnSet(pushed, Accounts) + SumFunctionOnSet(deferred, Accounts)
  BY <1>1, <1>2, <1>3, SumTermwise
<1>7. /\ SumFunctionOnSet(pushed, Accounts) \in Nat
      /\ SumFunctionOnSet(deferred, Accounts) \in Nat
  BY <1>1, <1>3, SumNatural
<1>8. SumFunctionOnSet(portion, Accounts) <= amount
  BY <1>3, <1>5, <1>6, <1>7
<1>9. /\ SumFunction(pushed) = SumFunctionOnSet(pushed, Accounts)
      /\ SumFunction(deferred) = SumFunctionOnSet(deferred, Accounts)
  BY <1>1 DEF SumFunction
<1> QED BY <1>6, <1>7, <1>8, <1>9 DEF pushed, deferred

LEMMA TransferType ==
    ASSUME TypeOK, NEW t \in Tokens,
           NEW moved \in [Accounts -> Nat], NEW total \in Nat,
           total <= tokenBalance[t][owner]
    PROVE  AfterTransfers(t, moved, total) \in [Accounts -> Nat]
<1>1. \A w \in Accounts : tokenBalance[t][w] \in Nat
  BY DEF TypeOK, TokenType
<1> QED BY <1>1 DEF AfterTransfers

LEMMA AllocationType ==
    ASSUME NEW wallets \in Seq(Addresses), NEW shares \in Seq(Nat),
           Len(wallets) = Len(shares),
           \A i \in DOMAIN wallets : shares[i] > 0 /\ shares[i] <= TOTAL_BPS
    PROVE  AllocationOf(wallets, shares) \in [Accounts -> 0 .. TOTAL_BPS]
<1>1. ASSUME NEW w \in Accounts, \E i \in DOMAIN wallets : wallets[i] = w
      PROVE  shares[CHOOSE i \in DOMAIN wallets : wallets[i] = w] \in 0 .. TOTAL_BPS
  <2>1. (CHOOSE i \in DOMAIN wallets : wallets[i] = w) \in DOMAIN wallets
    BY <1>1
  <2>2. \A i \in DOMAIN wallets : shares[i] > 0 /\ shares[i] <= TOTAL_BPS /\ shares[i] \in Nat
    OBVIOUS
  <2> QED BY <2>1, <2>2, RulesAssumption
<1>2. 0 \in 0 .. TOTAL_BPS
  BY RulesAssumption
<1> QED BY <1>1, <1>2 DEF AllocationOf

LEMMA TokenListType ==
    ASSUME NEW tokens \in Seq(Tokens \cup {None}), ValidTokenList(tokens)
    PROVE  Range(tokens) \subseteq Tokens
BY DEF ValidTokenList, Range
-----------------------------------------------------------------------------
(* Type correctness.                                                       *)

\* What a signature carries.
LEMMA MessageType ==
    ASSUME NEW kind \in Kinds, NEW m \in Signed[kind]
    PROVE  /\ m.nonce \in Nat
           /\ <<kind, m>> \in Messages
<1>1. <<kind, m>> \in Messages
  BY DEF Messages
<1>2. m.nonce \in Nat
  BY SignedAssumption DEF Kinds, SharedKinds, ActionKinds
<1> QED BY <1>1, <1>2

\* Consuming a signature keeps the nonce bookkeeping well typed.
LEMMA ConsumeSignatureType ==
    ASSUME TypeOK, NEW kind \in SharedKinds, NEW m \in Signed[kind], NEW signer,
           ConsumeSignature(kind, m, signer)
    PROVE  NonceType'
<1>1. m.nonce \in Nat /\ <<kind, m>> \in Messages
  BY MessageType DEF Kinds
<1>2. timesUsed' \in [Messages -> Nat]
  BY <1>1 DEF ConsumeSignature, Accept, TypeOK, NonceType
<1> QED BY <1>1, <1>2 DEF ConsumeSignature, TypeOK, NonceType

LEMMA ConsumeActionDigestType ==
    ASSUME TypeOK, NEW kind \in ActionKinds, NEW m \in Signed[kind], NEW signer,
           ConsumeActionDigest(kind, m, signer)
    PROVE  NonceType'
<1>1. m.nonce \in Nat /\ <<kind, m>> \in Messages
  BY MessageType DEF Kinds
<1>2. /\ nonceUsed \subseteq Nat
      /\ actionNonceUsed \in [ActionKinds -> SUBSET Nat]
      /\ timesUsed \in [Messages -> Nat]
  BY DEF TypeOK, NonceType
<1>3. timesUsed' \in [Messages -> Nat]
  BY <1>1, <1>2 DEF ConsumeActionDigest, Accept
<1>4. actionNonceUsed[kind] \cup {m.nonce} \in SUBSET Nat
  BY <1>1, <1>2
<1> QED BY <1>2, <1>3, <1>4 DEF ConsumeActionDigest, NonceType

LEMMA ApplySettingsType ==
    ASSUME TypeOK, NEW s \in Settings, ApplySettings(s)
    PROVE  LivenessType'
BY DEF ApplySettings, LivenessOf, Settings, TypeOK, LivenessType

LEMMA InitType == Init => TypeOK
<1> SUFFICES ASSUME Init PROVE TypeOK
  OBVIOUS
<1>1. now \in 1 .. MaxTime
  BY InputAssumption DEF Init
<1>4. pendingOwner \in Addresses
  BY DEF Init, Addresses
<1>5. OutcomeType
  <2>1. 0 \in 0 .. MaxTime
    BY InputAssumption
  <2> QED BY <2>1 DEF Init, OutcomeType
<1>6. NonceType
  BY DEF Init, NonceType
<1>7. EtherType /\ TokenType
  BY DEF Init, EtherType, TokenType
<1>2. CASE \E plan \in Plans : Created(plan)
  <2> PICK plan \in Plans : Created(plan)
    BY <1>2
  <2>1. /\ plan.owner \in Accounts
        /\ plan.settings \in Settings
        /\ plan.wallets \in Seq(Addresses)
        /\ plan.shares \in Seq(Nat)
        /\ plan.recoveryKey \in Addresses
        /\ plan.safeVault \in Addresses
        /\ plan.tokens \in Seq(Tokens \cup {None})
    BY InputAssumption
  <2>2. EstateType
    BY <2>1, AllocationType, TokenListType DEF Created, ValidPlan, ValidAllocation, EstateType
  <2>3. LivenessType
    BY <1>1, <2>1 DEF Created, LivenessOf, Settings, LivenessType
  <2>4. AuthType
    BY <1>4, <2>1 DEF Created, VaultOf, AuthType
  <2> QED
    BY <1>1, <1>5, <1>6, <1>7, <2>2, <2>3, <2>4 DEF TypeOK, ClockType
<1>3. CASE \E initialOwner \in DirectOwners : Deployed(initialOwner)
  <2> PICK initialOwner \in DirectOwners : Deployed(initialOwner)
    BY <1>3
  <2>1. EstateType
    BY RulesAssumption DEF Deployed, EstateType
  <2>2. LivenessType
    BY <1>1, InputAssumption DEF Deployed, LivenessOf, Settings, LivenessType
  <2>3. AuthType
    BY <1>4, InputAssumption DEF Deployed, VaultOf, Addresses, AuthType
  <2> QED
    BY <1>1, <1>5, <1>6, <1>7, <2>1, <2>2, <2>3 DEF TypeOK, ClockType
<1> QED BY <1>2, <1>3 DEF Init

\* A heartbeat stamps the block time.
LEMMA RecordHeartbeatType ==
    ASSUME TypeOK, RecordHeartbeat
    PROVE  LivenessType'
BY DEF TypeOK, RecordHeartbeat, LivenessType, ClockType

\* What leaves a group of variables alone keeps its type.
LEMMA Unchanged ==
    ASSUME TypeOK
    PROVE  /\ UNCHANGED now => ClockType'
           /\ UNCHANGED authVars => AuthType'
           /\ UNCHANGED nonceVars => NonceType'
           /\ UNCHANGED liveness => LivenessType'
           /\ UNCHANGED <<share, tracked>> => EstateType'
           /\ UNCHANGED policyVars => LivenessType' /\ EstateType'
           /\ UNCHANGED outcomeVars => OutcomeType'
           /\ UNCHANGED etherVars => EtherType'
           /\ UNCHANGED tokenVars => TokenType'
           /\ UNCHANGED moneyVars => EtherType' /\ TokenType'
<1>1. UNCHANGED now => ClockType'
  BY DEF TypeOK, ClockType
<1>2. UNCHANGED authVars => AuthType'
  BY DEF TypeOK, AuthType, authVars
<1>3. UNCHANGED nonceVars => NonceType'
  BY DEF TypeOK, NonceType, nonceVars
<1>4. UNCHANGED liveness => LivenessType'
  BY DEF TypeOK, LivenessType
<1>5. UNCHANGED <<share, tracked>> => EstateType'
  BY DEF TypeOK, EstateType
<1>6. UNCHANGED outcomeVars => OutcomeType'
  BY DEF TypeOK, OutcomeType, outcomeVars
<1>7. UNCHANGED etherVars => EtherType'
  BY DEF TypeOK, EtherType, etherVars
<1>8. UNCHANGED tokenVars => TokenType'
  BY DEF TypeOK, TokenType, tokenVars
<1> QED BY <1>1, <1>2, <1>3, <1>4, <1>5, <1>6, <1>7, <1>8 DEF policyVars, moneyVars

LEMMA LivenessStepType ==
    ASSUME TypeOK, LivenessStep
    PROVE  TypeOK'
<1>1. ASSUME NEW caller \in Accounts, Heartbeat(caller) PROVE TypeOK'
  BY <1>1, Unchanged, RecordHeartbeatType DEF Heartbeat, TypeOK
<1>2. ASSUME NEW caller \in Accounts, CancelInheritance(caller) PROVE TypeOK'
  BY <1>2, Unchanged, RecordHeartbeatType DEF CancelInheritance, TypeOK
<1>3. ASSUME NEW caller \in Accounts, NEW s \in SettingInputs, SetLivenessConfig(caller, s)
      PROVE  TypeOK'
  <2>1. s \in Settings
    BY InputAssumption
  <2> QED BY <1>3, <2>1, Unchanged, ApplySettingsType DEF SetLivenessConfig, TypeOK
<1>4. ASSUME NEW caller \in Accounts, NEW active \in BOOLEAN, ToggleLiveness(caller, active)
      PROVE  TypeOK'
  <2>1. LivenessType'
    BY <1>4 DEF ToggleLiveness, TypeOK, LivenessType
  <2> QED BY <1>4, <2>1, Unchanged DEF ToggleLiveness, TypeOK
<1>5. ASSUME NEW m \in Signed["Heartbeat"], HeartbeatBySig(m) PROVE TypeOK'
  <2>1. NonceType'
    BY <1>5, ConsumeSignatureType DEF HeartbeatBySig, SharedKinds
  <2> QED BY <1>5, <2>1, Unchanged, RecordHeartbeatType DEF HeartbeatBySig, TypeOK
<1>6. ASSUME NEW m \in Signed["SetLivenessConfig"], SetLivenessConfigBySig(m) PROVE TypeOK'
  <2>1. NonceType'
    BY <1>6, ConsumeActionDigestType DEF SetLivenessConfigBySig, ActionKinds
  <2>2. LivenessType'
    BY <1>6, SignedAssumption, ApplySettingsType DEF SetLivenessConfigBySig
  <2> QED BY <1>6, <2>1, <2>2, Unchanged DEF SetLivenessConfigBySig, TypeOK
<1> QED BY <1>1, <1>2, <1>3, <1>4, <1>5, <1>6 DEF LivenessStep

\* Adding one function of amounts to another.
LEMMA SumType ==
    ASSUME NEW f \in [Accounts -> Nat], NEW g \in [Accounts -> Nat]
    PROVE  [w \in Accounts |-> f[w] + g[w]] \in [Accounts -> Nat]
OBVIOUS

\* One token's balances and allowances after the owner's transfers.
LEMMA PulledType ==
    ASSUME TypeOK, NEW t \in Tokens,
           NEW moved \in [Accounts -> Nat], NEW total \in 0 .. Pullable(t)
    PROVE  /\ [tokenBalance EXCEPT ![t] = AfterTransfers(t, moved, total)]
                 \in [Tokens -> [Accounts -> Nat]]
           /\ [allowance EXCEPT ![t][owner] = @ - total] \in [Tokens -> [Accounts -> Nat]]
<1>1. /\ Pullable(t) \in Nat
      /\ Pullable(t) <= tokenBalance[t][owner]
      /\ Pullable(t) <= allowance[t][owner]
  BY PullableType
<1>2. /\ tokenBalance \in [Tokens -> [Accounts -> Nat]]
      /\ allowance \in [Tokens -> [Accounts -> Nat]]
      /\ owner \in Accounts
  BY DEF TypeOK, TokenType, AuthType
<1>3. total \in Nat /\ total <= tokenBalance[t][owner] /\ total <= allowance[t][owner]
  BY <1>1, <1>2
<1>4. AfterTransfers(t, moved, total) \in [Accounts -> Nat]
  BY <1>3, TransferType
<1>5. allowance[t][owner] - total \in Nat
  BY <1>2, <1>3
<1> QED BY <1>2, <1>4, <1>5

LEMMA OnlyType ==
    ASSUME NEW recipient, NEW amount \in Nat
    PROVE  Only(recipient, amount) \in [Accounts -> Nat]
BY DEF Only

LEMMA ExecuteInheritanceType ==
    ASSUME TypeOK, NEW refusing, ExecuteInheritance(refusing)
    PROVE  TypeOK'
<1>1. /\ balance \in Nat
      /\ ether \in [Accounts -> Nat]
      /\ pendingWithdrawal \in [Accounts -> Nat]
  BY DEF TypeOK, EtherType
<1> DEFINE pushed == Pushed(balance, refusing)
           deferred == Deferred(balance, refusing)
           sent == SumFunction(pushed)
<1>2. pushed \in [Accounts -> Nat] /\ deferred \in [Accounts -> Nat]
  BY <1>1, DistributionType
<1>3. /\ balance' = balance - sent
      /\ ether' = [w \in Accounts |-> ether[w] + pushed[w]]
      /\ pendingWithdrawal' = [w \in Accounts |-> pendingWithdrawal[w] + deferred[w]]
      /\ DistributionDue
  BY DEF ExecuteInheritance, InheritanceReady
<1>4. sent \in 0 .. balance
  <2>1. sent \in Nat /\ SumFunction(deferred) \in Nat /\ sent + SumFunction(deferred) <= balance
    BY <1>1, <1>3, PortionsAreCovered
  <2> QED BY <1>1, <2>1
<1>5. EtherType'
  <2> HIDE DEF pushed, deferred, sent
  <2>1. balance' \in Nat
    BY <1>1, <1>3, <1>4
  <2>2. ether' \in [Accounts -> Nat] /\ pendingWithdrawal' \in [Accounts -> Nat]
    BY <1>1, <1>2, <1>3, SumType
  <2> QED BY <2>1, <2>2 DEF EtherType
<1>6. OutcomeType'
  BY DEF ExecuteInheritance, TypeOK, OutcomeType, ClockType
<1> QED BY <1>5, <1>6, Unchanged DEF ExecuteInheritance, TypeOK

LEMMA WithdrawType ==
    ASSUME TypeOK, NEW caller \in Accounts, Withdraw(caller)
    PROVE  TypeOK'
<1>1. /\ balance \in Nat
      /\ ether \in [Accounts -> Nat]
      /\ pendingWithdrawal \in [Accounts -> Nat]
  BY DEF TypeOK, EtherType
<1> DEFINE amount == pendingWithdrawal[caller]
<1>2. /\ amount \in Nat
      /\ amount <= balance
      /\ pendingWithdrawal' = [pendingWithdrawal EXCEPT ![caller] = 0]
      /\ balance' = balance - amount
      /\ ether' = [ether EXCEPT ![caller] = @ + amount]
  BY <1>1 DEF Withdraw
<1>3. EtherType'
  BY <1>1, <1>2 DEF EtherType
<1> QED BY <1>3, Unchanged DEF Withdraw, TypeOK

LEMMA ExecuteInheritanceERC20Type ==
    ASSUME TypeOK, NEW t \in Tokens, NEW refusing, ExecuteInheritanceERC20(t, refusing)
    PROVE  TypeOK'
<1> DEFINE available == Pullable(t)
           pushed == Pushed(available, refusing)
           deferred == Deferred(available, refusing)
           moved == SumFunction(pushed)
<1>1. available \in Nat
  BY PullableType
<1>2. pushed \in [Accounts -> Nat] /\ deferred \in [Accounts -> Nat]
  BY <1>1, DistributionType
<1>3. moved \in 0 .. available
  <2>1. DistributionDue
    BY DEF ExecuteInheritanceERC20, TokenReady
  <2>2. moved \in Nat /\ SumFunction(deferred) \in Nat
        /\ moved + SumFunction(deferred) <= available
    BY <1>1, <2>1, PortionsAreCovered
  <2> QED BY <1>1, <2>2
<1>4. /\ tokenBalance' = [tokenBalance EXCEPT ![t] = AfterTransfers(t, pushed, moved)]
      /\ allowance' = [allowance EXCEPT ![t][owner] = @ - moved]
      /\ pendingTokenWithdrawal' =
            [pendingTokenWithdrawal EXCEPT ![t] = [w \in Accounts |-> @[w] + deferred[w]]]
  BY DEF ExecuteInheritanceERC20
<1>5. TokenType'
  <2> HIDE DEF available, pushed, deferred, moved
  <2>1. tokenBalance' \in [Tokens -> [Accounts -> Nat]]
        /\ allowance' \in [Tokens -> [Accounts -> Nat]]
    BY <1>2, <1>4, <1>3, PulledType DEF available
  <2>2. pendingTokenWithdrawal \in [Tokens -> [Accounts -> Nat]]
    BY DEF TypeOK, TokenType
  <2>3. [w \in Accounts |-> pendingTokenWithdrawal[t][w] + deferred[w]] \in [Accounts -> Nat]
    BY <1>2, <2>2, SumType
  <2>4. pendingTokenWithdrawal' \in [Tokens -> [Accounts -> Nat]]
    BY <1>4, <2>2, <2>3
  <2> QED BY <2>1, <2>4 DEF TokenType
<1>6. OutcomeType'
  BY DEF ExecuteInheritanceERC20, TypeOK, OutcomeType
<1> QED BY <1>5, <1>6, Unchanged DEF ExecuteInheritanceERC20, TypeOK

LEMMA ClaimTokenType ==
    ASSUME TypeOK, NEW caller \in Accounts, NEW t \in Tokens, ClaimToken(caller, t)
    PROVE  TypeOK'
<1> DEFINE amount == pendingTokenWithdrawal[t][caller]
<1>1. pendingTokenWithdrawal \in [Tokens -> [Accounts -> Nat]] /\ amount \in Nat
  BY DEF TypeOK, TokenType
<1>2. /\ amount \in 0 .. Pullable(t)
      /\ pendingTokenWithdrawal' = [pendingTokenWithdrawal EXCEPT ![t][caller] = 0]
      /\ tokenBalance' =
            [tokenBalance EXCEPT ![t] = AfterTransfers(t, Only(caller, amount), amount)]
      /\ allowance' = [allowance EXCEPT ![t][owner] = @ - amount]
  BY <1>1, PullableType DEF ClaimToken
<1>3. tokenBalance' \in [Tokens -> [Accounts -> Nat]]
      /\ allowance' \in [Tokens -> [Accounts -> Nat]]
  <2> HIDE DEF amount
  <2> QED BY <1>1, <1>2, OnlyType, PulledType
<1>4. TokenType'
  BY <1>1, <1>2, <1>3 DEF TokenType
<1> QED BY <1>4, Unchanged DEF ClaimToken, TypeOK

LEMMA EvacuateTokenType ==
    ASSUME TypeOK, NEW t \in Tokens, EvacuateToken(t)
    PROVE  TypeOK'
<1> DEFINE amount == Pullable(t)
<1>1. amount \in Nat /\ amount \in 0 .. Pullable(t)
  BY PullableType
<1>2. /\ tokenBalance' =
            [tokenBalance EXCEPT ![t] =
                AfterTransfers(t, Only(vault.safeVault, amount), amount)]
      /\ allowance' = [allowance EXCEPT ![t][owner] = @ - amount]
      /\ pendingTokenWithdrawal' = pendingTokenWithdrawal
  BY DEF EvacuateToken
<1>3. TokenType'
  <2> HIDE DEF amount
  <2>1. tokenBalance' \in [Tokens -> [Accounts -> Nat]]
        /\ allowance' \in [Tokens -> [Accounts -> Nat]]
    BY <1>1, <1>2, OnlyType, PulledType
  <2> QED BY <1>2, <2>1 DEF TypeOK, TokenType
<1> QED BY <1>3, Unchanged DEF EvacuateToken, TypeOK

LEMMA EvacuateType ==
    ASSUME TypeOK, NEW m \in Signed["Evacuate"], NEW stuck, Evacuate(m, stuck)
    PROVE  TypeOK'
<1> DEFINE swept(t) == IF t \in tracked \ stuck THEN Pullable(t) ELSE 0
<1>1. NonceType'
  BY ConsumeSignatureType DEF Evacuate, SharedKinds
<1>2. LivenessType'
  BY DEF Evacuate, TypeOK, LivenessType
<1>3. OutcomeType'
  BY DEF Evacuate, TypeOK, OutcomeType, ClockType
<1>4. EtherType'
  <2>1. /\ balance' = 0
        /\ ether' = [ether EXCEPT ![vault.safeVault] = @ + balance]
        /\ pendingWithdrawal' = pendingWithdrawal
    BY DEF Evacuate
  <2>2. vault.safeVault \in Accounts
    BY DEF Evacuate, TypeOK, AuthType, Addresses
  <2>3. balance \in Nat /\ ether \in [Accounts -> Nat] /\ ether[vault.safeVault] \in Nat
    BY <2>2 DEF TypeOK, EtherType
  <2> QED BY <2>1, <2>2, <2>3 DEF TypeOK, EtherType
<1>5. TokenType'
  <2>1. ASSUME NEW t \in Tokens
        PROVE  /\ AfterTransfers(t, Only(vault.safeVault, swept(t)), swept(t))
                     \in [Accounts -> Nat]
               /\ [allowance[t] EXCEPT ![owner] = @ - swept(t)] \in [Accounts -> Nat]
    <3>1. /\ Pullable(t) \in Nat
          /\ Pullable(t) <= tokenBalance[t][owner]
          /\ Pullable(t) <= allowance[t][owner]
      BY PullableType
    <3>2. /\ tokenBalance[t][owner] \in Nat
          /\ allowance[t] \in [Accounts -> Nat]
          /\ owner \in Accounts
      BY DEF TypeOK, TokenType, AuthType
    <3>3. /\ swept(t) \in Nat
          /\ swept(t) <= tokenBalance[t][owner]
          /\ swept(t) <= allowance[t][owner]
      BY <3>1, <3>2
    <3> HIDE DEF swept
    <3>4. AfterTransfers(t, Only(vault.safeVault, swept(t)), swept(t)) \in [Accounts -> Nat]
      BY <3>3, OnlyType, TransferType
    <3>5. allowance[t][owner] - swept(t) \in Nat
      BY <3>2, <3>3
    <3> QED BY <3>2, <3>4, <3>5
  <2>2. /\ tokenBalance' =
              [t \in Tokens |-> AfterTransfers(t, Only(vault.safeVault, swept(t)), swept(t))]
        /\ allowance' = [t \in Tokens |-> [allowance[t] EXCEPT ![owner] = @ - swept(t)]]
        /\ pendingTokenWithdrawal' = pendingTokenWithdrawal
    BY DEF Evacuate
  <2> HIDE DEF swept
  <2> QED BY <2>1, <2>2 DEF TypeOK, TokenType
<1> QED BY <1>1, <1>2, <1>3, <1>4, <1>5, Unchanged DEF Evacuate, TypeOK

LEMMA EstateStepType ==
    ASSUME TypeOK, EstateStep
    PROVE  TypeOK'
<1>1. ASSUME NEW m \in Signed["Panic"], PanicButton(m) PROVE TypeOK'
  <2>1. NonceType'
    BY <1>1, ConsumeSignatureType DEF PanicButton, SharedKinds
  <2> QED BY <1>1, <2>1, Unchanged DEF PanicButton, TypeOK
<1>2. CASE NativeInheritance
  BY <1>2, ExecuteInheritanceType DEF NativeInheritance
<1> QED
  BY <1>1, <1>2, ExecuteInheritanceERC20Type, WithdrawType, ClaimTokenType, EvacuateType,
     EvacuateTokenType
  DEF EstateStep

\* The part of the configuration only the owner or the recovery key holds.
LEMMA VaultStepType ==
    ASSUME TypeOK,
           UNCHANGED <<now, initialized, owner, pendingOwner, policyVars, outcomeVars,
                       moneyVars>>,
           NonceType',
           vault' \in [safeVault : Addresses, recoveryKeyAddress : Addresses,
                      recoveryKeyRegistered : BOOLEAN]
    PROVE  TypeOK'
<1>1. AuthType'
  BY DEF TypeOK, AuthType
<1> QED BY <1>1, Unchanged DEF TypeOK

LEMMA ShareStepType ==
    ASSUME TypeOK, UNCHANGED tracked, share' \in [Accounts -> 0 .. TOTAL_BPS]
    PROVE  EstateType'
BY DEF TypeOK, EstateType

\* The registry shares the validation rules of the plan.
LEMMA RegistryReplaceType ==
    ASSUME NEW wallets \in Seq(Addresses), NEW shares \in Seq(Nat),
           Registry!Replace(wallets, shares)
    PROVE  share' \in [Accounts -> 0 .. TOTAL_BPS]
<1>1. /\ Len(wallets) = Len(shares)
      /\ \A i \in DOMAIN wallets : shares[i] > 0 /\ shares[i] <= TOTAL_BPS
  BY DEF Registry!Replace, Registry!ValidAllocation
<1>2. Registry!AllocationOf(wallets, shares) = AllocationOf(wallets, shares)
  BY DEF Registry!AllocationOf, AllocationOf
<1> QED BY <1>1, <1>2, AllocationType DEF Registry!Replace

LEMMA ReplaceTrackedTokensType ==
    ASSUME TypeOK, UNCHANGED share, NEW tokens \in Seq(Tokens \cup {None}),
           ReplaceTrackedTokens(tokens)
    PROVE  EstateType'
BY TokenListType DEF TypeOK, EstateType, ReplaceTrackedTokens

LEMMA ConfigStepType ==
    ASSUME TypeOK, ConfigStep
    PROVE  TypeOK'
<1>0. /\ share \in [Accounts -> 0 .. TOTAL_BPS]
      /\ vault \in [safeVault : Addresses, recoveryKeyAddress : Addresses,
                    recoveryKeyRegistered : BOOLEAN]
  BY DEF TypeOK, EstateType, AuthType
<1>1. ASSUME NEW caller \in Accounts, NEW w \in WalletInputs, NEW bps \in ShareInputs,
             AddBeneficiary(caller, w, bps)
      PROVE  TypeOK'
  <2>1. bps \in Nat
    BY InputAssumption
  <2>2. EstateType'
    BY <1>0, <1>1, <2>1, ShareStepType, RulesAssumption DEF AddBeneficiary, Registry!Add
  <2> QED BY <1>1, <2>2, Unchanged DEF AddBeneficiary, TypeOK
<1>2. ASSUME NEW caller \in Accounts, NEW w \in WalletInputs, RemoveBeneficiary(caller, w)
      PROVE  TypeOK'
  <2>1. EstateType'
    BY <1>0, <1>2, ShareStepType, RulesAssumption DEF RemoveBeneficiary, Registry!Remove
  <2> QED BY <1>2, <2>1, Unchanged DEF RemoveBeneficiary, TypeOK
<1>3. ASSUME NEW m \in Signed["SetBeneficiaries"], SetBeneficiariesBySig(m) PROVE TypeOK'
  <2>1. m.wallets \in Seq(Addresses) /\ m.shares \in Seq(Nat)
    BY SignedAssumption
  <2>2. EstateType'
    BY <1>3, <2>1, RegistryReplaceType, ShareStepType DEF SetBeneficiariesBySig
  <2>3. NonceType'
    BY <1>3, ConsumeActionDigestType DEF SetBeneficiariesBySig, ActionKinds
  <2> QED BY <1>3, <2>2, <2>3, Unchanged DEF SetBeneficiariesBySig, TypeOK
<1>4. ASSUME NEW caller \in Accounts, NEW tokens \in TokenListInputs,
             SetTrackedTokens(caller, tokens)
      PROVE  TypeOK'
  <2>1. EstateType'
    BY <1>4, InputAssumption, ReplaceTrackedTokensType DEF SetTrackedTokens
  <2> QED BY <1>4, <2>1, Unchanged DEF SetTrackedTokens, TypeOK
<1>5. ASSUME NEW m \in Signed["SetTrackedTokens"], SetTrackedTokensBySig(m) PROVE TypeOK'
  <2>1. EstateType'
    BY <1>5, SignedAssumption, ReplaceTrackedTokensType DEF SetTrackedTokensBySig
  <2>2. NonceType'
    BY <1>5, ConsumeActionDigestType DEF SetTrackedTokensBySig, ActionKinds
  <2> QED BY <1>5, <2>1, <2>2, Unchanged DEF SetTrackedTokensBySig, TypeOK
<1>6. ASSUME NEW caller \in Accounts, NEW newVault \in VaultInputs,
             SetSafeVault(caller, newVault)
      PROVE  TypeOK'
  <2>1. NonceType'
    BY <1>6, Unchanged DEF SetSafeVault
  <2> QED BY <1>0, <1>6, <2>1, InputAssumption, VaultStepType DEF SetSafeVault
<1>7. ASSUME NEW m \in Signed["SetSafeVault"], SetSafeVaultBySig(m) PROVE TypeOK'
  <2>1. NonceType'
    BY <1>7, ConsumeSignatureType DEF SetSafeVaultBySig, SharedKinds
  <2> QED BY <1>0, <1>7, <2>1, SignedAssumption, VaultStepType DEF SetSafeVaultBySig
<1>8. ASSUME NEW caller \in Accounts, NEW key \in KeyInputs, RegisterRecoveryKey(caller, key)
      PROVE  TypeOK'
  <2>1. NonceType'
    BY <1>8, Unchanged DEF RegisterRecoveryKey
  <2> QED
    BY <1>0, <1>8, <2>1, InputAssumption, VaultStepType DEF RegisterRecoveryKey, VaultOf
<1>9. ASSUME NEW m \in Signed["RotateRecoveryKey"], RotateRecoveryKey(m) PROVE TypeOK'
  <2>1. NonceType'
    BY <1>9, ConsumeSignatureType DEF RotateRecoveryKey, SharedKinds
  <2> QED BY <1>0, <1>9, <2>1, SignedAssumption, VaultStepType DEF RotateRecoveryKey
<1>10. ASSUME NEW m \in Signed["SetRecoveryConfig"], SetRecoveryConfigBySig(m) PROVE TypeOK'
  <2>1. NonceType'
    BY <1>10, ConsumeActionDigestType DEF SetRecoveryConfigBySig, ActionKinds
  <2> QED
    BY <1>0, <1>10, <2>1, SignedAssumption, VaultStepType
    DEF SetRecoveryConfigBySig, SetRecoveryConfig, VaultOf
<1>11. ASSUME NEW caller \in Accounts, NEW plan \in Plans, InitializePlan(caller, plan)
       PROVE  TypeOK'
  <2>1. /\ plan.settings \in Settings
        /\ plan.wallets \in Seq(Addresses)
        /\ plan.shares \in Seq(Nat)
        /\ plan.recoveryKey \in Addresses
        /\ plan.safeVault \in Addresses
        /\ plan.tokens \in Seq(Tokens \cup {None})
    BY InputAssumption
  <2>2. LivenessType'
    BY <1>11, <2>1, ApplySettingsType DEF InitializePlan
  <2>3. AuthType'
    BY <1>11, <2>1 DEF InitializePlan, SetRecoveryConfig, VaultOf, TypeOK, AuthType
  <2>4. EstateType'
    BY <1>11, <2>1, RegistryReplaceType, TokenListType
    DEF InitializePlan, ReplaceTrackedTokens, EstateType
  <2> QED BY <1>11, <2>2, <2>3, <2>4, Unchanged DEF InitializePlan, TypeOK
<1>12. ASSUME NEW caller \in Accounts, NEW newOwner \in OwnerInputs,
              TransferOwnership(caller, newOwner)
       PROVE  TypeOK'
  <2>1. AuthType'
    BY <1>12, InputAssumption DEF TransferOwnership, TypeOK, AuthType
  <2> QED BY <1>12, <2>1, Unchanged DEF TransferOwnership, TypeOK
<1>13. ASSUME NEW caller \in Accounts, AcceptOwnership(caller) PROVE TypeOK'
  <2>1. AuthType'
    BY <1>13 DEF AcceptOwnership, TypeOK, AuthType, Addresses
  <2> QED BY <1>13, <2>1, Unchanged DEF AcceptOwnership, TypeOK
<1> QED
  BY <1>1, <1>2, <1>3, <1>4, <1>5, <1>6, <1>7, <1>8, <1>9, <1>10, <1>11, <1>12, <1>13
  DEF ConfigStep

LEMMA EnvironmentStepType ==
    ASSUME TypeOK, EnvironmentStep
    PROVE  TypeOK'
<1>1. ASSUME NEW amount \in DepositInputs, Deposit(amount) PROVE TypeOK'
  <2>1. EtherType'
    BY <1>1, InputAssumption DEF Deposit, TypeOK, EtherType
  <2> QED BY <1>1, <2>1, Unchanged DEF Deposit, TypeOK
<1>2. ASSUME NEW t \in Tokens, NEW a \in Accounts, NEW amount \in TokenAmounts,
             Approve(t, a, amount)
      PROVE  TypeOK'
  <2>1. TokenType'
    BY <1>2, InputAssumption DEF Approve, TypeOK, TokenType
  <2> QED BY <1>2, <2>1, Unchanged DEF Approve, TypeOK
<1>3. ASSUME NEW t \in Tokens, NEW amount \in TokenAmounts, OwnerHolds(t, amount)
      PROVE  TypeOK'
  <2>1. TokenType'
    BY <1>3, InputAssumption DEF OwnerHolds, TypeOK, TokenType
  <2> QED BY <1>3, <2>1, Unchanged DEF OwnerHolds, TypeOK
<1> QED BY <1>1, <1>2, <1>3 DEF EnvironmentStep

LEMMA StepType ==
    ASSUME TypeOK, [Next]_vars
    PROVE  TypeOK'
<1>1. CASE Tick
  <2>1. ClockType'
    BY <1>1, InputAssumption DEF Tick, TypeOK, ClockType
  <2> QED BY <1>1, <2>1, Unchanged DEF Tick, TypeOK
<1>2. CASE UNCHANGED vars
  BY <1>2, Unchanged DEF vars, TypeOK
<1> QED
  BY <1>1, <1>2, LivenessStepType, EstateStepType, ConfigStepType, EnvironmentStepType
  DEF Next

\* Whatever the plan, its signatures and its inputs, no call drives a
\* balance, an allowance or a claim below zero or a share above 100%.
THEOREM TypeCorrect == Spec => []TypeOK
<1>1. TypeOK /\ [Next]_vars => TypeOK'
  BY StepType
<1> QED BY InitType, <1>1, PTL DEF Spec
-----------------------------------------------------------------------------
(* Authority: signatures, nonces, vault and recovery key.  The history of  *)
(* acceptances alone is not inductive, because the contract consults the   *)
(* nonces and not the history: NoncesMarked says that each accepted one    *)
(* leaves its nonce behind.                                                *)

\* The nonce of signature x is spent in the space of its kind.
Spent(x) ==
    IF x[1] \in SharedKinds THEN x[2].nonce \in nonceUsed
                            ELSE x[2].nonce \in actionNonceUsed[x[1]]

NoncesMarked == \A x \in Messages : timesUsed[x] > 0 => Spent(x)

\* Before a key is registered there is none.
KeyUnset == ~vault.recoveryKeyRegistered => vault.recoveryKeyAddress = None

AuthorityInv == TypeOK /\ NoReplay /\ NoncesMarked /\ KeyUnset
-----------------------------------------------------------------------------
(* The nonces.                                                             *)

LEMMA MessageParts ==
    ASSUME NEW x \in Messages
    PROVE  /\ x[1] \in Kinds
           /\ x[2] \in Signed[x[1]]
           /\ x = <<x[1], x[2]>>
BY DEF Messages

LEMMA KindsApart ==
    ASSUME NEW kind \in ActionKinds
    PROVE  kind \notin SharedKinds
BY DEF ActionKinds, SharedKinds

\* Two signatures of one space with one nonce are spent together.
LEMMA SpentTogether ==
    ASSUME NEW x \in Messages, NEW y \in Messages,
           y[1] \in NonceSpace(x[1]), x[2].nonce = y[2].nonce
    PROVE  Spent(x) <=> Spent(y)
BY DEF NonceSpace, Spent

\* Accepting a signature whose nonce is free keeps the record straight.
LEMMA FreshUse ==
    ASSUME TypeOK, NoReplay, NoncesMarked, NEW z \in Messages, ~Spent(z),
           timesUsed' = [timesUsed EXCEPT ![z] = @ + 1]
    PROVE  NoReplay' /\ timesUsed[z] = 0 /\ timesUsed'[z] = 1
<1>1. timesUsed \in [Messages -> Nat]
  BY DEF TypeOK, NonceType
<1>2. timesUsed[z] = 0
  BY <1>1 DEF NoncesMarked
<1>3. /\ timesUsed'[z] = 1
      /\ \A x \in Messages \ {z} : timesUsed'[x] = timesUsed[x]
  BY <1>1, <1>2
<1>4. ASSUME NEW y \in Messages, y # z, z[2].nonce = y[2].nonce,
             y[1] \in NonceSpace(z[1]) \/ z[1] \in NonceSpace(y[1])
      PROVE  timesUsed'[y] = 0
  <2>1. ~Spent(y)
    BY <1>4, SpentTogether
  <2> QED BY <1>1, <1>3, <1>4, <2>1 DEF NoncesMarked
<1>5. ASSUME NEW x \in Messages PROVE timesUsed'[x] <= 1
  BY <1>3, <1>5 DEF NoReplay
<1>6. ASSUME NEW x \in Messages, NEW y \in Messages, x # y,
             y[1] \in NonceSpace(x[1]), x[2].nonce = y[2].nonce
      PROVE  timesUsed'[x] + timesUsed'[y] <= 1
  <2>1. CASE x = z
    BY <1>3, <1>4, <1>6, <2>1
  <2>2. CASE y = z
    BY <1>3, <1>4, <1>6, <2>2
  <2>3. CASE x # z /\ y # z
    BY <1>3, <1>6, <2>3 DEF NoReplay
  <2> QED BY <2>1, <2>2, <2>3
<1> QED BY <1>2, <1>3, <1>5, <1>6 DEF NoReplay

LEMMA ConsumeSignatureOnce ==
    ASSUME TypeOK, NoReplay, NoncesMarked, NEW kind \in SharedKinds, NEW m \in Signed[kind],
           NEW signer, ConsumeSignature(kind, m, signer)
    PROVE  NoReplay' /\ NoncesMarked' /\ JustAccepted(kind, m)
<1> DEFINE z == <<kind, m>>
<1>1. z \in Messages /\ z[1] = kind /\ z[2] = m
  BY MessageType DEF Kinds
<1>2. ~Spent(z)
  BY <1>1 DEF ConsumeSignature, Spent
<1>3. timesUsed' = [timesUsed EXCEPT ![z] = @ + 1]
  BY DEF ConsumeSignature, Accept
<1>4. NoReplay' /\ JustAccepted(kind, m)
  BY <1>1, <1>2, <1>3, FreshUse DEF JustAccepted
<1>5. Spent(z)'
  BY <1>1 DEF ConsumeSignature, Spent
<1>6. ASSUME NEW x \in Messages, timesUsed'[x] > 0 PROVE Spent(x)'
  <2>1. CASE x = z
    BY <1>5, <2>1
  <2>2. CASE x # z
    <3>1. timesUsed'[x] = timesUsed[x]
      BY <1>1, <1>3, <2>2 DEF TypeOK, NonceType
    <3>2. Spent(x)
      BY <1>6, <3>1 DEF NoncesMarked
    <3> QED BY <3>2 DEF ConsumeSignature, Spent
  <2> QED BY <2>1, <2>2
<1> QED BY <1>4, <1>6 DEF NoncesMarked

LEMMA ConsumeActionDigestOnce ==
    ASSUME TypeOK, NoReplay, NoncesMarked, NEW kind \in ActionKinds, NEW m \in Signed[kind],
           NEW signer, ConsumeActionDigest(kind, m, signer)
    PROVE  NoReplay' /\ NoncesMarked' /\ JustAccepted(kind, m)
<1> DEFINE z == <<kind, m>>
<1>1. z \in Messages /\ z[1] = kind /\ z[2] = m
  BY MessageType DEF Kinds
<1>2. kind \notin SharedKinds
  BY KindsApart
<1>3. ~Spent(z)
  BY <1>1, <1>2 DEF ConsumeActionDigest, Spent
<1>4. timesUsed' = [timesUsed EXCEPT ![z] = @ + 1]
  BY DEF ConsumeActionDigest, Accept
<1>5. NoReplay' /\ JustAccepted(kind, m)
  BY <1>1, <1>3, <1>4, FreshUse DEF JustAccepted
<1>6. /\ nonceUsed' = nonceUsed
      /\ actionNonceUsed \in [ActionKinds -> SUBSET Nat]
      /\ actionNonceUsed' = [actionNonceUsed EXCEPT ![kind] = @ \cup {m.nonce}]
  BY DEF ConsumeActionDigest, TypeOK, NonceType
<1>7. \A other \in ActionKinds : actionNonceUsed[other] \subseteq actionNonceUsed'[other]
  BY <1>6
<1>8. m.nonce \in actionNonceUsed'[kind]
  BY <1>6
<1>9. ASSUME NEW x \in Messages, timesUsed'[x] > 0 PROVE Spent(x)'
  <2>1. CASE x = z
    BY <1>1, <1>2, <1>8, <2>1 DEF Spent
  <2>2. CASE x # z
    <3>1. timesUsed'[x] = timesUsed[x]
      BY <1>1, <1>4, <2>2 DEF TypeOK, NonceType
    <3>2. Spent(x)
      BY <1>9, <3>1 DEF NoncesMarked
    <3>3. x[1] \in SharedKinds \/ x[1] \in ActionKinds
      BY MessageParts DEF Kinds
    <3> QED BY <1>6, <1>7, <3>2, <3>3 DEF Spent
  <2> QED BY <2>1, <2>2
<1> QED BY <1>5, <1>9 DEF NoncesMarked

\* A step spends no nonce, or exactly one with exactly one signature.
LEMMA NonceSteps ==
    ASSUME [Next]_vars
    PROVE  \/ UNCHANGED nonceVars
           \/ \E kind \in SharedKinds : \E m \in Signed[kind] : \E signer :
                 ConsumeSignature(kind, m, signer)
           \/ \E kind \in ActionKinds : \E m \in Signed[kind] : \E signer :
                 ConsumeActionDigest(kind, m, signer)
<1>1. CASE LivenessStep
  BY <1>1 DEF LivenessStep, Heartbeat, CancelInheritance, SetLivenessConfig, ToggleLiveness,
              HeartbeatBySig, SetLivenessConfigBySig, SharedKinds, ActionKinds
<1>2. CASE EstateStep
  BY <1>2 DEF EstateStep, NativeInheritance, ExecuteInheritance, ExecuteInheritanceERC20,
              Withdraw, ClaimToken, Evacuate, EvacuateToken, PanicButton, SharedKinds
<1>3. CASE ConfigStep
  <2>1. CASE \E caller \in Accounts :
                \/ \E w \in WalletInputs : \E bps \in ShareInputs :
                      AddBeneficiary(caller, w, bps)
                \/ \E w \in WalletInputs : RemoveBeneficiary(caller, w)
                \/ \E tokens \in TokenListInputs : SetTrackedTokens(caller, tokens)
                \/ \E v \in VaultInputs : SetSafeVault(caller, v)
                \/ \E k \in KeyInputs : RegisterRecoveryKey(caller, k)
                \/ \E plan \in Plans : InitializePlan(caller, plan)
                \/ \E o \in OwnerInputs : TransferOwnership(caller, o)
                \/ AcceptOwnership(caller)
    BY <2>1 DEF AddBeneficiary, RemoveBeneficiary, SetTrackedTokens, SetSafeVault,
                RegisterRecoveryKey, InitializePlan, TransferOwnership, AcceptOwnership
  <2> QED
    BY <1>3, <2>1
    DEF ConfigStep, SetBeneficiariesBySig, SetTrackedTokensBySig, SetSafeVaultBySig,
        RotateRecoveryKey, SetRecoveryConfigBySig, SharedKinds, ActionKinds
<1>4. CASE EnvironmentStep
  BY <1>4 DEF EnvironmentStep, Deposit, Approve, OwnerHolds
<1>5. CASE Tick
  BY <1>5 DEF Tick
<1>6. CASE UNCHANGED vars
  BY <1>6 DEF vars
<1> QED BY <1>1, <1>2, <1>3, <1>4, <1>5, <1>6 DEF Next

LEMMA NonceInv ==
    ASSUME TypeOK, NoReplay, NoncesMarked, [Next]_vars
    PROVE  NoReplay' /\ NoncesMarked'
<1>1. CASE UNCHANGED nonceVars
  BY <1>1 DEF nonceVars, NoReplay, NoncesMarked, Spent
<1>2. CASE \E kind \in SharedKinds : \E m \in Signed[kind] : \E signer :
              ConsumeSignature(kind, m, signer)
  BY <1>2, ConsumeSignatureOnce
<1>3. CASE \E kind \in ActionKinds : \E m \in Signed[kind] : \E signer :
              ConsumeActionDigest(kind, m, signer)
  BY <1>3, ConsumeActionDigestOnce
<1> QED BY <1>1, <1>2, <1>3, NonceSteps

\* The only calls that write the recovery key or the vault.
LEMMA VaultSteps ==
    ASSUME [Next]_vars
    PROVE  \/ UNCHANGED vault
           \/ \E caller \in Accounts : \E v \in VaultInputs : SetSafeVault(caller, v)
           \/ \E caller \in Accounts : \E k \in KeyInputs : RegisterRecoveryKey(caller, k)
           \/ \E caller \in Accounts : \E plan \in Plans : InitializePlan(caller, plan)
           \/ \E m \in Signed["SetSafeVault"] : SetSafeVaultBySig(m)
           \/ \E m \in Signed["RotateRecoveryKey"] : RotateRecoveryKey(m)
           \/ \E m \in Signed["SetRecoveryConfig"] : SetRecoveryConfigBySig(m)
<1>1. CASE LivenessStep
  BY <1>1 DEF LivenessStep, Heartbeat, CancelInheritance, SetLivenessConfig, ToggleLiveness,
              HeartbeatBySig, SetLivenessConfigBySig, authVars
<1>2. CASE EstateStep
  BY <1>2 DEF EstateStep, NativeInheritance, ExecuteInheritance, ExecuteInheritanceERC20,
              Withdraw, ClaimToken, Evacuate, EvacuateToken, PanicButton, authVars
<1>3. CASE ConfigStep
  BY <1>3 DEF ConfigStep, AddBeneficiary, RemoveBeneficiary, SetTrackedTokens,
              TransferOwnership, AcceptOwnership, SetBeneficiariesBySig,
              SetTrackedTokensBySig, authVars
<1>4. CASE EnvironmentStep
  BY <1>4 DEF EnvironmentStep, Deposit, Approve, OwnerHolds, authVars
<1>5. CASE Tick
  BY <1>5 DEF Tick, authVars
<1>6. CASE UNCHANGED vars
  BY <1>6 DEF vars, authVars
<1> QED BY <1>1, <1>2, <1>3, <1>4, <1>5, <1>6 DEF Next

LEMMA VaultParts ==
    ASSUME TypeOK
    PROVE  /\ vault = VaultOf(vault.safeVault, vault.recoveryKeyAddress,
                             vault.recoveryKeyRegistered)
           /\ vault.recoveryKeyRegistered \in BOOLEAN
BY DEF TypeOK, AuthType, VaultOf

LEMMA KeyUnsetInv ==
    ASSUME TypeOK, KeyUnset, [Next]_vars
    PROVE  KeyUnset'
<1>1. CASE UNCHANGED vault
  BY <1>1 DEF KeyUnset
<1>2. ASSUME NEW caller \in Accounts, NEW v \in VaultInputs, SetSafeVault(caller, v)
      PROVE  KeyUnset'
  BY <1>2, VaultParts DEF SetSafeVault, VaultOf, KeyUnset
<1>3. ASSUME NEW caller \in Accounts, NEW k \in KeyInputs, RegisterRecoveryKey(caller, k)
      PROVE  KeyUnset'
  BY <1>3 DEF RegisterRecoveryKey, VaultOf, KeyUnset
<1>4. ASSUME NEW caller \in Accounts, NEW plan \in Plans, InitializePlan(caller, plan)
      PROVE  KeyUnset'
  BY <1>4 DEF InitializePlan, SetRecoveryConfig, VaultOf, KeyUnset
<1>5. ASSUME NEW m \in Signed["SetSafeVault"], SetSafeVaultBySig(m)
      PROVE  KeyUnset'
  BY <1>5, VaultParts DEF SetSafeVaultBySig, VaultOf, KeyUnset
<1>6. ASSUME NEW m \in Signed["RotateRecoveryKey"], RotateRecoveryKey(m)
      PROVE  KeyUnset'
  BY <1>6, VaultParts DEF RotateRecoveryKey, VaultOf, KeyUnset
<1>7. ASSUME NEW m \in Signed["SetRecoveryConfig"], SetRecoveryConfigBySig(m)
      PROVE  KeyUnset'
  BY <1>7 DEF SetRecoveryConfigBySig, SetRecoveryConfig, VaultOf, KeyUnset
<1> QED BY <1>1, <1>2, <1>3, <1>4, <1>5, <1>6, <1>7, VaultSteps

LEMMA AuthorityInit == Init => AuthorityInv
<1> SUFFICES ASSUME Init PROVE AuthorityInv
  OBVIOUS
<1>1. TypeOK
  BY InitType
<1>2. NoReplay /\ NoncesMarked
  BY DEF Init, NoReplay, NoncesMarked
<1>3. KeyUnset
  <2>1. \/ \E key, safeVault : vault = VaultOf(safeVault, key, TRUE)
        \/ vault = VaultOf(None, None, FALSE)
    BY DEF Init, Created, Deployed
  <2> QED BY <2>1 DEF VaultOf, KeyUnset
<1> QED BY <1>1, <1>2, <1>3 DEF AuthorityInv

\* The strengthened invariant is inductive.
THEOREM AuthorityInvariant == Spec => []AuthorityInv
<1>1. AuthorityInv /\ [Next]_vars => AuthorityInv'
  BY StepType, NonceInv, KeyUnsetInv DEF AuthorityInv
<1> QED BY AuthorityInit, <1>1, PTL DEF Spec

\* No signature is ever accepted twice, and a nonce serves one signature of
\* its space: for any number of signatures, keys and plans.
THEOREM NoSignatureReplay == Spec => []NoReplay
<1>1. AuthorityInv => NoReplay
  BY DEF AuthorityInv
<1> QED BY AuthorityInvariant, <1>1, PTL
-----------------------------------------------------------------------------
(* Who may change the key and the vault.                                   *)

LEMMA RecoveryStep ==
    ASSUME AuthorityInv, [Next]_vars
    PROVE  ChangesRecoverySigned
<1> USE DEF AuthorityInv
<1> SUFFICES ASSUME vault.recoveryKeyRegistered, vault' # vault, initialized' = initialized
             PROVE  ChangesRecoverySigned
  BY DEF ChangesRecoverySigned
<1>1. ASSUME NEW m \in Signed["SetSafeVault"], SetSafeVaultBySig(m)
      PROVE  ChangesRecoverySigned
  <2>1. JustAccepted("SetSafeVault", m)
    BY <1>1, ConsumeSignatureOnce DEF SetSafeVaultBySig, SharedKinds
  <2>2. m.signer = vault.recoveryKeyAddress
    BY <1>1 DEF SetSafeVaultBySig, ConsumeSignature, Accept
  <2> QED BY <1>1, <2>1, <2>2 DEF SetSafeVaultBySig, ChangesRecoverySigned
<1>2. ASSUME NEW m \in Signed["RotateRecoveryKey"], RotateRecoveryKey(m)
      PROVE  ChangesRecoverySigned
  <2>1. JustAccepted("RotateRecoveryKey", m)
    BY <1>2, ConsumeSignatureOnce DEF RotateRecoveryKey, SharedKinds
  <2>2. m.signer = vault.recoveryKeyAddress
    BY <1>2 DEF RotateRecoveryKey, ConsumeSignature, Accept
  <2> QED BY <1>2, <2>1, <2>2 DEF RotateRecoveryKey, ChangesRecoverySigned
<1>3. ASSUME NEW m \in Signed["SetRecoveryConfig"], SetRecoveryConfigBySig(m)
      PROVE  ChangesRecoverySigned
  <2>1. JustAccepted("SetRecoveryConfig", m)
    BY <1>3, ConsumeActionDigestOnce DEF SetRecoveryConfigBySig, ActionKinds
  <2>2. m.signer = vault.recoveryKeyAddress
    BY <1>3 DEF SetRecoveryConfigBySig, ConsumeActionDigest, Accept
  <2> QED
    BY <1>3, <2>1, <2>2 DEF SetRecoveryConfigBySig, SetRecoveryConfig, ChangesRecoverySigned
<1>4. ~ \E caller \in Accounts :
            \/ \E v \in VaultInputs : SetSafeVault(caller, v)
            \/ \E k \in KeyInputs : RegisterRecoveryKey(caller, k)
            \/ \E plan \in Plans : InitializePlan(caller, plan)
  BY DEF SetSafeVault, RegisterRecoveryKey, OwnerControls, InitializePlan
<1> QED BY <1>1, <1>2, <1>3, <1>4, VaultSteps

\* A registered key and its vault move only by a fresh signature of the key
\* in force, whatever the owner and everybody else do.
THEOREM RecoveryChangesAreSigned == Spec => RecoveryChangeSigned
<1>1. AuthorityInv /\ [Next]_vars => [ChangesRecoverySigned]_vars
  BY RecoveryStep
<1> QED BY AuthorityInvariant, <1>1, PTL DEF Spec, RecoveryChangeSigned

LEMMA SharingStep ==
    ASSUME AuthorityInv, [Next]_vars
    PROVE  SharesAcknowledged
<1> USE DEF AuthorityInv
<1> SUFFICES ASSUME ~Shared, Shared' PROVE SharesAcknowledged
  BY DEF SharesAcknowledged
<1>1. ASSUME NEW caller \in Accounts, NEW v \in VaultInputs, SetSafeVault(caller, v)
      PROVE  FALSE
  BY <1>1, VaultParts DEF SetSafeVault, OwnerControls, KeyUnset, Shared, VaultOf
<1>2. ASSUME NEW caller \in Accounts, NEW k \in KeyInputs, RegisterRecoveryKey(caller, k)
      PROVE  FALSE
  BY <1>2, VaultParts DEF RegisterRecoveryKey, KeyAcceptable, Shared, VaultOf
<1>3. ASSUME NEW caller \in Accounts, NEW plan \in Plans, InitializePlan(caller, plan)
      PROVE  SharesAcknowledged
  <2>1. plan.allowSharedRecovery
    BY <1>3 DEF InitializePlan, SetRecoveryConfig, ValidRecovery, VaultOf, Shared
  <2> QED BY <1>3, <2>1 DEF InitializePlan, SharesAcknowledged
<1>4. ASSUME NEW m \in Signed["SetSafeVault"], SetSafeVaultBySig(m)
      PROVE  FALSE
  BY <1>4, VaultParts DEF SetSafeVaultBySig, Shared, VaultOf
<1>5. ASSUME NEW m \in Signed["RotateRecoveryKey"], RotateRecoveryKey(m)
      PROVE  FALSE
  BY <1>5, VaultParts DEF RotateRecoveryKey, KeyAcceptable, Shared, VaultOf
<1>6. ASSUME NEW m \in Signed["SetRecoveryConfig"], SetRecoveryConfigBySig(m)
      PROVE  SharesAcknowledged
  <2>1. JustAccepted("SetRecoveryConfig", m)
    BY <1>6, ConsumeActionDigestOnce DEF SetRecoveryConfigBySig, ActionKinds
  <2>2. m.allowSharedRecovery
    BY <1>6 DEF SetRecoveryConfigBySig, SetRecoveryConfig, ValidRecovery, VaultOf, Shared
  <2> QED BY <2>1, <2>2 DEF SharesAcknowledged
<1>7. ASSUME UNCHANGED vault PROVE FALSE
  BY <1>7 DEF Shared
<1> QED BY <1>1, <1>2, <1>3, <1>4, <1>5, <1>6, <1>7, VaultSteps

\* Key and vault never become one wallet without the acknowledgement.
THEOREM SharingIsAcknowledged == Spec => SharingAcknowledged
<1>1. AuthorityInv /\ [Next]_vars => [SharesAcknowledged]_vars
  BY SharingStep
<1> QED BY AuthorityInvariant, <1>1, PTL DEF Spec, SharingAcknowledged
-----------------------------------------------------------------------------
(* Estate: distribution, claims and evacuation.                            *)

\* A step moves value or settles the estate, or it leaves both alone.
LEMMA EstateSteps ==
    ASSUME [Next]_vars
    PROVE  \/ UNCHANGED <<outcomeVars, moneyVars>>
           \/ EstateStep
           \/ EnvironmentStep
<1>1. CASE LivenessStep
  BY <1>1 DEF LivenessStep, Heartbeat, CancelInheritance, SetLivenessConfig, ToggleLiveness,
              HeartbeatBySig, SetLivenessConfigBySig
<1>2. CASE ConfigStep
  BY <1>2 DEF ConfigStep, AddBeneficiary, RemoveBeneficiary, SetTrackedTokens, SetSafeVault,
              RegisterRecoveryKey, InitializePlan, TransferOwnership, AcceptOwnership,
              SetBeneficiariesBySig, SetTrackedTokensBySig, SetSafeVaultBySig,
              RotateRecoveryKey, SetRecoveryConfigBySig
<1>3. CASE Tick
  BY <1>3 DEF Tick
<1>4. CASE UNCHANGED vars
  BY <1>4 DEF vars
<1> QED BY <1>1, <1>2, <1>3, <1>4 DEF Next

LEMMA EstateActions ==
    ASSUME EstateStep
    PROVE  \/ \E refusing : ExecuteInheritance(refusing)
           \/ \E t \in Tokens : \E refusing : ExecuteInheritanceERC20(t, refusing)
           \/ \E caller \in Accounts : Withdraw(caller)
           \/ \E caller \in Accounts : \E t \in Tokens : ClaimToken(caller, t)
           \/ \E m \in Signed["Evacuate"] : \E stuck : Evacuate(m, stuck)
           \/ \E t \in Tokens : EvacuateToken(t)
           \/ \E m \in Signed["Panic"] : PanicButton(m)
BY DEF EstateStep, NativeInheritance

\* Deposits and the owner's own dealings settle nothing.
LEMMA EnvironmentSettlesNothing ==
    ASSUME EnvironmentStep
    PROVE  UNCHANGED <<outcomeVars, ether, pendingWithdrawal, pendingTokenWithdrawal>>
BY DEF EnvironmentStep, Deposit, Approve, OwnerHolds, etherVars, tokenVars

LEMMA MoneyTypes ==
    ASSUME TypeOK
    PROVE  /\ balance \in Nat
           /\ ether \in [Accounts -> Nat]
           /\ pendingWithdrawal \in [Accounts -> Nat]
           /\ tokenBalance \in [Tokens -> [Accounts -> Nat]]
           /\ allowance \in [Tokens -> [Accounts -> Nat]]
           /\ pendingTokenWithdrawal \in [Tokens -> [Accounts -> Nat]]
           /\ owner \in Accounts
BY DEF TypeOK, EtherType, TokenType, AuthType
-----------------------------------------------------------------------------
LEMMA ClaimsStep ==
    ASSUME TypeOK, [Next]_vars
    PROVE  ClaimsKept
<1> SUFFICES ASSUME inheritanceExecuted, evacuationExecuted' = evacuationExecuted,
                    NEW w \in Accounts
             PROVE  ether'[w] + pendingWithdrawal'[w] = ether[w] + pendingWithdrawal[w]
  BY DEF ClaimsKept
<1>1. CASE UNCHANGED <<ether, pendingWithdrawal>>
  BY <1>1
<1>2. ASSUME NEW refusing, ExecuteInheritance(refusing) PROVE FALSE
  BY <1>2 DEF ExecuteInheritance, InheritanceReady
<1>3. ASSUME NEW caller \in Accounts, Withdraw(caller)
      PROVE  ether'[w] + pendingWithdrawal'[w] = ether[w] + pendingWithdrawal[w]
  BY <1>3, MoneyTypes DEF Withdraw
<1>4. ASSUME NEW m \in Signed["Evacuate"], NEW stuck, Evacuate(m, stuck) PROVE FALSE
  BY <1>4 DEF Evacuate
<1>5. ASSUME EstateStep
      PROVE  ether'[w] + pendingWithdrawal'[w] = ether[w] + pendingWithdrawal[w]
  BY <1>1, <1>2, <1>3, <1>4, <1>5, EstateActions
  DEF ExecuteInheritanceERC20, ClaimToken, EvacuateToken, PanicButton, etherVars, moneyVars
<1> QED
  BY <1>1, <1>5, EstateSteps, EnvironmentSettlesNothing DEF etherVars, moneyVars

\* After the ether is distributed, claims turn into payments wei for wei.
THEOREM EtherClaimsConserved == Spec => ClaimsConserved
<1>1. TypeOK /\ [Next]_vars => [ClaimsKept]_vars
  BY ClaimsStep
<1> QED BY TypeCorrect, <1>1, PTL DEF Spec, ClaimsConserved
-----------------------------------------------------------------------------
LEMMA EvacuatedStep ==
    ASSUME TypeOK, [Next]_vars
    PROVE  StaysEvacuated
<1> SUFFICES ASSUME evacuationExecuted PROVE StaysEvacuated
  BY DEF StaysEvacuated
<1>1. ASSUME UNCHANGED <<outcomeVars, pendingWithdrawal, pendingTokenWithdrawal>>
      PROVE  StaysEvacuated
  BY <1>1, MoneyTypes DEF outcomeVars, StaysEvacuated
<1>2. ASSUME NEW refusing, ExecuteInheritance(refusing) PROVE FALSE
  BY <1>2 DEF ExecuteInheritance, InheritanceReady, DistributionDue
<1>3. ASSUME NEW t \in Tokens, NEW refusing, ExecuteInheritanceERC20(t, refusing) PROVE FALSE
  BY <1>3 DEF ExecuteInheritanceERC20, TokenReady, DistributionDue
<1>4. ASSUME NEW m \in Signed["Evacuate"], NEW stuck, Evacuate(m, stuck) PROVE FALSE
  BY <1>4 DEF Evacuate
<1>5. ASSUME NEW caller \in Accounts, Withdraw(caller) PROVE StaysEvacuated
  BY <1>5, MoneyTypes DEF Withdraw, StaysEvacuated, outcomeVars, tokenVars
<1>6. ASSUME NEW caller \in Accounts, NEW t \in Tokens, ClaimToken(caller, t)
      PROVE  StaysEvacuated
  BY <1>6, MoneyTypes DEF ClaimToken, StaysEvacuated, outcomeVars, etherVars
<1>7. ASSUME NEW t \in Tokens, EvacuateToken(t) PROVE StaysEvacuated
  BY <1>1, <1>7 DEF EvacuateToken, etherVars
<1>8. ASSUME NEW m \in Signed["Panic"], PanicButton(m) PROVE StaysEvacuated
  BY <1>1, <1>8 DEF PanicButton, moneyVars, etherVars, tokenVars
<1> QED
  BY <1>1, <1>2, <1>3, <1>4, <1>5, <1>6, <1>7, <1>8,
     EstateSteps, EstateActions, EnvironmentSettlesNothing
  DEF moneyVars, etherVars, tokenVars

\* An evacuated estate is never inherited, and owes nobody anything new.
THEOREM EvacuationFinal == Spec => EvacuationIsFinal
<1>1. TypeOK /\ [Next]_vars => [StaysEvacuated]_vars
  BY EvacuatedStep
<1> QED BY TypeCorrect, <1>1, PTL DEF Spec, EvacuationIsFinal
-----------------------------------------------------------------------------
LEMMA DeadlineStep ==
    ASSUME TypeOK, [Next]_vars
    PROVE  DistributesWhenDue
<1> DEFINE due == now >= liveness.lastHeartbeat + liveness.timeoutDuration
                           + liveness.gracePeriod
<1> SUFFICES ASSUME inheritanceExecuted' # inheritanceExecuted
                       \/ tokenDistributed' # tokenDistributed
             PROVE  due
  BY DEF DistributesWhenDue
<1>1. ASSUME GraceElapsed PROVE due
  <2>1. /\ now \in Nat
        /\ liveness.lastHeartbeat \in Nat
        /\ liveness.timeoutDuration \in Nat
        /\ liveness.gracePeriod \in Nat
    BY RulesAssumption, InputAssumption DEF TypeOK, ClockType, LivenessType, U64
  <2> QED BY <1>1, <2>1 DEF GraceElapsed
<1>2. ASSUME NEW refusing, ExecuteInheritance(refusing) PROVE due
  BY <1>1, <1>2 DEF ExecuteInheritance, InheritanceReady, DistributionDue
<1>3. ASSUME NEW t \in Tokens, NEW refusing, ExecuteInheritanceERC20(t, refusing) PROVE due
  BY <1>1, <1>3 DEF ExecuteInheritanceERC20, TokenReady, DistributionDue
<1>4. ASSUME EstateStep PROVE due
  BY <1>2, <1>3, <1>4, EstateActions
  DEF Withdraw, ClaimToken, Evacuate, EvacuateToken, PanicButton, outcomeVars
<1> QED
  BY <1>4, EstateSteps, EnvironmentSettlesNothing DEF outcomeVars

\* Nothing is distributed early, also when the periods overflow uint64.
THEOREM DeadlineRespected == Spec => NeverBeforeDeadline
<1>1. TypeOK /\ [Next]_vars => [DistributesWhenDue]_vars
  BY DeadlineStep
<1> QED BY TypeCorrect, <1>1, PTL DEF Spec, NeverBeforeDeadline
-----------------------------------------------------------------------------
\* What the owner's transfers leave with a bystander.
LEMMA BystanderKeeps ==
    ASSUME TypeOK, NEW t \in Tokens, NEW moved, NEW total, NEW w \in Accounts \ {owner}
    PROVE  AfterTransfers(t, moved, total)[w] = tokenBalance[t][w] + moved[w]
BY DEF AfterTransfers

LEMMA TokenClaimsStep ==
    ASSUME TypeOK, [Next]_vars
    PROVE  TokenClaimsKept
<1> SUFFICES ASSUME NEW t \in Tokens, NEW w \in Accounts \ {owner, vault.safeVault},
                    t \in tokenDistributed \/ evacuationExecuted
             PROVE  tokenBalance'[t][w] + pendingTokenWithdrawal'[t][w]
                      = tokenBalance[t][w] + pendingTokenWithdrawal[t][w]
  BY DEF TokenClaimsKept
<1> DEFINE kept == tokenBalance'[t][w] + pendingTokenWithdrawal'[t][w]
                      = tokenBalance[t][w] + pendingTokenWithdrawal[t][w]
<1>0. /\ tokenBalance \in [Tokens -> [Accounts -> Nat]]
      /\ pendingTokenWithdrawal \in [Tokens -> [Accounts -> Nat]]
  BY MoneyTypes
<1>1. ASSUME UNCHANGED <<tokenBalance, pendingTokenWithdrawal>> PROVE kept
  BY <1>1
<1>2. ASSUME NEW t2 \in Tokens, NEW refusing, ExecuteInheritanceERC20(t2, refusing) PROVE kept
  <2>1. t2 # t
    BY <1>2 DEF ExecuteInheritanceERC20, TokenReady, DistributionDue
  <2> QED BY <1>0, <1>2, <2>1 DEF ExecuteInheritanceERC20
<1>3. ASSUME NEW caller \in Accounts, NEW t2 \in Tokens, ClaimToken(caller, t2) PROVE kept
  <2> DEFINE amount == pendingTokenWithdrawal[t2][caller]
  <2>1. CASE t2 # t
    BY <1>0, <1>3, <2>1 DEF ClaimToken
  <2>2. CASE t2 = t
    <3>1. tokenBalance'[t][w] = tokenBalance[t][w] + Only(caller, amount)[w]
      BY <1>0, <1>3, <2>2, BystanderKeeps DEF ClaimToken
    <3>2. pendingTokenWithdrawal'[t][w]
            = IF w = caller THEN 0 ELSE pendingTokenWithdrawal[t][w]
      BY <1>0, <1>3, <2>2 DEF ClaimToken
    <3> QED BY <1>0, <2>2, <3>1, <3>2 DEF Only
  <2> QED BY <2>1, <2>2
<1>4. ASSUME NEW m \in Signed["Evacuate"], NEW stuck, Evacuate(m, stuck) PROVE kept
  <2> DEFINE swept(x) == IF x \in tracked \ stuck THEN Pullable(x) ELSE 0
  <2>1. /\ pendingTokenWithdrawal' = pendingTokenWithdrawal
        /\ tokenBalance' =
              [x \in Tokens |-> AfterTransfers(x, Only(vault.safeVault, swept(x)), swept(x))]
    BY <1>4 DEF Evacuate
  <2>2. tokenBalance'[t][w] = tokenBalance[t][w] + Only(vault.safeVault, swept(t))[w]
    BY <2>1, BystanderKeeps
  <2> HIDE DEF swept
  <2>3. Only(vault.safeVault, swept(t))[w] = 0
    BY DEF Only
  <2> QED BY <1>0, <2>1, <2>2, <2>3
<1>5. ASSUME NEW t2 \in Tokens, EvacuateToken(t2) PROVE kept
  <2> DEFINE amount == Pullable(t2)
  <2>1. /\ pendingTokenWithdrawal' = pendingTokenWithdrawal
        /\ tokenBalance' =
              [tokenBalance EXCEPT ![t2] =
                  AfterTransfers(t2, Only(vault.safeVault, amount), amount)]
    BY <1>5 DEF EvacuateToken
  <2> HIDE DEF amount
  <2>2. CASE t2 # t
    BY <1>0, <2>1, <2>2
  <2>3. CASE t2 = t
    <3>1. tokenBalance'[t][w] = tokenBalance[t][w] + Only(vault.safeVault, amount)[w]
      BY <1>0, <2>1, <2>3, BystanderKeeps
    <3>2. Only(vault.safeVault, amount)[w] = 0
      BY DEF Only
    <3> QED BY <1>0, <2>1, <3>1, <3>2
  <2> QED BY <2>2, <2>3
<1>6. ASSUME EstateStep PROVE kept
  BY <1>1, <1>2, <1>3, <1>4, <1>5, <1>6, EstateActions
  DEF ExecuteInheritance, Withdraw, PanicButton, moneyVars, tokenVars
<1>7. ASSUME EnvironmentStep PROVE kept
  BY <1>0, <1>7 DEF EnvironmentStep, Deposit, Approve, OwnerHolds, tokenVars
<1> QED BY <1>1, <1>6, <1>7, EstateSteps DEF moneyVars, tokenVars

\* After its distribution a token changes hands only as claims become
\* tokens, for everybody but the owner and the vault.
THEOREM TokensClaimsConserved == Spec => TokenClaimsConserved
<1>1. TypeOK /\ [Next]_vars => [TokenClaimsKept]_vars
  BY TokenClaimsStep
<1> QED BY TypeCorrect, <1>1, PTL DEF Spec, TokenClaimsConserved
-----------------------------------------------------------------------------
(* Solvency.  That the plan covers its debts is not inductive by itself:   *)
(* the distribution needs to know that nobody was owed anything before it. *)

NothingOwedBefore ==
    ~inheritanceExecuted => \A w \in Accounts : pendingWithdrawal[w] = 0

SolvencyInv == TypeOK /\ NothingOwedBefore /\ Solvent

Owed == SumFunctionOnSet(pendingWithdrawal, Accounts)

LEMMA OwedIsSum ==
    ASSUME TypeOK
    PROVE  /\ SumFunction(pendingWithdrawal) = Owed
           /\ Owed \in Nat
<1>1. pendingWithdrawal \in [Accounts -> Nat]
  BY MoneyTypes
<1> QED BY <1>1, RulesAssumption, SumNatural DEF SumFunction, Owed

LEMMA InitSolvent == Init => SolvencyInv
<1> SUFFICES ASSUME Init PROVE SolvencyInv
  OBVIOUS
<1>1. TypeOK
  BY InitType
<1>2. balance = 0 /\ \A w \in Accounts : pendingWithdrawal[w] = 0
  BY DEF Init
<1>3. Owed = 0
  BY <1>2, RulesAssumption, SumOfZeros DEF Owed
<1> QED BY <1>1, <1>2, <1>3, OwedIsSum DEF SolvencyInv, Solvent, NothingOwedBefore

LEMMA ExecuteInheritanceSolvent ==
    ASSUME SolvencyInv, TypeOK', NEW refusing, ExecuteInheritance(refusing)
    PROVE  SolvencyInv'
<1> DEFINE pushed == Pushed(balance, refusing)
           deferred == Deferred(balance, refusing)
<1>1. /\ TypeOK
      /\ \A w \in Accounts : pendingWithdrawal[w] = 0
      /\ DistributionDue
      /\ inheritanceExecuted'
      /\ balance' = balance - SumFunction(pushed)
      /\ pendingWithdrawal' = [w \in Accounts |-> pendingWithdrawal[w] + deferred[w]]
  BY DEF SolvencyInv, NothingOwedBefore, ExecuteInheritance, InheritanceReady
<1>2. balance \in Nat
  BY <1>1, MoneyTypes
<1>3. /\ SumFunction(pushed) \in Nat
      /\ SumFunction(deferred) \in Nat
      /\ SumFunction(pushed) + SumFunction(deferred) <= balance
  BY <1>1, <1>2, PortionsAreCovered
<1>4. deferred \in [Accounts -> Nat]
  BY <1>1, <1>2, DistributionType
<1> HIDE DEF pushed, deferred
<1>5. pendingWithdrawal' = deferred
  BY <1>1, <1>4
<1>6. SumFunction(pendingWithdrawal') <= balance'
  BY <1>1, <1>2, <1>3, <1>5
<1> QED BY <1>1, <1>6 DEF SolvencyInv, NothingOwedBefore, Solvent

LEMMA WithdrawSolvent ==
    ASSUME SolvencyInv, TypeOK', NEW caller \in Accounts, Withdraw(caller)
    PROVE  SolvencyInv'
<1>1. /\ pendingWithdrawal \in [Accounts -> Nat]
      /\ balance \in Nat
      /\ TypeOK
  BY MoneyTypes DEF SolvencyInv
<1>2. /\ pendingWithdrawal' = [pendingWithdrawal EXCEPT ![caller] = 0]
      /\ balance' = balance - pendingWithdrawal[caller]
      /\ pendingWithdrawal[caller] > 0
      /\ UNCHANGED <<inheritanceExecuted, evacuationExecuted>>
  BY DEF Withdraw, outcomeVars
<1>3. NothingOwedBefore'
  BY <1>1, <1>2 DEF SolvencyInv, NothingOwedBefore
<1>4. Owed' + pendingWithdrawal[caller] = Owed + 0
  <2>1. /\ \A w \in Accounts : pendingWithdrawal[w] \in Nat /\ pendingWithdrawal'[w] \in Nat
        /\ \A w \in Accounts \ {caller} : pendingWithdrawal'[w] = pendingWithdrawal[w]
        /\ pendingWithdrawal'[caller] = 0
    BY <1>1, <1>2
  <2> QED BY <2>1, RulesAssumption, SumOneChanged DEF Owed
<1>5. /\ SumFunction(pendingWithdrawal) = Owed /\ Owed \in Nat
      /\ SumFunction(pendingWithdrawal') = Owed' /\ Owed' \in Nat
  <2>1. pendingWithdrawal' \in [Accounts -> Nat]
    BY <1>1, <1>2
  <2> QED BY <1>1, <2>1, OwedIsSum, RulesAssumption, SumNatural DEF SumFunction, Owed
<1>6. Solvent'
  BY <1>1, <1>2, <1>4, <1>5 DEF SolvencyInv, Solvent
<1> QED BY <1>3, <1>6 DEF SolvencyInv

\* Ether that arrives or stays leaves the debts covered.
LEMMA RicherIsSolvent ==
    ASSUME SolvencyInv, TypeOK',
           UNCHANGED <<pendingWithdrawal, inheritanceExecuted, evacuationExecuted>>,
           balance' >= balance
    PROVE  SolvencyInv'
<1>1. balance \in Nat /\ balance' \in Nat
  BY DEF SolvencyInv, TypeOK, EtherType
<1>2. SumFunction(pendingWithdrawal) \in Nat
  BY OwedIsSum DEF SolvencyInv
<1> QED BY <1>1, <1>2 DEF SolvencyInv, NothingOwedBefore, Solvent

LEMMA StepSolvent ==
    ASSUME SolvencyInv, [Next]_vars
    PROVE  SolvencyInv'
<1>0. /\ TypeOK
      /\ TypeOK'
      /\ balance \in Nat
  BY StepType DEF SolvencyInv, TypeOK, EtherType
<1>1. ASSUME UNCHANGED <<balance, pendingWithdrawal, inheritanceExecuted, evacuationExecuted>>
      PROVE  SolvencyInv'
  BY <1>0, <1>1, RicherIsSolvent
<1>2. ASSUME NEW m \in Signed["Evacuate"], NEW stuck, Evacuate(m, stuck) PROVE SolvencyInv'
  BY <1>0, <1>2 DEF Evacuate, SolvencyInv, NothingOwedBefore, Solvent
<1>3. ASSUME EstateStep PROVE SolvencyInv'
  <2>1. ASSUME NEW t \in Tokens, NEW refusing, ExecuteInheritanceERC20(t, refusing)
        PROVE  SolvencyInv'
    BY <1>1, <2>1 DEF ExecuteInheritanceERC20, etherVars
  <2>2. ASSUME NEW caller \in Accounts, NEW t \in Tokens, ClaimToken(caller, t)
        PROVE  SolvencyInv'
    BY <1>1, <2>2 DEF ClaimToken, outcomeVars, etherVars
  <2>3. ASSUME NEW t \in Tokens, EvacuateToken(t) PROVE SolvencyInv'
    BY <1>1, <2>3 DEF EvacuateToken, outcomeVars, etherVars
  <2>4. ASSUME NEW m \in Signed["Panic"], PanicButton(m) PROVE SolvencyInv'
    BY <1>1, <2>4 DEF PanicButton, outcomeVars, moneyVars, etherVars
  <2> QED
    BY <1>0, <1>2, <1>3, <2>1, <2>2, <2>3, <2>4, EstateActions,
       ExecuteInheritanceSolvent, WithdrawSolvent
<1>4. ASSUME EnvironmentStep PROVE SolvencyInv'
  <2>1. ASSUME NEW amount \in DepositInputs, Deposit(amount) PROVE SolvencyInv'
    <3>1. balance' >= balance
      BY <1>0, <2>1, InputAssumption DEF Deposit
    <3> QED BY <1>0, <2>1, <3>1, RicherIsSolvent DEF Deposit, outcomeVars
  <2> QED BY <1>1, <1>4, <2>1 DEF EnvironmentStep, Approve, OwnerHolds, outcomeVars, etherVars
<1> QED
  BY <1>1, <1>3, <1>4, EstateSteps DEF outcomeVars, moneyVars, etherVars

\* Until an evacuation the plan holds every wei it owes, whoever refused and
\* however the shares round, for every number of beneficiaries.
THEOREM EstateIsSolvent == Spec => []Solvent
<1>1. SolvencyInv /\ [Next]_vars => SolvencyInv'
  BY StepSolvent
<1>2. SolvencyInv => Solvent
  BY DEF SolvencyInv
<1> QED BY InitSolvent, <1>1, <1>2, PTL DEF Spec
-----------------------------------------------------------------------------
(* The shares.  The contract is built on the abstract registry; its own    *)
(* steps are steps of that registry, whichever function makes them.        *)

\* A valid list names as many wallets as it has entries, and each has the
\* share beside it.
LEMMA ValidListIsMap ==
    ASSUME NEW wallets \in Seq(Addresses), NEW shares \in Seq(Nat),
           ValidAllocation(wallets, shares)
    PROVE  /\ AllocationOf(wallets, shares) \in [Accounts -> 0 .. TOTAL_BPS]
           /\ SumFunctionOnSet(AllocationOf(wallets, shares), Accounts) = TOTAL_BPS
           /\ Cardinality({w \in Accounts : AllocationOf(wallets, shares)[w] > 0})
                <= MAX_BENEFICIARIES
<1> DEFINE n == Len(wallets)
           map == AllocationOf(wallets, shares)
           held == {w \in Accounts : map[w] > 0}
<1>1. /\ n \in Nat
      /\ n <= MAX_BENEFICIARIES
      /\ DOMAIN wallets = 1 .. n
      /\ DOMAIN shares = 1 .. n
      /\ \A i \in 1 .. n : /\ wallets[i] \in Accounts
                           /\ shares[i] \in Nat /\ shares[i] > 0 /\ shares[i] <= TOTAL_BPS
      /\ \A i, j \in 1 .. n : wallets[i] = wallets[j] => i = j
      /\ SumFunctionOnSet(shares, 1 .. n) = TOTAL_BPS
  BY DEF ValidAllocation, Addresses, SumFunction
<1>2. map \in [Accounts -> 0 .. TOTAL_BPS]
  BY <1>1, AllocationType
<1>3. \A i \in 1 .. n : map[wallets[i]] = shares[i]
  <2> SUFFICES ASSUME NEW i \in 1 .. n PROVE map[wallets[i]] = shares[i]
    OBVIOUS
  <2> DEFINE j == CHOOSE k \in DOMAIN wallets : wallets[k] = wallets[i]
  <2>1. j \in 1 .. n /\ wallets[j] = wallets[i]
    BY <1>1
  <2>2. map[wallets[i]] = shares[j]
    BY <1>1 DEF AllocationOf
  <2> HIDE DEF j
  <2> QED BY <1>1, <2>1, <2>2
<1>4. \A w \in Accounts : (\A i \in 1 .. n : wallets[i] # w) => map[w] = 0
  BY <1>1 DEF AllocationOf
<1>5. IsFiniteSet(1 .. n) /\ Cardinality(1 .. n) = n
  <2>1. n \in Nat
    BY <1>1
  <2> HIDE DEF n, map, held
  <2>2. IsFiniteSet(1 .. n)
    BY <2>1, FS_Interval
  <2>3. Cardinality(1 .. n) = IF 1 > n THEN 0 ELSE n - 1 + 1
    BY <2>1, FS_Interval
  <2> QED BY <2>1, <2>2, <2>3
<1>6. \A w \in Accounts : map[w] \in Nat
  BY <1>2, RulesAssumption
<1> HIDE DEF map
<1>7. SumFunctionOnSet(map, Accounts) = TOTAL_BPS
  <2> DEFINE T == 1 .. n
  <2>1. /\ IsFiniteSet(Accounts) /\ IsFiniteSet(T)
        /\ \A i \in T : wallets[i] \in Accounts /\ shares[i] = map[wallets[i]]
        /\ \A i, j \in T : wallets[i] = wallets[j] => i = j
        /\ \A w \in Accounts : (\A i \in T : wallets[i] # w) => map[w] = 0
    BY <1>1, <1>3, <1>4, <1>5, RulesAssumption
  <2> HIDE DEF T
  <2>2. SumFunctionOnSet(map, Accounts) = SumFunctionOnSet(shares, T)
    BY <1>6, <2>1, SumRenamed
  <2> QED BY <1>1, <2>2 DEF T
<1>8. Cardinality(held) <= n
  <2> DEFINE name == [i \in 1 .. n |-> wallets[i]]
  <2>1. \A i \in 1 .. n : name[i] \in held
    BY <1>1, <1>3
  <2>2. \A w \in held : \E i \in 1 .. n : name[i] = w
    BY <1>2, <1>4
  <2>3. name \in Surjection(1 .. n, held)
    <3>1. name \in [1 .. n -> held]
      BY <2>1
    <3> HIDE DEF name, held, n
    <3> QED BY <2>2, <3>1 DEF Surjection
  <2> HIDE DEF name, held
  <2> QED BY <1>5, <2>3, FS_Surjection
<1>9. Cardinality(held) <= MAX_BENEFICIARIES
  <2>1. held \subseteq Accounts
    OBVIOUS
  <2>2. Cardinality(held) \in Nat
    BY <2>1, RulesAssumption, FS_Subset, FS_CardinalityType
  <2> HIDE DEF held
  <2> QED BY <1>1, <1>8, <2>2, RulesAssumption
<1> QED BY <1>2, <1>7, <1>9 DEF map

\* A replacement in the contract installs a complete allocation at once.
LEMMA ReplaceIsComplete ==
    ASSUME NEW wallets \in Seq(Addresses), NEW shares \in Seq(Nat),
           Registry!Replace(wallets, shares)
    PROVE  Registry!Next
<1>1. ValidAllocation(wallets, shares)
  BY RegistrySum DEF Registry!Replace, Registry!ValidAllocation, ValidAllocation
<1>2. share' = AllocationOf(wallets, shares)
  BY DEF Registry!Replace, Registry!AllocationOf, AllocationOf
<1>3. /\ share' \in [Accounts -> 0 .. TOTAL_BPS]
      /\ SumFunctionOnSet(share', Accounts) = TOTAL_BPS
      /\ Cardinality({w \in Accounts : share'[w] > 0}) <= MAX_BENEFICIARIES
  BY <1>1, <1>2, ValidListIsMap
<1>4. Registry!TotalShareBps' = TOTAL_BPS
  BY <1>3, RegistrySum DEF Registry!TotalShareBps, SumFunction
<1>5. Cardinality(Registry!Wallets') <= MAX_BENEFICIARIES
  BY <1>3 DEF Registry!Wallets
<1> QED BY <1>3, <1>4, <1>5, RegistryCardinality DEF Registry!Next

LEMMA ShareSteps ==
    ASSUME TypeOK, [Next]_vars
    PROVE  [Registry!Next]_share
<1>1. ASSUME NEW caller \in Accounts, NEW w \in WalletInputs, NEW bps \in ShareInputs,
             AddBeneficiary(caller, w, bps)
      PROVE  Registry!Next
  <2>1. Registry!Add(w, bps) /\ bps \in Nat
    BY <1>1, InputAssumption DEF AddBeneficiary
  <2>2. w \in Accounts /\ bps \in 1 .. TOTAL_BPS
    BY <2>1, RulesAssumption DEF Registry!Add
  <2> QED BY <2>1, <2>2 DEF Registry!Next
<1>2. ASSUME NEW caller \in Accounts, NEW w \in WalletInputs, RemoveBeneficiary(caller, w)
      PROVE  Registry!Next
  BY <1>2 DEF RemoveBeneficiary, Registry!Remove, Registry!Next
<1>3. ASSUME NEW m \in Signed["SetBeneficiaries"], SetBeneficiariesBySig(m)
      PROVE  Registry!Next
  BY <1>3, SignedAssumption, ReplaceIsComplete DEF SetBeneficiariesBySig
<1>4. ASSUME NEW caller \in Accounts, NEW plan \in Plans, InitializePlan(caller, plan)
      PROVE  Registry!Next
  <2>1. plan.wallets \in Seq(Addresses) /\ plan.shares \in Seq(Nat)
    BY InputAssumption
  <2> QED BY <1>4, <2>1, ReplaceIsComplete DEF InitializePlan
<1>5. CASE ConfigStep
  BY <1>1, <1>2, <1>3, <1>4, <1>5
  DEF ConfigStep, SetTrackedTokens, SetSafeVault, RegisterRecoveryKey, TransferOwnership,
      AcceptOwnership, SetTrackedTokensBySig, SetSafeVaultBySig, RotateRecoveryKey,
      SetRecoveryConfigBySig, policyVars
<1>6. CASE LivenessStep
  BY <1>6 DEF LivenessStep, Heartbeat, CancelInheritance, SetLivenessConfig, ToggleLiveness,
              HeartbeatBySig, SetLivenessConfigBySig
<1>7. CASE EstateStep
  BY <1>7, EstateActions
  DEF ExecuteInheritance, ExecuteInheritanceERC20, Withdraw, ClaimToken, Evacuate,
      EvacuateToken, PanicButton, policyVars
<1>8. CASE EnvironmentStep
  BY <1>8 DEF EnvironmentStep, Deposit, Approve, OwnerHolds, policyVars
<1>9. CASE Tick \/ UNCHANGED vars
  BY <1>9 DEF Tick, vars, policyVars
<1> QED BY <1>5, <1>6, <1>7, <1>8, <1>9 DEF Next

\* Every change of the shares, direct, signed or at the bootstrap, is one
\* the abstract registry allows: an addition within 100%, a removal that
\* leaves the others alone, or a complete allocation installed at once.
THEOREM SharesFollowRegistry == Spec => [][Registry!Next]_share
<1>1. TypeOK /\ [Next]_vars => [Registry!Next]_share
  BY ShareSteps
<1> QED BY TypeCorrect, <1>1, PTL DEF Spec
=============================================================================
