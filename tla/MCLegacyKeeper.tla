--------------------------- MODULE MCLegacyKeeper ---------------------------
(***************************************************************************)
(* Instances for TLC.  o owns the plan and n is the next owner; a and b    *)
(* inherit; k and l are recovery keys, v and u vaults; t is a token.  Each *)
(* run enlarges the inputs its question is about and closes the others.    *)
(***************************************************************************)
EXTENDS LegacyKeeper

CONSTANTS o, n, a, b, k, l, v, u, t

Timing(interval, timeout, grace) ==
    [heartbeatInterval |-> interval, timeoutDuration |-> timeout, gracePeriod |-> grace]

PlanOf(settings, wallets, shares, key, safeVault, shared, tokens) ==
    [owner |-> o, settings |-> settings, wallets |-> wallets, shares |-> shares,
     recoveryKey |-> key, safeVault |-> safeVault, allowSharedRecovery |-> shared,
     tokens |-> tokens]

By(signer, nonce) == [nonce |-> nonce, deadline |-> MaxTime, signer |-> signer]

NoSignatures == [kind \in Kinds |-> {}]

Brief == Timing(1, 1, 1)
-----------------------------------------------------------------------------
(* Native ether: shares 1/3 and 2/3, so portions round down.               *)

NativePlans == {PlanOf(Brief, <<a, b>>, <<1, 2>>, k, v, FALSE, <<>>)}

NativeSigned ==
    [NoSignatures EXCEPT
        !["Evacuate"] = {By(k, 1)},
        !["Heartbeat"] = {By(o, 2), By(a, 3)},
        !["SetLivenessConfig"] =
            {[settings |-> Timing(1, MaxU64, 1), nonce |-> 1, deadline |-> 3, signer |-> o]},
        !["SetBeneficiaries"] =
            {[wallets |-> <<b>>, shares |-> <<3>>, nonce |-> 1, deadline |-> 2, signer |-> o]}]
-----------------------------------------------------------------------------
(* Tokens, with the lists that drop and repeat t.                          *)

TokenPlans == {PlanOf(Brief, <<a, b>>, <<1, 2>>, k, v, FALSE, <<t>>)}

TokenSigned ==
    [NoSignatures EXCEPT !["Evacuate"] = {By(k, 1)}]

MCTokenLists == {<<>>, <<t, t>>}
-----------------------------------------------------------------------------
(* Periods at the edge of uint64, and two that no policy may have.         *)

ClockSettings == {Timing(0, 1, 1), Timing(1, 0, 1), Timing(2, 2, 0),
                  Timing(1, 3, MaxU64)}
-----------------------------------------------------------------------------
(* Keys, vaults and owners: two keys sign every change, from both sides.   *)

AuthorityPlans ==
    {PlanOf(Brief, <<a>>, <<1>>, k, v, FALSE, <<>>),
     PlanOf(Brief, <<a>>, <<1>>, v, v, TRUE, <<>>)}

Rotate(newKey, nonce, signer) ==
    [newKey |-> newKey, nonce |-> nonce, deadline |-> MaxTime, signer |-> signer]
Redirect(newVault, nonce, signer) ==
    [newVault |-> newVault, nonce |-> nonce, deadline |-> MaxTime, signer |-> signer]
Recover(key, safeVault, shared, nonce, signer) ==
    [recoveryKey |-> key, safeVault |-> safeVault, allowSharedRecovery |-> shared,
     nonce |-> nonce, deadline |-> 2, signer |-> signer]

AuthoritySigned ==
    [NoSignatures EXCEPT
        !["RotateRecoveryKey"] =
            {Rotate(l, 1, k), Rotate(k, 2, l), Rotate(v, 3, k), Rotate(None, 4, k),
             Rotate(o, 5, k)},
        !["SetSafeVault"] =
            {Redirect(u, 1, k), Redirect(k, 6, k), Redirect(l, 2, k), Redirect(u, 7, o)},
        !["SetRecoveryConfig"] =
            {Recover(l, v, FALSE, 1, o), Recover(u, u, TRUE, 2, k),
             Recover(u, u, FALSE, 3, l)},
        !["SetTrackedTokens"] =
            {[tokens |-> <<>>, nonce |-> 1, deadline |-> MaxTime, signer |-> o]},
        !["Panic"] = {By(k, 1)},
        !["Evacuate"] = {By(k, 1), By(l, 3)}]
=============================================================================
