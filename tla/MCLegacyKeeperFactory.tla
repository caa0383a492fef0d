------------------------ MODULE MCLegacyKeeperFactory ------------------------
(***************************************************************************)
(* Two wallets, o and n, and an observer k: valid and invalid plans, and   *)
(* signatures that are expired, share a nonce, or speak for somebody else. *)
(***************************************************************************)
EXTENDS LegacyKeeperFactory

CONSTANTS o, n, k, v

Config(shares, key) ==
    [settings |-> [heartbeatInterval |-> 1, timeoutDuration |-> 1, gracePeriod |-> 0],
     wallets |-> <<k>>, shares |-> shares, recoveryKey |-> key, safeVault |-> v,
     allowSharedRecovery |-> FALSE, tokens |-> <<>>]

Complete   == Config(<<2>>, k)
Incomplete == Config(<<1>>, k)
OtherKey   == Config(<<2>>, n)

MCConfigs == {Complete, Incomplete, OtherKey}

Creation(owner, config, nonce, deadline, signer) ==
    [owner |-> owner, config |-> config, nonce |-> nonce, deadline |-> deadline,
     signer |-> signer]

MCSignatures ==
    {Creation(o, Complete, 1, 3, o), Creation(o, Incomplete, 2, 3, o),
     Creation(o, OtherKey, 1, 2, o), Creation(n, Complete, 1, 3, n),
     Creation(n, OtherKey, 2, 3, n), Creation(n, Complete, 3, 1, n),
     Creation(o, OtherKey, 3, 3, n)}
=============================================================================
