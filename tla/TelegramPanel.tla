---------------------------- MODULE TelegramPanel ----------------------------
(***************************************************************************)
(* The panel that links a wallet to a Telegram account.  It restores the   *)
(* link of the connected wallet from the browser session, drops the answer *)
(* of a restore begun for another wallet, polls a link session until the   *)
(* account is detected, and runs one signed operation at a time, whose     *)
(* answer lands in the panel whoever is connected by then.                 *)
(***************************************************************************)
EXTENDS Session

CONSTANTS Nobody, MaxRestores

VARIABLES
    panel,          \* [kind, owner, by]: what is shown, whose, from what
    restores,       \* [state, owner, current] of the restores in flight
    operation,      \* [kind, owner, link] of the one that keeps the panel busy
    poll,           \* the owner of the link session a poll asks for
    linked,         \* owners linked on the server
    cookie          \* owners whose browser session the server accepts
telegram == <<panel, restores, operation, poll, linked, cookie>>

Panel(kind, owner, by) == [kind |-> kind, owner |-> owner, by |-> by]
Restoring == Panel("restoring", Nobody, "start")
NotConnected == Panel("not-connected", Nobody, "start")
IdleRestore == [state |-> "idle", owner |-> Nobody, current |-> FALSE]
NoOperation == [kind |-> "none", owner |-> Nobody, link |-> Nobody]

\* mutant: the clean-up forgets the restore in flight
StillCurrent(rs) == rs

\* the clean-up of the effect
Abandon(rs) == [i \in DOMAIN rs |-> [rs[i] EXCEPT !.current = FALSE]]

\* the effect: a new restore for the wallet
Restore(owner) ==
    /\ panel' = Restoring
    /\ LET rs == Abandon(restores) IN
           \E i \in DOMAIN rs :
               /\ rs[i].state = "idle"
               /\ restores' = [rs EXCEPT ![i] = [state |-> "sent", owner |-> owner, current |-> TRUE]]

TelegramSession ==
    /\ SwitchWallet
    /\ Restore(wallet')
    /\ UNCHANGED <<operation, poll, linked, cookie>>
RetryRestore ==
    /\ panel.kind = "restore-error" /\ operation.kind = "none"
    /\ Restore(wallet)
    /\ UNCHANGED <<session, operation, poll, linked, cookie>>

\* the server's answer: the link, no session, or an error
RestoreAnswered(i) ==
    LET r == restores[i]
        found == IF r.owner \in linked \cap cookie THEN Panel("connected", r.owner, "restore")
                 ELSE NotConnected IN
    /\ r.state = "sent"
    /\ IF r.current THEN panel' \in {found, Panel("restore-error", Nobody, "start")}
       ELSE UNCHANGED panel
    /\ restores' = [restores EXCEPT ![i] = IdleRestore]
    /\ UNCHANGED <<session, operation, poll, linked, cookie>>

-----------------------------------------------------------------------------
(* Operations                                                              *)

\* run: the buttons are disabled until the operation ends
Run(kind, link) ==
    /\ operation.kind = "none"
    /\ operation' = [kind |-> kind, owner |-> wallet, link |-> link]
    /\ UNCHANGED <<session, panel, restores, poll, linked, cookie>>

ConnectTelegram    == panel.kind = "not-connected" /\ Run("connect", Nobody)
ManageTelegramLink == panel.kind = "not-connected" /\ Run("manage", Nobody)
SignTelegramLink   == panel.kind = "waiting-signature" /\ Run("sign", panel.owner)
RunTest            == panel.kind = "connected" /\ Run("test", panel.owner)
RunUnlink          == panel.kind = "connected" /\ Run("unlink", panel.owner)
Reset ==
    /\ panel.kind = "waiting-telegram" /\ operation.kind = "none"
    /\ panel' = NotConnected
    /\ UNCHANGED <<session, restores, operation, poll, linked, cookie>>

\* what the server did, by the wallet that signed, and what the panel shows of it
OperationSucceeds ==
    LET o == operation IN
    /\ operation' = NoOperation
    /\ \/ /\ o.kind = "connect"
          /\ panel' = Panel("waiting-telegram", o.owner, "operation")
          /\ UNCHANGED <<linked, cookie>>
       \/ /\ o.kind = "sign" /\ o.owner = o.link
          /\ linked' = linked \cup {o.owner} /\ cookie' = cookie \cup {o.owner}
          /\ panel' = Panel("connected", o.owner, "operation")
       \/ /\ o.kind = "manage" /\ o.owner \in linked
          /\ cookie' = cookie \cup {o.owner}
          /\ panel' = Panel("connected", o.owner, "operation")
          /\ UNCHANGED linked
       \/ /\ o.kind = "test" /\ o.owner = o.link /\ o.owner \in linked
          /\ UNCHANGED <<panel, linked, cookie>>
       \/ /\ o.kind = "unlink" /\ o.owner = o.link /\ o.owner \in linked
          /\ linked' = linked \ {o.owner} /\ cookie' = cookie \ {o.owner}
          /\ panel' = NotConnected
    /\ UNCHANGED <<session, restores, poll>>
\* the wallet refuses, or the request fails
OperationFails ==
    /\ operation.kind # "none"
    /\ operation' = NoOperation
    /\ UNCHANGED <<session, panel, restores, poll, linked, cookie>>

-----------------------------------------------------------------------------
(* Detection, every two seconds while a link session waits                 *)

Poll ==
    /\ panel.kind = "waiting-telegram" /\ poll = Nobody
    /\ poll' = panel.owner
    /\ UNCHANGED <<session, panel, restores, operation, linked, cookie>>
\* the account is detected, not yet, or the session is over
PollAnswered ==
    /\ poll # Nobody
    /\ panel' \in {panel, Panel("waiting-signature", poll, "poll"), NotConnected}
    /\ poll' = Nobody
    /\ UNCHANGED <<session, restores, operation, linked, cookie>>

\* a link is revoked in the chat, and a session expires
RevokedElsewhere ==
    /\ \/ \E owner \in linked : linked' = linked \ {owner} /\ UNCHANGED cookie
       \/ \E owner \in cookie : cookie' = cookie \ {owner} /\ UNCHANGED linked
    /\ UNCHANGED <<session, panel, restores, operation, poll>>

TelegramInit ==
    /\ panel = Restoring
    /\ restores = [i \in 1 .. MaxRestores |->
                      IF i = 1 THEN [state |-> "sent", owner |-> wallet, current |-> TRUE]
                      ELSE IdleRestore]
    /\ operation = NoOperation /\ poll = Nobody
    /\ linked \in SUBSET Owners /\ cookie \in SUBSET linked

TelegramNext ==
    \/ TelegramSession \/ RetryRestore \/ \E i \in DOMAIN restores : RestoreAnswered(i)
    \/ ConnectTelegram \/ ManageTelegramLink \/ SignTelegramLink \/ RunTest \/ RunUnlink \/ Reset
    \/ OperationSucceeds \/ OperationFails \/ Poll \/ PollAnswered \/ RevokedElsewhere

\* The link a restore brought is the connected wallet's, over any change of
\* wallet while restores are in flight.
RestoredLinkIsOwn == panel.by = "restore" => panel.owner = wallet
=============================================================================
