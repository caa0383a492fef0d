------------------------------- MODULE Telegram -------------------------------
(***************************************************************************)
(* Telegram linking and notifications of the dashboard server: one-time    *)
(* link sessions, the active links they become, and the deliveries sent to *)
(* the account linked with a wallet.  Every request is an asynchronous     *)
(* handler that awaits the database, the plan registry or the Bot API      *)
(* between its steps, so requests interleave at those points.  A database  *)
(* statement is one step; the activation transaction is two, with the      *)
(* account row locked in between.                                          *)
(***************************************************************************)
EXTENDS Naturals, FiniteSets

CONSTANTS
    Owners,         \* wallets
    Notified,       \* the wallets an event happens to
    Users,          \* Telegram accounts
    Sessions,       \* link session ids, which are also the ids of the links
    Requests,       \* requests the server handles at the same time
    NoUser,
    WalletLimit,    \* walletLimitForTelegramUser()
    MaxAttempts,    \* attempts after which no retry is scheduled
    NoOwner,
    MaxCrashes      \* bound: requests that die

ASSUME TelegramAssumption ==
    /\ NoUser \notin Users /\ NoOwner \notin Owners /\ Notified \subseteq Owners
    /\ {WalletLimit, MaxAttempts} \subseteq Nat \ {0}
    /\ MaxCrashes \in Nat

VARIABLES
    session,    \* telegram_link_sessions
    active,     \* telegram_wallet_links that are not revoked
    delivery,   \* telegram_deliveries: one event per wallet
    inbox,      \* messages of that event Telegram delivered before any attempt
                \* was answered with a failure
    request,    \* what each request being handled has read and does next
    crashes,    \* how many requests have died
    lost        \* wallets whose event was reserved by a request that died
vars == <<session, active, delivery, inbox, request, crashes, lost>>

Links == [id : Sessions, owner : Owners, user : Users]
Idle == [at |-> "idle"]
At(r, places) == request[r].at \in places
Finish(r) == request' = [request EXCEPT ![r] = Idle]
Continue(r, place) == request' = [request EXCEPT ![r].at = place]
Receive(r, q) == request[r] = Idle /\ request' = [request EXCEPT ![r] = q]

TypeOK ==
    /\ session \in [Sessions -> [state : {"none", "pending", "detected", "consumed"},
                                 owner : Owners \cup {NoOwner}, user : Users \cup {NoUser}]]
    /\ active \subseteq Links
    /\ delivery \in [Notified -> [status : {"none", "pending", "sent", "failed", "suppressed"},
                                attempts : 0 .. MaxAttempts, retry : {"none", "later", "due"}]]
    /\ inbox \in [Notified -> {"none", "once", "twice", "failure"}]
    /\ \A r \in Requests : request[r] = Idle \/ request[r].at \in
           {"attach", "registry", "activate", "insert", "revoke",
            "reserve", "lookup", "send", "sent", "failed", "suppress"}
    /\ crashes \in 0 .. MaxCrashes
    /\ lost \subseteq Notified

Init ==
    /\ session = [s \in Sessions |-> [state |-> "none", owner |-> NoOwner, user |-> NoUser]]
    /\ active = {}
    /\ delivery = [o \in Notified |-> [status |-> "none", attempts |-> 0, retry |-> "none"]]
    /\ inbox = [o \in Notified |-> "none"]
    /\ request = [r \in Requests |-> Idle]
    /\ crashes = 0
    /\ lost = {}

Linking == <<session, active>>
Messaging == <<delivery, inbox>>

-----------------------------------------------------------------------------
\* The clock.  A session or signature that expires is one no request names any
\* more: the activation itself does not look at the deadline again.

BackoffElapses(o) ==
    /\ delivery[o].retry = "later"
    /\ delivery' = [delivery EXCEPT ![o].retry = "due"]
    /\ UNCHANGED <<Linking, inbox, request, crashes, lost>>

Attempting(r, o) ==
    At(r, {"lookup", "send", "sent", "failed", "suppress"}) /\ request[r].owner = o

\* A request is cut off: a transaction it holds open is rolled back, and a
\* delivery it reserved stays pending.
Crash(r) ==
    /\ crashes < MaxCrashes /\ crashes' = crashes + 1
    /\ request[r] # Idle /\ Finish(r)
    /\ lost' = lost \cup {o \in Notified : Attempting(r, o) /\ delivery[o].status = "pending"}
    /\ UNCHANGED <<Linking, Messaging>>

-----------------------------------------------------------------------------
\* Link sessions.

CreateLinkSession(s, o) ==
    /\ session[s].state = "none"
    /\ session' = [session EXCEPT ![s].state = "pending", ![s].owner = o]
    /\ UNCHANGED <<active, Messaging, request, crashes, lost>>

\* /start with the token of the session, from account u.  A session already
\* detected answers the same account and refuses any other: nothing to do.
AttachTelegramIdentity(r, s, u) ==
    /\ session[s].state = "pending"
    /\ Receive(r, [at |-> "attach", id |-> s, user |-> u])
    /\ UNCHANGED <<Linking, Messaging, crashes, lost>>

\* UPDATE ... WHERE state = 'pending'
Undetected(s) == session[s].state = "pending"

DetectTelegramAccount(r) ==
    LET s == request[r].id IN
    /\ At(r, {"attach"}) /\ Finish(r)
    /\ session' = IF Undetected(s)
                  THEN [session EXCEPT ![s].state = "detected", ![s].user = request[r].user]
                  ELSE session
    /\ UNCHANGED <<active, Messaging, crashes, lost>>

-----------------------------------------------------------------------------
\* Linking.  The signature of the session's owner names account u.

LinkMatchesSession(s, u) == session[s].state = "detected" /\ session[s].user = u

LinkWallet(r, s, u) ==
    /\ LinkMatchesSession(s, u)
    /\ Receive(r, [at |-> "registry", op |-> "link", id |-> s,
                   owner |-> session[s].owner, user |-> u])
    /\ UNCHANGED <<Linking, Messaging, crashes, lost>>

LinkOf(o) == {l \in active : l.owner = o}
ActiveLinks(u) == {l \in active : l.user = u}

FreeOfLocks(u) == TRUE              \* mutant: the row is not locked

\* SELECT ... FOR UPDATE of the account row, held until the transaction ends.
AccountFree(u) == \A r \in Requests : ~(At(r, {"insert"}) /\ request[r].user = u)

ConsumedIgnored(q) == FALSE         \* mutant: the session is not read again

\* The session as the transaction reads it, with the account row locked.
Consumed(q) == session[q.id].state = "consumed"

\* The reads of the transaction and the outcomes that insert nothing.
ActivateLink(r) ==
    LET q == request[r]
        taken == LinkOf(q.owner)
    IN
    /\ At(r, {"activate"}) /\ AccountFree(q.user)
    /\ IF Consumed(q)
       THEN Finish(r) /\ UNCHANGED session
       ELSE IF taken # {}
       THEN /\ Finish(r)
            /\ session' = IF \E l \in taken : l.user = q.user
                          THEN [session EXCEPT ![q.id].state = "consumed"] ELSE session
       ELSE IF Cardinality(ActiveLinks(q.user)) >= WalletLimit
       THEN Finish(r) /\ UNCHANGED session
       ELSE Continue(r, "insert") /\ UNCHANGED session
    /\ UNCHANGED <<active, Messaging, crashes, lost>>

\* telegram_wallet_links_active_wallet_unique.  The primary key is the id of the
\* session, which no earlier link has (SessionsLinkOnce).
Insertable(q) == LinkOf(q.owner) = {}

InsertLink(r) ==
    LET q == request[r] IN
    /\ At(r, {"insert"}) /\ Finish(r)
    /\ IF Insertable(q)
       THEN /\ active' = active \cup {[id |-> q.id, owner |-> q.owner, user |-> q.user]}
            /\ session' = [session EXCEPT ![q.id].state = "consumed"]
       ELSE UNCHANGED <<active, session>>
    /\ UNCHANGED <<Messaging, crashes, lost>>

\* The factory registry answers a request that awaits it: the wallet has the
\* plan the request needs, the linked one for an unlink or a test, or it is
\* refused.
ReadRegisteredPlan(r) ==
    LET q == request[r] IN
    /\ At(r, {"registry"})
    /\ \/ /\ q.op = "link"
          /\ request' = [request EXCEPT ![r] = [at |-> "activate", id |-> q.id,
                                                owner |-> q.owner, user |-> q.user]]
       \/ /\ q.op = "unlink"
          /\ request' = [request EXCEPT ![r] = [at |-> "revoke", owner |-> q.owner, user |-> NoUser]]
       \/ /\ q.op = "notify"
          /\ request' = [request EXCEPT ![r] = [at |-> "reserve", owner |-> q.owner]]
       \/ Finish(r)
    /\ UNCHANGED <<Linking, Messaging, crashes, lost>>

-----------------------------------------------------------------------------
\* Unlinking.  The dashboard request is signed by the owner for one link id,
\* which is compared here and not looked at again; the bot names a link of the
\* account that pressed the button.

UnlinkFromDashboard(r, l) ==
    /\ l \in active
    /\ Receive(r, [at |-> "registry", op |-> "unlink", owner |-> l.owner])
    /\ UNCHANGED <<Linking, Messaging, crashes, lost>>

UnlinkFromTelegram(r, l) ==
    /\ l \in active
    /\ Receive(r, [at |-> "revoke", owner |-> l.owner, user |-> l.user])
    /\ UNCHANGED <<Linking, Messaging, crashes, lost>>

\* The rows of the UPDATE: any account's link when none is given.
Revoked(q) == {l \in LinkOf(q.owner) : q.user \in {NoUser, l.user}}

RevokeLink(r) ==
    /\ At(r, {"revoke"}) /\ Finish(r)
    /\ active' = active \ Revoked(request[r])
    /\ UNCHANGED <<session, Messaging, crashes, lost>>

-----------------------------------------------------------------------------
\* Deliveries.  A route or KeeperHub posts the wallet's event, once or again.

NotifyVerifiedAction(r, o) ==
    /\ Receive(r, [at |-> "reserve", owner |-> o])
    /\ UNCHANGED <<Linking, Messaging, crashes, lost>>

\* An event of KeeperHub is checked against the registry and its receipt first.
HandleKeeperHubEvent(r, o) ==
    /\ Receive(r, [at |-> "registry", op |-> "notify", owner |-> o])
    /\ UNCHANGED <<Linking, Messaging, crashes, lost>>

\* So is a test alert, which the owner signed for the active link it names.
SendTest(r, l) ==
    /\ l \in active /\ l.owner \in Notified
    /\ Receive(r, [at |-> "registry", op |-> "notify", owner |-> l.owner])
    /\ UNCHANGED <<Linking, Messaging, crashes, lost>>

RetryPending(d) == d.status \in {"pending", "failed"}      \* mutant

RetryIsDue(d) == d.status = "failed" /\ d.retry = "due"

\* INSERT ... ON CONFLICT DO NOTHING, else the row as it is now.
ReserveDelivery(r) ==
    LET o == request[r].owner
        attempt == [at |-> "lookup", owner |-> o, attempts |-> delivery[o].attempts]
    IN
    /\ At(r, {"reserve"})
    /\ IF delivery[o].status = "none"
       THEN /\ delivery' = [delivery EXCEPT ![o].status = "pending"]
            /\ request' = [request EXCEPT ![r] = attempt]
       ELSE /\ IF RetryIsDue(delivery[o])
               THEN request' = [request EXCEPT ![r] = attempt] ELSE Finish(r)
            /\ UNCHANGED delivery
    /\ UNCHANGED <<Linking, inbox, crashes, lost>>

FindActiveRecipient(r) ==
    /\ At(r, {"lookup"})
    /\ Continue(r, IF LinkOf(request[r].owner) = {} THEN "suppress" ELSE "send")
    /\ UNCHANGED <<Linking, Messaging, crashes, lost>>

\* sendMessage: an answer that is lost or times out is a failure to the
\* server, whether or not the message reached the chat.
SendTelegram(r) ==
    LET o == request[r].owner IN
    /\ At(r, {"send"})
    /\ \E answer \in {"sent", "failed"} :
          /\ Continue(r, answer)
          /\ inbox' = [inbox EXCEPT ![o] = IF answer = "failed" \/ @ = "failure" THEN "failure"
                                           ELSE IF @ = "none" THEN "once" ELSE "twice"]
    /\ UNCHANGED <<Linking, delivery, crashes, lost>>

\* Mutant: an abandoned delivery gets a status the schema does not know.
OutcomeExpiring(r) ==
    LET q == request[r] IN
    [status |-> IF q.at = "failed" /\ q.attempts + 1 >= MaxAttempts THEN "expired" ELSE q.at,
     attempts |-> q.attempts, retry |-> "later"]

\* UPDATE by key, whatever the row holds by now; attempts count from the row
\* that was read, up to MaxAttempts here.  After the last attempt nextAttemptAt
\* is undefined, which leaves the column as it was.
Outcome(r) ==
    LET q == request[r]
        row == delivery[q.owner]
        last == q.attempts + 1 >= MaxAttempts
        attempts == IF last THEN MaxAttempts ELSE q.attempts + 1
    IN
    CASE q.at = "sent"     -> [row EXCEPT !.status = "sent", !.attempts = attempts]
      [] q.at = "failed"   -> [status |-> "failed", attempts |-> attempts,
                               retry |-> IF last THEN row.retry ELSE "later"]
      [] q.at = "suppress" -> [row EXCEPT !.status = "suppressed", !.attempts = q.attempts]

\* Mutant: a failure is not recorded.
UpdateSentOnly(r) ==
    /\ At(r, {"sent", "failed", "suppress"}) /\ Finish(r)
    /\ delivery' = IF request[r].at = "sent"
                   THEN [delivery EXCEPT ![request[r].owner] = Outcome(r)] ELSE delivery
    /\ UNCHANGED <<Linking, inbox, crashes, lost>>

UpdateDelivery(r) ==
    /\ At(r, {"sent", "failed", "suppress"}) /\ Finish(r)
    /\ delivery' = [delivery EXCEPT ![request[r].owner] = Outcome(r)]
    /\ UNCHANGED <<Linking, inbox, crashes, lost>>

-----------------------------------------------------------------------------
\* An update of the bot; read-only commands and updates of group chats are no
\* step.  A rejected update is delivered again.
Update(r) ==
    \/ \E s \in Sessions, u \in Users : AttachTelegramIdentity(r, s, u)
    \/ \E l \in active : UnlinkFromTelegram(r, l)
Post(r) ==
    \/ \E s \in Sessions, u \in Users : LinkWallet(r, s, u)
    \/ \E l \in active : UnlinkFromDashboard(r, l) \/ SendTest(r, l)
    \/ \E o \in Notified : NotifyVerifiedAction(r, o) \/ HandleKeeperHubEvent(r, o)
Serve(r) ==
    \/ DetectTelegramAccount(r) \/ ReadRegisteredPlan(r) \/ ActivateLink(r) \/ InsertLink(r)
    \/ RevokeLink(r)
    \/ ReserveDelivery(r) \/ FindActiveRecipient(r) \/ SendTelegram(r) \/ UpdateDelivery(r)
Next ==
    \/ \E r \in Requests : Update(r) \/ Post(r) \/ Serve(r) \/ Crash(r)
    \/ \E s \in Sessions, o \in Owners : CreateLinkSession(s, o)
    \/ \E o \in Notified : BackoffElapses(o)

\* The event loop goes on with every request it has accepted.
Spec == Init /\ [][Next]_vars /\ \A r \in Requests : WF_vars(Serve(r))

-----------------------------------------------------------------------------
\* A wallet alerts one account, an account watches no more wallets than its
\* limit, and every active link names the owner and the account of the session
\* that made it, which no other request can use again (activateLink, with the
\* account row lock, the unique index and the one-time session).
LinksAreBounded ==
    /\ \A o \in Owners : Cardinality(LinkOf(o)) <= 1
    /\ \A u \in Users : Cardinality(ActiveLinks(u)) <= WalletLimit
    /\ \A l \in active :
          /\ session[l.id].state = "consumed"
          /\ session[l.id].owner = l.owner /\ session[l.id].user = l.user

\* A session links at most once: a request to link that is sent again, raced or
\* late, inserts nothing after an unlink, whether the session was used up by a
\* link of its own or found its wallet linked already.  The insertion does not
\* read the session again, so all rests on the row lock (activateLink).
SessionsLinkOnce ==
    [][\A l \in active' \ active : session[l.id].state # "consumed"]_vars

\* The chat gets a second message of one event only after an attempt was
\* answered with a failure: posting the event again, from any request, sends
\* nothing while an attempt is under way or after it succeeded (deliver).
OneMessageUnlessFailed == \A o \in Notified : inbox[o] # "twice"

\* A delivery that was reserved settles, though no account is linked, the Bot
\* API refuses or its answer is lost, unless the request that reserved it died
\* (attemptDelivery).
DeliverySettles ==
    \A o \in Notified :
       delivery[o].status = "pending" ~> (delivery[o].status # "pending" \/ o \in lost)

=============================================================================
