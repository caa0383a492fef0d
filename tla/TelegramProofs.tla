---------------------------- MODULE TelegramProofs ----------------------------
(***************************************************************************)
(* Theorems about linking and notification for any number of wallets,      *)
(* accounts, sessions and requests, any limit and any number of deaths.    *)
(***************************************************************************)
EXTENDS Telegram, FiniteSetTheorems, TLAPS

\* What a request carries at each place.
LinkRequests == [at : {"activate", "insert"}, id : Sessions, owner : Owners, user : Users]
Attempts ==
    [at : {"lookup", "send", "sent", "failed", "suppress"}, owner : Notified,
     attempts : 0 .. MaxAttempts]
AllRequests ==
    {Idle}
    \cup [at : {"attach"}, id : Sessions, user : Users]
    \cup [at : {"registry"}, op : {"link"}, id : Sessions, owner : Owners, user : Users]
    \cup [at : {"registry"}, op : {"unlink"}, owner : Owners]
    \cup [at : {"registry"}, op : {"notify"}, owner : Notified]
    \cup LinkRequests
    \cup [at : {"revoke"}, owner : Owners, user : Users \cup {NoUser}]
    \cup [at : {"reserve"}, owner : Notified]
    \cup Attempts

\* A session that was created has an owner, one that was detected an account.
SessionsAreOwned ==
    \A s \in Sessions :
        /\ session[s].state # "none" => session[s].owner \in Owners
        /\ session[s].state \in {"detected", "consumed"} => session[s].user \in Users

SessionRows == [state : {"none", "pending", "detected", "consumed"},
                owner : Owners \cup {NoOwner}, user : Users \cup {NoUser}]
DeliveryRows == [status : {"none", "pending", "sent", "failed", "suppressed"},
                 attempts : 0 .. MaxAttempts, retry : {"none", "later", "due"}]

TypeInv ==
    /\ session \in [Sessions -> SessionRows]
    /\ SessionsAreOwned
    /\ active \subseteq Links
    /\ delivery \in [Notified -> DeliveryRows]
    /\ inbox \in [Notified -> {"none", "once", "twice", "failure"}]
    /\ request \in [Requests -> AllRequests]
    /\ crashes \in 0 .. MaxCrashes
    /\ lost \subseteq Notified

\* A request that links names owner and account of its session.
Claims(r) == At(r, {"activate", "insert"}) \/ (At(r, {"registry"}) /\ request[r].op = "link")
LinkRequestsMatch ==
    \A r \in Requests : Claims(r) =>
        LET q == request[r] IN
        /\ session[q.id].state \in {"detected", "consumed"}
        /\ session[q.id].owner = q.owner
        /\ session[q.id].user = q.user

\* A transaction that is about to insert holds the row of its account, which
\* has room for one more wallet.
InsertionsAreAlone ==
    \A r \in Requests : At(r, {"insert"}) =>
        /\ Cardinality(ActiveLinks(request[r].user)) < WalletLimit
        /\ \A p \in Requests :
              At(p, {"insert"}) /\ request[p].user = request[r].user => p = r

\* Two links of one wallet are one link.
OneLinkPerWallet == \A l, m \in active : l.owner = m.owner => l = m

LinksInv ==
    /\ IsFiniteSet(active) /\ OneLinkPerWallet
    /\ LinkRequestsMatch /\ InsertionsAreAlone
    /\ \A u \in Users : Cardinality(ActiveLinks(u)) <= WalletLimit
    /\ \A l \in active :
          /\ session[l.id].state = "consumed"
          /\ session[l.id].owner = l.owner /\ session[l.id].user = l.user

\* Unless an attempt was answered with a failure, at most one request attempts
\* a delivery, the one that reserved it, and it sends nothing after a message.
OneAttempt ==
    \A o \in Notified : inbox[o] # "failure" =>
        /\ inbox[o] # "twice"
        /\ delivery[o].status # "failed"
        /\ inbox[o] = "once" => delivery[o].status # "none"
        /\ \A r \in Requests : Attempting(r, o) =>
              /\ delivery[o].status = "pending"
              /\ ~At(r, {"failed"})
              /\ inbox[o] = "once" <=> At(r, {"sent"})
              /\ \A p \in Requests : Attempting(p, o) => p = r

\* A transaction that is about to insert read a session that was not used up,
\* and nobody else has used it up since.
InsertionsAreNew ==
    \A r \in Requests : At(r, {"insert"}) => ~Consumed(request[r])

IInv == TypeInv /\ LinksInv /\ InsertionsAreNew /\ OneAttempt
-----------------------------------------------------------------------------
(* Requests.                                                               *)

LEMMA PlacesType ==
    \A q \in AllRequests :
        q = Idle \/ q.at \in {"attach", "registry", "activate", "insert", "revoke",
                              "reserve", "lookup", "send", "sent", "failed", "suppress"}
BY DEF AllRequests, LinkRequests, Attempts

LEMMA LinkFields ==
    ASSUME TypeInv, NEW r \in Requests
    PROVE  /\ At(r, {"attach"}) => request[r].id \in Sessions /\ request[r].user \in Users
           /\ At(r, {"activate", "insert"}) =>
                 /\ request[r] \in LinkRequests
                 /\ request[r].id \in Sessions
                 /\ request[r].owner \in Owners
                 /\ request[r].user \in Users
           /\ At(r, {"registry"}) /\ request[r].op = "link" =>
                 /\ request[r].id \in Sessions
                 /\ request[r].owner \in Owners
                 /\ request[r].user \in Users
<1>1. request[r] \in AllRequests
  BY DEF TypeInv
<1> QED BY <1>1 DEF AllRequests, LinkRequests, Attempts, At, Idle

LEMMA OtherFields ==
    ASSUME TypeInv, NEW r \in Requests
    PROVE  /\ At(r, {"registry"}) => \/ request[r].op = "link"
                                     \/ request[r].op = "unlink" /\ request[r].owner \in Owners
                                     \/ request[r].op = "notify" /\ request[r].owner \in Notified
           /\ At(r, {"revoke"}) =>
                 request[r].owner \in Owners /\ request[r].user \in Users \cup {NoUser}
           /\ At(r, {"reserve"}) => request[r].owner \in Notified
<1>1. request[r] \in AllRequests
  BY DEF TypeInv
<1> QED BY <1>1 DEF AllRequests, LinkRequests, Attempts, At, Idle

LEMMA AttemptFields ==
    ASSUME TypeInv, NEW r \in Requests,
           At(r, {"lookup", "send", "sent", "failed", "suppress"})
    PROVE  /\ request[r] \in Attempts
           /\ request[r].owner \in Notified
           /\ request[r].attempts \in 0 .. MaxAttempts
<1>1. request[r] \in AllRequests
  BY DEF TypeInv
<1> QED BY <1>1 DEF AllRequests, LinkRequests, Attempts, At, Idle

LEMMA IdleType == Idle \in AllRequests
BY DEF AllRequests

\* Places without a claim on links, and a move of one request.
Move(r, q) == request' = [request EXCEPT ![r] = q]

LEMMA MoveType ==
    ASSUME TypeInv, NEW r \in Requests, NEW q \in AllRequests, Move(r, q)
    PROVE  /\ request' \in [Requests -> AllRequests]
           /\ request'[r] = q
           /\ \A p \in Requests : p # r => request'[p] = request[p]
BY DEF TypeInv, Move

LEMMA Unfinished ==
    ASSUME TypeInv, NEW r \in Requests, NEW places, At(r, places), "idle" \notin places
    PROVE  request[r] # Idle
BY DEF At, Idle
-----------------------------------------------------------------------------
(* Types.                                                                  *)

LEMMA TypeInvIsType == TypeInv => TypeOK
BY PlacesType DEF TypeInv, TypeOK, SessionRows, DeliveryRows

\* A request moves and the database stays, but for links that are revoked.
LEMMA MoveKeepsType ==
    ASSUME TypeInv, NEW r \in Requests, NEW q \in AllRequests, Move(r, q),
           UNCHANGED <<session, delivery, inbox, crashes, lost>>, active' \subseteq active
    PROVE  TypeInv'
<1>1. request' \in [Requests -> AllRequests]
  BY MoveType
<1> QED BY <1>1 DEF TypeInv, SessionsAreOwned

LEMMA InitType == Init => TypeInv
BY TelegramAssumption, IdleType DEF Init, TypeInv, SessionsAreOwned, SessionRows, DeliveryRows

LEMMA UpdateType ==
    ASSUME TypeInv, NEW r \in Requests, Update(r)
    PROVE  TypeInv'
<1>1. ASSUME NEW s \in Sessions, NEW u \in Users, AttachTelegramIdentity(r, s, u)
      PROVE  TypeInv'
  <2> DEFINE q == [at |-> "attach", id |-> s, user |-> u]
  <2>1. q \in AllRequests
    BY DEF AllRequests
  <2> QED BY <1>1, <2>1, MoveKeepsType
          DEF AttachTelegramIdentity, Receive, Move, Linking, Messaging
<1>2. ASSUME NEW l \in active, UnlinkFromTelegram(r, l)
      PROVE  TypeInv'
  <2> DEFINE q == [at |-> "revoke", owner |-> l.owner, user |-> l.user]
  <2>1. q \in AllRequests
    BY DEF TypeInv, AllRequests, Links
  <2> QED BY <1>2, <2>1, MoveKeepsType DEF UnlinkFromTelegram, Receive, Move, Linking, Messaging
<1> QED BY <1>1, <1>2 DEF Update

LEMMA PostType ==
    ASSUME TypeInv, NEW r \in Requests, Post(r)
    PROVE  TypeInv'
<1>1. ASSUME NEW s \in Sessions, NEW u \in Users, LinkWallet(r, s, u)
      PROVE  TypeInv'
  <2> DEFINE q == [at |-> "registry", op |-> "link", id |-> s, owner |-> session[s].owner,
                   user |-> u]
  <2>1. session[s].owner \in Owners
    BY <1>1 DEF TypeInv, LinkWallet, LinkMatchesSession, SessionsAreOwned
  <2>2. q \in AllRequests
    BY <2>1 DEF AllRequests
  <2> QED BY <1>1, <2>2, MoveKeepsType DEF LinkWallet, Receive, Move, Linking, Messaging
<1>2. ASSUME NEW l \in active, UnlinkFromDashboard(r, l)
      PROVE  TypeInv'
  <2> DEFINE q == [at |-> "registry", op |-> "unlink", owner |-> l.owner]
  <2>1. q \in AllRequests
    BY DEF TypeInv, AllRequests, Links
  <2> QED BY <1>2, <2>1, MoveKeepsType DEF UnlinkFromDashboard, Receive, Move, Linking, Messaging
<1>3. ASSUME NEW l \in active, SendTest(r, l)
      PROVE  TypeInv'
  <2> DEFINE q == [at |-> "registry", op |-> "notify", owner |-> l.owner]
  <2>1. q \in AllRequests
    BY <1>3 DEF SendTest, AllRequests
  <2> QED BY <1>3, <2>1, MoveKeepsType DEF SendTest, Receive, Move, Linking, Messaging
<1>4. ASSUME NEW o \in Notified, NotifyVerifiedAction(r, o)
      PROVE  TypeInv'
  <2> DEFINE q == [at |-> "reserve", owner |-> o]
  <2>1. q \in AllRequests
    BY DEF AllRequests
  <2> QED BY <1>4, <2>1, MoveKeepsType DEF NotifyVerifiedAction, Receive, Move, Linking, Messaging
<1>5. ASSUME NEW o \in Notified, HandleKeeperHubEvent(r, o)
      PROVE  TypeInv'
  <2> DEFINE q == [at |-> "registry", op |-> "notify", owner |-> o]
  <2>1. q \in AllRequests
    BY DEF AllRequests
  <2> QED BY <1>5, <2>1, MoveKeepsType DEF HandleKeeperHubEvent, Receive, Move, Linking, Messaging
<1> QED BY <1>1, <1>2, <1>3, <1>4, <1>5 DEF Post

\* What the handlers of links leave behind: the request goes where it may, and
\* a session only ever advances.
LEMMA SessionAdvances ==
    ASSUME TypeInv, NEW s \in Sessions, NEW row \in SessionRows,
           row.owner \in Owners,
           row.state \in {"detected", "consumed"} => row.user \in Users,
           session' = [session EXCEPT ![s] = row]
    PROVE  session' \in [Sessions -> SessionRows] /\ SessionsAreOwned'
BY DEF TypeInv, SessionsAreOwned

LEMMA DetectType ==
    ASSUME TypeInv, LinksInv, NEW r \in Requests, DetectTelegramAccount(r)
    PROVE  TypeInv'
<1> DEFINE s == request[r].id
<1>1. s \in Sessions /\ request[r].user \in Users
  BY LinkFields DEF DetectTelegramAccount
<1>2. request' \in [Requests -> AllRequests]
  BY IdleType, MoveType DEF DetectTelegramAccount, Finish, Move
<1>3. CASE Undetected(s)
  <2> DEFINE row == [session[s] EXCEPT !.state = "detected", !.user = request[r].user]
  <2>1. /\ session[s] \in SessionRows
        /\ session[s].owner \in Owners
    BY <1>1, <1>3 DEF TypeInv, Undetected, SessionsAreOwned
  <2>2. /\ row \in SessionRows
        /\ row.owner \in Owners
        /\ row.user \in Users
    BY <1>1, <2>1 DEF SessionRows
  <2>3. session' = [session EXCEPT ![s] = row]
    BY <1>1, <1>3 DEF TypeInv, DetectTelegramAccount
  <2>4. session' \in [Sessions -> SessionRows] /\ SessionsAreOwned'
    BY <1>1, <2>2, <2>3, SessionAdvances
  <2> QED BY <1>2, <2>4 DEF TypeInv, DetectTelegramAccount, Messaging
<1>4. CASE ~Undetected(s)
  BY <1>2, <1>4 DEF TypeInv, DetectTelegramAccount, Messaging, SessionsAreOwned
<1> QED BY <1>3, <1>4

\* The end of a session whose request names its owner and account.
LEMMA ConsumedType ==
    ASSUME TypeInv, LinksInv, NEW r \in Requests, At(r, {"activate", "insert"}),
           session' = [session EXCEPT ![request[r].id].state = "consumed"]
    PROVE  session' \in [Sessions -> SessionRows] /\ SessionsAreOwned'
<1> DEFINE s == request[r].id
           row == [session[s] EXCEPT !.state = "consumed"]
<1>1. s \in Sessions /\ request[r].owner \in Owners /\ request[r].user \in Users
  BY LinkFields
<1>2. session[s] \in SessionRows /\ session[s].owner \in Owners /\ session[s].user \in Users
  BY <1>1 DEF TypeInv, LinksInv, LinkRequestsMatch, Claims
<1>3. row \in SessionRows /\ row.owner \in Owners /\ row.user \in Users
  BY <1>2 DEF SessionRows
<1>4. session' = [session EXCEPT ![s] = row]
  BY <1>1 DEF TypeInv
<1> QED BY <1>1, <1>3, <1>4, SessionAdvances

LEMMA ActivateType ==
    ASSUME TypeInv, LinksInv, NEW r \in Requests, ActivateLink(r)
    PROVE  TypeInv'
<1>1. At(r, {"activate"}) /\ At(r, {"activate", "insert"})
  BY DEF ActivateLink, At
<1>2. request' \in [Requests -> AllRequests]
  <2>1. CASE Finish(r)
    BY <2>1, IdleType, MoveType DEF Finish, Move
  <2>2. CASE Continue(r, "insert")
    <3> DEFINE q == [request[r] EXCEPT !.at = "insert"]
    <3>1. request[r] \in LinkRequests
      BY <1>1, LinkFields
    <3>2. q \in AllRequests
      BY <3>1 DEF LinkRequests, AllRequests
    <3>3. Move(r, q)
      BY <2>2 DEF TypeInv, Continue, Move
    <3> QED BY <3>2, <3>3, MoveType
  <2> QED BY <2>1, <2>2 DEF ActivateLink
<1>3. session' \in [Sessions -> SessionRows] /\ SessionsAreOwned'
  <2>1. UNCHANGED session \/ session' = [session EXCEPT ![request[r].id].state = "consumed"]
    BY DEF ActivateLink
  <2> QED BY <1>1, <2>1, ConsumedType DEF TypeInv, SessionsAreOwned
<1> QED BY <1>2, <1>3 DEF TypeInv, ActivateLink, Messaging

LEMMA InsertType ==
    ASSUME TypeInv, LinksInv, NEW r \in Requests, InsertLink(r)
    PROVE  TypeInv'
<1>1. At(r, {"insert"}) /\ At(r, {"activate", "insert"})
  BY DEF InsertLink, At
<1>2. request' \in [Requests -> AllRequests]
  BY IdleType, MoveType DEF InsertLink, Finish, Move
<1>3. session' \in [Sessions -> SessionRows] /\ SessionsAreOwned'
  <2>1. UNCHANGED session \/ session' = [session EXCEPT ![request[r].id].state = "consumed"]
    BY DEF InsertLink
  <2> QED BY <1>1, <2>1, ConsumedType DEF TypeInv, SessionsAreOwned
<1>4. active' \subseteq Links
  BY <1>1, LinkFields DEF TypeInv, InsertLink, Links
<1> QED BY <1>2, <1>3, <1>4 DEF TypeInv, InsertLink, Messaging

LEMMA RegistryType ==
    ASSUME TypeInv, NEW r \in Requests, ReadRegisteredPlan(r)
    PROVE  TypeInv'
<1> DEFINE q == request[r]
           linked == [at |-> "activate", id |-> q.id, owner |-> q.owner, user |-> q.user]
           unlinked == [at |-> "revoke", owner |-> q.owner, user |-> NoUser]
           notified == [at |-> "reserve", owner |-> q.owner]
<1>1. At(r, {"registry"})
  BY DEF ReadRegisteredPlan
<1>2. \E next \in AllRequests : Move(r, next)
  <2>1. CASE q.op = "link" /\ Move(r, linked)
    <3>1. linked \in AllRequests
      BY <1>1, <2>1, LinkFields DEF AllRequests, LinkRequests
    <3> QED BY <2>1, <3>1
  <2>2. CASE q.op = "unlink" /\ Move(r, unlinked)
    <3>1. unlinked \in AllRequests
      BY <1>1, <2>2, OtherFields DEF AllRequests
    <3> QED BY <2>2, <3>1
  <2>3. CASE q.op = "notify" /\ Move(r, notified)
    <3>1. notified \in AllRequests
      BY <1>1, <2>3, OtherFields DEF AllRequests
    <3> QED BY <2>3, <3>1
  <2>4. CASE Finish(r)
    BY <2>4, IdleType DEF Finish, Move
  <2> QED BY <2>1, <2>2, <2>3, <2>4 DEF ReadRegisteredPlan, Move
<1> QED BY <1>2, MoveKeepsType DEF ReadRegisteredPlan, Linking, Messaging

LEMMA RevokeType ==
    ASSUME TypeInv, NEW r \in Requests, RevokeLink(r)
    PROVE  TypeInv'
BY IdleType, MoveKeepsType DEF RevokeLink, Finish, Move, Messaging

LEMMA ReserveType ==
    ASSUME TypeInv, NEW r \in Requests, ReserveDelivery(r)
    PROVE  TypeInv'
<1> DEFINE o == request[r].owner
           attempt == [at |-> "lookup", owner |-> o, attempts |-> delivery[o].attempts]
           row == [delivery[o] EXCEPT !.status = "pending"]
<1>1. o \in Notified
  BY OtherFields DEF ReserveDelivery
<1>2. delivery[o] \in DeliveryRows
  BY <1>1 DEF TypeInv
<1>3. attempt \in AllRequests /\ row \in DeliveryRows
  BY <1>1, <1>2 DEF DeliveryRows, Attempts, AllRequests
<1>4. request' \in [Requests -> AllRequests]
  <2>1. Move(r, attempt) \/ Move(r, Idle)
    BY DEF ReserveDelivery, Finish, Move
  <2> QED BY <1>3, <2>1, IdleType, MoveType
<1>5. delivery' \in [Notified -> DeliveryRows]
  <2>1. UNCHANGED delivery \/ delivery' = [delivery EXCEPT ![o] = row]
    BY <1>1 DEF TypeInv, ReserveDelivery
  <2> QED BY <1>1, <1>3, <2>1 DEF TypeInv
<1> QED BY <1>4, <1>5 DEF TypeInv, ReserveDelivery, Linking, SessionsAreOwned

\* An attempt goes from place to place and carries the same row.
LEMMA AttemptContinues ==
    ASSUME TypeInv, NEW r \in Requests,
           At(r, {"lookup", "send", "sent", "failed", "suppress"}),
           NEW place \in {"send", "sent", "failed", "suppress"}, Continue(r, place)
    PROVE  /\ [request[r] EXCEPT !.at = place] \in AllRequests
           /\ Move(r, [request[r] EXCEPT !.at = place])
           /\ request'[r].at = place
           /\ request'[r].owner = request[r].owner
<1> DEFINE q == [request[r] EXCEPT !.at = place]
<1>1. request[r] \in Attempts
  BY AttemptFields
<1>2. q \in Attempts /\ q.at = place /\ q.owner = request[r].owner
  BY <1>1 DEF Attempts
<1>3. Move(r, q)
  BY DEF Continue, Move, TypeInv
<1>4. q \in AllRequests
  BY <1>2 DEF AllRequests
<1> QED BY <1>2, <1>3, <1>4, MoveType

LEMMA LookupType ==
    ASSUME TypeInv, NEW r \in Requests, FindActiveRecipient(r)
    PROVE  TypeInv'
<1>1. At(r, {"lookup", "send", "sent", "failed", "suppress"})
  BY DEF FindActiveRecipient, At
<1>2. PICK place \in {"send", "sent", "failed", "suppress"} : Continue(r, place)
  BY DEF FindActiveRecipient
<1> QED BY <1>1, <1>2, AttemptContinues, MoveKeepsType DEF FindActiveRecipient, Linking, Messaging

LEMMA SendType ==
    ASSUME TypeInv, NEW r \in Requests, SendTelegram(r)
    PROVE  TypeInv'
<1>1. At(r, {"lookup", "send", "sent", "failed", "suppress"})
  BY DEF SendTelegram, At
<1>2. PICK answer \in {"sent", "failed"} : Continue(r, answer)
  BY DEF SendTelegram
<1>3. request' \in [Requests -> AllRequests]
  BY <1>1, <1>2, AttemptContinues, MoveType
<1>4. inbox' \in [Notified -> {"none", "once", "twice", "failure"}]
  BY DEF TypeInv, SendTelegram
<1> QED BY <1>3, <1>4 DEF TypeInv, SendTelegram, Linking, SessionsAreOwned

LEMMA OutcomeType ==
    ASSUME TypeInv, NEW r \in Requests, At(r, {"sent", "failed", "suppress"})
    PROVE  /\ Outcome(r) \in DeliveryRows
           /\ Outcome(r).status =
                 IF request[r].at = "suppress" THEN "suppressed" ELSE request[r].at
<1> DEFINE row == delivery[request[r].owner]
           last == request[r].attempts + 1 >= MaxAttempts
           attempts == IF last THEN MaxAttempts ELSE request[r].attempts + 1
<1>1. /\ request[r].owner \in Notified
      /\ request[r].attempts \in 0 .. MaxAttempts
  BY AttemptFields DEF At
<1>2. attempts \in 0 .. MaxAttempts
  BY <1>1, TelegramAssumption
<1>3. row \in DeliveryRows
  BY <1>1 DEF TypeInv
<1> HIDE DEF row, last, attempts
<1>4. CASE request[r].at = "sent"
  <2>1. Outcome(r) = [row EXCEPT !.status = "sent", !.attempts = attempts]
    BY <1>4 DEF Outcome, row, last, attempts
  <2> QED BY <1>2, <1>3, <1>4, <2>1 DEF DeliveryRows
<1>5. CASE request[r].at = "failed"
  <2>1. Outcome(r) = [status |-> "failed", attempts |-> attempts,
                      retry |-> IF last THEN row.retry ELSE "later"]
    BY <1>5 DEF Outcome, row, last, attempts
  <2> QED BY <1>2, <1>3, <1>5, <2>1 DEF DeliveryRows
<1>6. CASE request[r].at = "suppress"
  <2>1. Outcome(r) = [row EXCEPT !.status = "suppressed", !.attempts = request[r].attempts]
    BY <1>6 DEF Outcome, row, last, attempts
  <2> QED BY <1>1, <1>3, <1>6, <2>1 DEF DeliveryRows
<1> QED BY <1>4, <1>5, <1>6 DEF At

LEMMA UpdateDeliveryType ==
    ASSUME TypeInv, NEW r \in Requests, UpdateDelivery(r)
    PROVE  TypeInv'
<1>1. At(r, {"sent", "failed", "suppress"})
  BY DEF UpdateDelivery
<1>2. request' \in [Requests -> AllRequests]
  BY IdleType, MoveType DEF UpdateDelivery, Finish, Move
<1>3. Outcome(r) \in DeliveryRows
  BY <1>1, OutcomeType
<1>4. delivery' \in [Notified -> DeliveryRows]
  BY <1>3 DEF TypeInv, UpdateDelivery
<1> QED BY <1>2, <1>4 DEF TypeInv, UpdateDelivery, Linking, SessionsAreOwned

LEMMA CrashType ==
    ASSUME TypeInv, NEW r \in Requests, Crash(r)
    PROVE  TypeInv'
<1>1. request' \in [Requests -> AllRequests]
  BY IdleType, MoveType DEF Crash, Finish, Move
<1>2. crashes' \in 0 .. MaxCrashes
  BY TelegramAssumption DEF TypeInv, Crash
<1>3. lost' \subseteq Notified
  BY DEF TypeInv, Crash
<1> QED BY <1>1, <1>2, <1>3 DEF TypeInv, Crash, Linking, Messaging, SessionsAreOwned

LEMMA CreateSessionType ==
    ASSUME TypeInv, NEW s \in Sessions, NEW o \in Owners, CreateLinkSession(s, o)
    PROVE  TypeInv'
<1> DEFINE row == [session[s] EXCEPT !.state = "pending", !.owner = o]
<1>1. session[s] \in SessionRows
  BY DEF TypeInv
<1>2. row \in SessionRows /\ row.owner \in Owners /\ row.state = "pending"
  BY <1>1 DEF SessionRows
<1>3. session' = [session EXCEPT ![s] = row]
  BY DEF TypeInv, CreateLinkSession
<1>4. session' \in [Sessions -> SessionRows] /\ SessionsAreOwned'
  BY <1>2, <1>3, SessionAdvances
<1> QED BY <1>4 DEF TypeInv, CreateLinkSession, Messaging

LEMMA BackoffType ==
    ASSUME TypeInv, NEW o \in Notified, BackoffElapses(o)
    PROVE  TypeInv'
<1> DEFINE row == [delivery[o] EXCEPT !.retry = "due"]
<1>1. row \in DeliveryRows
  BY DEF TypeInv, DeliveryRows
<1>2. delivery' = [delivery EXCEPT ![o] = row]
  BY DEF TypeInv, BackoffElapses
<1> QED BY <1>1, <1>2 DEF TypeInv, BackoffElapses, Linking, SessionsAreOwned

LEMMA StepType ==
    ASSUME TypeInv, LinksInv, [Next]_vars
    PROVE  TypeInv'
<1>1. CASE UNCHANGED vars
  BY <1>1 DEF vars, TypeInv, SessionsAreOwned
<1>2. ASSUME NEW r \in Requests, Serve(r) PROVE TypeInv'
  BY <1>2, DetectType, RegistryType, ActivateType, InsertType, RevokeType, ReserveType,
     LookupType, SendType, UpdateDeliveryType DEF Serve
<1> QED BY <1>1, <1>2, UpdateType, PostType, CrashType, CreateSessionType, BackoffType DEF Next
-----------------------------------------------------------------------------
(* Links.                                                                  *)

\* A session that was detected keeps its owner and its account, and one that
\* was consumed stays so.
SessionsKept ==
    \A s \in Sessions : session[s].state \in {"detected", "consumed"} =>
        /\ session'[s].owner = session[s].owner
        /\ session'[s].user = session[s].user
        /\ session'[s].state \in {"detected", "consumed"}
        /\ session[s].state = "consumed" => session'[s].state = "consumed"

LEMMA ClaimFields ==
    ASSUME TypeInv, NEW r \in Requests, Claims(r)
    PROVE  /\ request[r].id \in Sessions
           /\ request[r].owner \in Owners
           /\ request[r].user \in Users
BY LinkFields DEF Claims

LEMMA MatchKept ==
    ASSUME TypeInv, LinkRequestsMatch, SessionsKept,
           \A p \in Requests : Claims(p)' =>
              /\ Claims(p)
              /\ request'[p].id = request[p].id
              /\ request'[p].owner = request[p].owner
              /\ request'[p].user = request[p].user
    PROVE  LinkRequestsMatch'
BY ClaimFields DEF LinkRequestsMatch, SessionsKept

LEMMA FewerLinks ==
    ASSUME IsFiniteSet(active), active' \subseteq active
    PROVE  /\ IsFiniteSet(active')
           /\ \A u \in Users : /\ Cardinality(ActiveLinks(u)) \in Nat
                               /\ Cardinality(ActiveLinks(u)') \in Nat
                               /\ Cardinality(ActiveLinks(u)') <= Cardinality(ActiveLinks(u))
<1>1. IsFiniteSet(active')
  BY FS_Subset
<1>2. ASSUME NEW u \in Users
      PROVE  /\ Cardinality(ActiveLinks(u)) \in Nat
             /\ Cardinality(ActiveLinks(u)') \in Nat
             /\ Cardinality(ActiveLinks(u)') <= Cardinality(ActiveLinks(u))
  <2>1. ActiveLinks(u)' \subseteq ActiveLinks(u) /\ ActiveLinks(u) \subseteq active
    BY DEF ActiveLinks
  <2>2. IsFiniteSet(ActiveLinks(u))
    BY <2>1, FS_Subset
  <2> QED BY <2>1, <2>2, FS_Subset, FS_CardinalityType
<1> QED BY <1>1, <1>2

LEMMA InsertionsKept ==
    ASSUME TypeInv, IsFiniteSet(active), InsertionsAreAlone, active' \subseteq active,
           \A p \in Requests : At(p, {"insert"})' => request'[p] = request[p]
    PROVE  InsertionsAreAlone'
<1> SUFFICES ASSUME NEW r \in Requests, At(r, {"insert"})'
             PROVE  /\ Cardinality(ActiveLinks(request[r].user)') < WalletLimit
                    /\ \A p \in Requests :
                          At(p, {"insert"})' /\ request'[p].user = request'[r].user => p = r
  BY DEF InsertionsAreAlone, ActiveLinks
<1>1. request'[r] = request[r] /\ At(r, {"insert"})
  BY DEF At
<1>2. request[r].user \in Users
  BY <1>1, LinkFields DEF At
<1>3. Cardinality(ActiveLinks(request[r].user)) < WalletLimit
  BY <1>1 DEF InsertionsAreAlone
<1>4. Cardinality(ActiveLinks(request[r].user)') < WalletLimit
  BY <1>2, <1>3, FewerLinks, TelegramAssumption
<1>5. \A p \in Requests :
         At(p, {"insert"})' /\ request'[p].user = request'[r].user => p = r
  BY <1>1 DEF InsertionsAreAlone, At
<1> QED BY <1>4, <1>5

\* No step of the kind adds a link or touches what the links rest on.
LEMMA LinksKept ==
    ASSUME TypeInv, LinksInv, SessionsKept, active' \subseteq active,
           LinkRequestsMatch', InsertionsAreAlone'
    PROVE  LinksInv'
<1>1. OneLinkPerWallet'
  BY DEF LinksInv, OneLinkPerWallet
<1>2. /\ IsFiniteSet(active')
      /\ \A u \in Users : Cardinality(ActiveLinks(u)') <= WalletLimit
  BY FewerLinks, TelegramAssumption DEF LinksInv
<1>3. \A l \in active' :
         /\ session'[l.id].state = "consumed"
         /\ session'[l.id].owner = l.owner /\ session'[l.id].user = l.user
  <2> SUFFICES ASSUME NEW l \in active'
               PROVE  /\ session'[l.id].state = "consumed"
                      /\ session'[l.id].owner = l.owner /\ session'[l.id].user = l.user
    OBVIOUS
  <2>1. l \in active /\ l.id \in Sessions
    BY DEF TypeInv, Links
  <2> QED BY <2>1 DEF LinksInv, SessionsKept
<1> QED BY <1>1, <1>2, <1>3 DEF LinksInv

LEMMA SameSessions == UNCHANGED session => SessionsKept
BY DEF SessionsKept

\* A step that changes no session and takes a request to a place without a
\* claim.
LEMMA NoClaim ==
    ASSUME TypeInv, LinksInv, NEW r \in Requests, NEW q, Move(r, q), q \in AllRequests,
           ~(q.at \in {"activate", "insert"} \/ (q.at = "registry" /\ q.op = "link")),
           SessionsKept, active' \subseteq active
    PROVE  LinksInv'
<1>1. request'[r] = q /\ \A p \in Requests : p # r => request'[p] = request[p]
  BY MoveType
<1>2. \A p \in Requests : Claims(p)' => Claims(p) /\ request'[p] = request[p]
  BY <1>1 DEF Claims, At
<1>3. LinkRequestsMatch'
  BY <1>2, MatchKept DEF LinksInv
<1>4. \A p \in Requests : At(p, {"insert"})' => request'[p] = request[p]
  BY <1>1 DEF At
<1>5. InsertionsAreAlone'
  BY <1>4, InsertionsKept DEF LinksInv
<1> QED BY <1>3, <1>5, LinksKept

LEMMA InitLinks == Init => LinksInv
<1> SUFFICES ASSUME Init PROVE LinksInv
  OBVIOUS
<1>1. active = {} /\ \A u \in Users : ActiveLinks(u) = {}
  BY DEF Init, ActiveLinks
<1>2. IsFiniteSet({}) /\ Cardinality({}) = 0
  BY FS_EmptySet
<1>3. LinkRequestsMatch /\ InsertionsAreAlone /\ OneLinkPerWallet
  BY <1>1 DEF Init, LinkRequestsMatch, InsertionsAreAlone, OneLinkPerWallet, Claims, At, Idle
<1> QED BY <1>1, <1>2, <1>3, TelegramAssumption DEF LinksInv

LEMMA UpdateLinks ==
    ASSUME TypeInv, LinksInv, NEW r \in Requests, Update(r)
    PROVE  LinksInv'
<1>1. ASSUME NEW s \in Sessions, NEW u \in Users, AttachTelegramIdentity(r, s, u)
      PROVE  LinksInv'
  <2> DEFINE q == [at |-> "attach", id |-> s, user |-> u]
  <2>1. q \in AllRequests
    BY DEF AllRequests
  <2> QED BY <1>1, <2>1, NoClaim, SameSessions
          DEF AttachTelegramIdentity, Receive, Move, Linking
<1>2. ASSUME NEW l \in active, UnlinkFromTelegram(r, l)
      PROVE  LinksInv'
  <2> DEFINE q == [at |-> "revoke", owner |-> l.owner, user |-> l.user]
  <2>1. q \in AllRequests
    BY DEF TypeInv, AllRequests, Links
  <2> QED BY <1>2, <2>1, NoClaim, SameSessions DEF UnlinkFromTelegram, Receive, Move, Linking
<1> QED BY <1>1, <1>2 DEF Update

\* A request to link starts from the session as it is.
LEMMA LinkWalletLinks ==
    ASSUME TypeInv, LinksInv, TypeInv', NEW r \in Requests, NEW s \in Sessions, NEW u \in Users,
           LinkWallet(r, s, u)
    PROVE  LinksInv'
<1> DEFINE q == [at |-> "registry", op |-> "link", id |-> s, owner |-> session[s].owner,
                 user |-> u]
<1>1. /\ request' = [request EXCEPT ![r] = q]
      /\ UNCHANGED <<session, active>>
      /\ session[s].state = "detected" /\ session[s].user = u
  BY DEF LinkWallet, Receive, LinkMatchesSession, Linking
<1>2. request'[r] = q /\ \A p \in Requests : p # r => request'[p] = request[p]
  BY <1>1 DEF TypeInv
<1>3. LinkRequestsMatch'
  <2> SUFFICES ASSUME NEW p \in Requests, Claims(p)'
               PROVE  /\ session'[request'[p].id].state \in {"detected", "consumed"}
                      /\ session'[request'[p].id].owner = request'[p].owner
                      /\ session'[request'[p].id].user = request'[p].user
    BY DEF LinkRequestsMatch
  <2>1. CASE p = r
    BY <1>1, <1>2, <2>1
  <2>2. CASE p # r
    BY <1>1, <1>2, <2>2 DEF LinksInv, LinkRequestsMatch, Claims, At
  <2> QED BY <2>1, <2>2
<1>4. \A p \in Requests : At(p, {"insert"})' => request'[p] = request[p]
  BY <1>2 DEF At
<1>5. InsertionsAreAlone'
  BY <1>1, <1>4, InsertionsKept DEF LinksInv
<1> QED BY <1>1, <1>3, <1>5, LinksKept, SameSessions

LEMMA PostLinks ==
    ASSUME TypeInv, LinksInv, TypeInv', NEW r \in Requests, Post(r)
    PROVE  LinksInv'
<1>1. ASSUME NEW l \in active, UnlinkFromDashboard(r, l)
      PROVE  LinksInv'
  <2> DEFINE q == [at |-> "registry", op |-> "unlink", owner |-> l.owner]
  <2>1. q \in AllRequests
    BY DEF TypeInv, AllRequests, Links
  <2> QED BY <1>1, <2>1, NoClaim, SameSessions DEF UnlinkFromDashboard, Receive, Move, Linking
<1>2. ASSUME NEW l \in active, SendTest(r, l)
      PROVE  LinksInv'
  <2> DEFINE q == [at |-> "registry", op |-> "notify", owner |-> l.owner]
  <2>1. q \in AllRequests
    BY <1>2 DEF SendTest, AllRequests
  <2> QED BY <1>2, <2>1, NoClaim, SameSessions DEF SendTest, Receive, Move, Linking
<1>3. ASSUME NEW o \in Notified, NotifyVerifiedAction(r, o)
      PROVE  LinksInv'
  <2> DEFINE q == [at |-> "reserve", owner |-> o]
  <2>1. q \in AllRequests
    BY DEF AllRequests
  <2> QED BY <1>3, <2>1, NoClaim, SameSessions DEF NotifyVerifiedAction, Receive, Move, Linking
<1>4. ASSUME NEW o \in Notified, HandleKeeperHubEvent(r, o)
      PROVE  LinksInv'
  <2> DEFINE q == [at |-> "registry", op |-> "notify", owner |-> o]
  <2>1. q \in AllRequests
    BY DEF AllRequests
  <2> QED BY <1>4, <2>1, NoClaim, SameSessions DEF HandleKeeperHubEvent, Receive, Move, Linking
<1> QED BY <1>1, <1>2, <1>3, <1>4, LinkWalletLinks DEF Post

\* A request that ends claims nothing any more.
LEMMA FinishedLinks ==
    ASSUME TypeInv, LinksInv, NEW r \in Requests, Finish(r),
           SessionsKept, active' \subseteq active
    PROVE  LinksInv'
BY IdleType, NoClaim DEF Finish, Move, Idle

\* A detection finds its session pending, a creation finds it unused: neither
\* is the session of a link or of a request that links.
LEMMA DetectLinks ==
    ASSUME TypeInv, LinksInv, NEW r \in Requests, DetectTelegramAccount(r)
    PROVE  LinksInv'
<1>1. SessionsKept
  <2> DEFINE s == request[r].id
  <2>1. CASE Undetected(s)
    <3>1. session[s].state = "pending"
      BY <2>1 DEF Undetected
    <3>2. \A t \in Sessions : t # s => session'[t] = session[t]
      BY <2>1 DEF DetectTelegramAccount, TypeInv
    <3> QED BY <3>1, <3>2 DEF SessionsKept
  <2>2. CASE ~Undetected(s)
    BY <2>2, SameSessions DEF DetectTelegramAccount
  <2> QED BY <2>1, <2>2
<1> QED BY <1>1, FinishedLinks DEF DetectTelegramAccount

LEMMA CreateSessionLinks ==
    ASSUME TypeInv, LinksInv, NEW s \in Sessions, NEW o \in Owners, CreateLinkSession(s, o)
    PROVE  LinksInv'
<1>1. session[s].state = "none" /\ \A t \in Sessions : t # s => session'[t] = session[t]
  BY DEF CreateLinkSession, TypeInv
<1>2. SessionsKept
  BY <1>1 DEF SessionsKept
<1>3. LinkRequestsMatch'
  BY <1>2, MatchKept DEF LinksInv, CreateLinkSession, Claims, At
<1>4. InsertionsAreAlone'
  BY InsertionsKept DEF LinksInv, CreateLinkSession
<1> QED BY <1>2, <1>3, <1>4, LinksKept DEF CreateLinkSession

LEMMA RegistryLinks ==
    ASSUME TypeInv, LinksInv, NEW r \in Requests, ReadRegisteredPlan(r)
    PROVE  LinksInv'
<1> DEFINE q == request[r]
           linked == [at |-> "activate", id |-> q.id, owner |-> q.owner, user |-> q.user]
<1>1. UNCHANGED <<session, active>> /\ At(r, {"registry"})
  BY DEF ReadRegisteredPlan, Linking
<1>2. \A p \in Requests : p # r => request'[p] = request[p]
  BY DEF ReadRegisteredPlan, Finish, TypeInv
<1>3. /\ ~At(r, {"insert"})'
      /\ Claims(r)' => q.op = "link" /\ request'[r] = linked
  BY DEF ReadRegisteredPlan, Finish, TypeInv, Claims, At, Idle
<1>4. \A p \in Requests : Claims(p)' =>
         /\ Claims(p)
         /\ request'[p].id = request[p].id
         /\ request'[p].owner = request[p].owner
         /\ request'[p].user = request[p].user
  <2> SUFFICES ASSUME NEW p \in Requests, Claims(p)'
               PROVE  /\ Claims(p)
                      /\ request'[p].id = request[p].id
                      /\ request'[p].owner = request[p].owner
                      /\ request'[p].user = request[p].user
    OBVIOUS
  <2>1. CASE p = r
    BY <1>1, <1>3, <2>1 DEF Claims
  <2>2. CASE p # r
    BY <1>2, <2>2 DEF Claims, At
  <2> QED BY <2>1, <2>2
<1>5. LinkRequestsMatch'
  BY <1>1, <1>4, MatchKept, SameSessions DEF LinksInv
<1>6. \A p \in Requests : At(p, {"insert"})' => request'[p] = request[p]
  BY <1>2, <1>3
<1>7. InsertionsAreAlone'
  BY <1>1, <1>6, InsertionsKept DEF LinksInv
<1> QED BY <1>1, <1>5, <1>7, LinksKept, SameSessions

\* The session of a request that links is consumed and otherwise left alone.
LEMMA ConsumedKept ==
    ASSUME TypeInv, LinksInv, NEW r \in Requests, At(r, {"activate", "insert"}),
           session' = [session EXCEPT ![request[r].id].state = "consumed"]
    PROVE  /\ SessionsKept
           /\ session'[request[r].id].state = "consumed"
           /\ session'[request[r].id].owner = request[r].owner
           /\ session'[request[r].id].user = request[r].user
<1> DEFINE t == request[r].id
<1>1. t \in Sessions /\ session[t] \in SessionRows
  BY LinkFields DEF TypeInv
<1>2. /\ session'[t] = [session[t] EXCEPT !.state = "consumed"]
      /\ \A s \in Sessions : s # t => session'[s] = session[s]
  BY <1>1 DEF TypeInv
<1>3. /\ session'[t].state = "consumed"
      /\ session'[t].owner = session[t].owner
      /\ session'[t].user = session[t].user
  BY <1>1, <1>2 DEF SessionRows
<1>4. session[t].owner = request[r].owner /\ session[t].user = request[r].user
  BY DEF LinksInv, LinkRequestsMatch, Claims
<1> HIDE DEF t
<1>5. SessionsKept
  BY <1>2, <1>3 DEF SessionsKept
<1> QED BY <1>3, <1>4, <1>5 DEF t

LEMMA ActivateLinks ==
    ASSUME TypeInv, LinksInv, NEW r \in Requests, ActivateLink(r)
    PROVE  LinksInv'
<1> DEFINE q == request[r]
<1>1. /\ At(r, {"activate"}) /\ At(r, {"activate", "insert"})
      /\ UNCHANGED active
  BY DEF ActivateLink, At
<1>2. CASE Finish(r)
  <2>1. UNCHANGED session \/ session' = [session EXCEPT ![request[r].id].state = "consumed"]
    BY DEF ActivateLink
  <2>2. SessionsKept
    BY <1>1, <2>1, ConsumedKept, SameSessions
  <2> QED BY <1>1, <1>2, <2>2, FinishedLinks
<1>3. CASE /\ Continue(r, "insert") /\ UNCHANGED session
           /\ AccountFree(q.user)
           /\ ~(Cardinality(ActiveLinks(q.user)) >= WalletLimit)
  <2>1. /\ request'[r].at = "insert" /\ request'[r].id = q.id
        /\ request'[r].owner = q.owner /\ request'[r].user = q.user
        /\ \A p \in Requests : p # r => request'[p] = request[p]
    <3>1. q \in LinkRequests
      BY <1>1, LinkFields
    <3> QED BY <1>3, <3>1 DEF Continue, TypeInv, LinkRequests
  <2>2. \A p \in Requests : Claims(p)' =>
           /\ Claims(p)
           /\ request'[p].id = request[p].id
           /\ request'[p].owner = request[p].owner
           /\ request'[p].user = request[p].user
    BY <1>1, <2>1 DEF Claims, At
  <2>3. LinkRequestsMatch'
    BY <1>3, <2>2, MatchKept, SameSessions DEF LinksInv
  <2>4. \A u \in Users : ActiveLinks(u)' = ActiveLinks(u) /\ Cardinality(ActiveLinks(u)) \in Nat
    BY <1>1, FewerLinks DEF LinksInv, ActiveLinks
  <2>5. q.user \in Users /\ Cardinality(ActiveLinks(q.user)) < WalletLimit
    BY <1>1, <1>3, <2>4, LinkFields, TelegramAssumption
  <2>6. \A p \in Requests : At(p, {"insert"}) => request[p].user # q.user
    BY <1>3 DEF AccountFree
  <2>7. ASSUME NEW p \in Requests, At(p, {"insert"})'
        PROVE  /\ Cardinality(ActiveLinks(request[p].user)') < WalletLimit
               /\ \A o \in Requests :
                     At(o, {"insert"})' /\ request'[o].user = request'[p].user => o = p
    <3>1. CASE p = r
      BY <2>1, <2>4, <2>5, <2>6, <3>1 DEF At
    <3>2. CASE p # r
      <4>1. At(p, {"insert"}) /\ request'[p] = request[p]
        BY <2>1, <2>7, <3>2 DEF At
      <4>2. request[p].user \in Users
        BY <4>1, LinkFields DEF At
      <4>3. Cardinality(ActiveLinks(request[p].user)) < WalletLimit
        BY <4>1 DEF LinksInv, InsertionsAreAlone
      <4>4. ASSUME NEW o \in Requests, At(o, {"insert"})', request'[o].user = request'[p].user
            PROVE  o = p
        <5>1. o # r
          BY <2>1, <2>6, <4>1, <4>4
        <5>2. At(o, {"insert"}) /\ request'[o] = request[o]
          BY <2>1, <4>4, <5>1 DEF At
        <5> QED BY <4>1, <4>4, <5>2 DEF LinksInv, InsertionsAreAlone
      <4>5. Cardinality(ActiveLinks(request[p].user)') < WalletLimit
        BY <2>4, <4>1, <4>2, <4>3
      <4> QED BY <4>4, <4>5
    <3> QED BY <3>1, <3>2
  <2>8. \A p \in Requests : request'[p].user = request[p].user \/ ~At(p, {"insert"})'
    BY <2>1
  <2>9. InsertionsAreAlone'
    BY <1>1, <2>7, <2>8 DEF InsertionsAreAlone, ActiveLinks
  <2> QED BY <1>1, <1>3, <2>3, <2>9, LinksKept, SameSessions
<1> QED BY <1>2, <1>3 DEF ActivateLink

LEMMA OneMoreElement ==
    ASSUME NEW S, NEW x, IsFiniteSet(S)
    PROVE  /\ IsFiniteSet(S \cup {x})
           /\ Cardinality(S) \in Nat /\ Cardinality(S \cup {x}) \in Nat
           /\ Cardinality(S \cup {x}) <= Cardinality(S) + 1
<1>1. IsFiniteSet(S \cup {x}) /\ Cardinality(S) \in Nat
  BY FS_AddElement, FS_CardinalityType
<1>2. Cardinality(S \cup {x}) = IF x \in S THEN Cardinality(S) ELSE Cardinality(S) + 1
  BY FS_AddElement
<1> QED BY <1>1, <1>2

\* The new link is the only one of its wallet, and its account had room.
LEMMA InsertLinks ==
    ASSUME TypeInv, LinksInv, NEW r \in Requests, InsertLink(r)
    PROVE  LinksInv'
<1> DEFINE q == request[r]
           link == [id |-> q.id, owner |-> q.owner, user |-> q.user]
<1>1. /\ At(r, {"insert"}) /\ At(r, {"activate", "insert"})
      /\ Finish(r)
  BY DEF InsertLink, At
<1>2. CASE ~Insertable(q)
  BY <1>1, <1>2, FinishedLinks, SameSessions DEF InsertLink
<1>3. CASE Insertable(q)
  <2>1. /\ active' = active \cup {link}
        /\ session' = [session EXCEPT ![q.id].state = "consumed"]
        /\ LinkOf(q.owner) = {}
    BY <1>3 DEF InsertLink, Insertable
  <2>2. /\ SessionsKept
        /\ session'[q.id].state = "consumed"
        /\ session'[q.id].owner = q.owner
        /\ session'[q.id].user = q.user
    BY <1>1, <2>1, ConsumedKept
  <2>3. request'[r] = Idle /\ \A p \in Requests : p # r => request'[p] = request[p]
    BY <1>1 DEF Finish, TypeInv
  <2>4. ~Claims(r)' /\ ~At(r, {"insert"})'
    BY <2>3 DEF Claims, At, Idle
  <2>5. \A p \in Requests : Claims(p)' => Claims(p) /\ request'[p] = request[p]
    BY <2>3, <2>4 DEF Claims, At
  <2>6. LinkRequestsMatch'
    BY <2>2, <2>5, MatchKept DEF LinksInv
  <2>7. IsFiniteSet(active) /\ IsFiniteSet(active')
    <3> HIDE DEF link
    <3> QED BY <2>1, OneMoreElement DEF LinksInv
  <2>8. \A u \in Users : ActiveLinks(u)' = IF u = q.user THEN ActiveLinks(u) \cup {link}
                                           ELSE ActiveLinks(u)
    BY <2>1 DEF ActiveLinks
  <2>9. ASSUME NEW u \in Users PROVE Cardinality(ActiveLinks(u)') <= WalletLimit
    <3>1. CASE u # q.user
      BY <2>8, <3>1 DEF LinksInv
    <3>2. CASE u = q.user
      <4>1. IsFiniteSet(ActiveLinks(u))
        BY <2>7, FS_Subset DEF ActiveLinks
      <4>2. Cardinality(ActiveLinks(u)) < WalletLimit
        BY <1>1, <3>2 DEF LinksInv, InsertionsAreAlone
      <4> HIDE DEF link
      <4>3. /\ Cardinality(ActiveLinks(u)) \in Nat
            /\ Cardinality(ActiveLinks(u) \cup {link}) \in Nat
            /\ Cardinality(ActiveLinks(u) \cup {link}) <= Cardinality(ActiveLinks(u)) + 1
        BY <4>1, OneMoreElement
      <4>4. ActiveLinks(u)' = ActiveLinks(u) \cup {link}
        BY <2>8, <3>2
      <4> QED BY <4>2, <4>3, <4>4, TelegramAssumption
    <3> QED BY <3>1, <3>2
  <2>10. InsertionsAreAlone'
    <3> SUFFICES ASSUME NEW p \in Requests, At(p, {"insert"})'
                 PROVE  /\ Cardinality(ActiveLinks(request[p].user)') < WalletLimit
                        /\ \A o \in Requests :
                              At(o, {"insert"})' /\ request'[o].user = request'[p].user => o = p
      BY <2>3, <2>4 DEF InsertionsAreAlone, ActiveLinks, At
    <3>1. p # r /\ At(p, {"insert"}) /\ request'[p] = request[p]
      BY <2>3, <2>4 DEF At
    <3>2. request[p].user \in Users /\ request[p].user # q.user
      BY <1>1, <3>1, LinkFields DEF LinksInv, InsertionsAreAlone, At
    <3>3. Cardinality(ActiveLinks(request[p].user)') < WalletLimit
      BY <2>8, <3>1, <3>2 DEF LinksInv, InsertionsAreAlone
    <3>4. \A o \in Requests : At(o, {"insert"})' => At(o, {"insert"}) /\ request'[o] = request[o]
      BY <2>3, <2>4 DEF At
    <3> QED BY <3>1, <3>3, <3>4 DEF LinksInv, InsertionsAreAlone
  <2>11. OneLinkPerWallet'
    BY <2>1 DEF LinksInv, OneLinkPerWallet, LinkOf
  <2>12. ASSUME NEW l \in active'
         PROVE  /\ session'[l.id].state = "consumed"
                /\ session'[l.id].owner = l.owner /\ session'[l.id].user = l.user
    <3>1. CASE l = link
      BY <2>2, <3>1
    <3>2. CASE l \in active
      <4>1. l.id \in Sessions
        BY <3>2 DEF TypeInv, Links
      <4> QED BY <2>2, <3>2, <4>1 DEF LinksInv, SessionsKept
    <3> QED BY <2>1, <3>1, <3>2
  <2> QED BY <2>6, <2>7, <2>9, <2>10, <2>11, <2>12 DEF LinksInv
<1> QED BY <1>2, <1>3

LEMMA DeliveryLinks ==
    ASSUME TypeInv, LinksInv, NEW r \in Requests,
           ReserveDelivery(r) \/ FindActiveRecipient(r) \/ SendTelegram(r) \/ UpdateDelivery(r)
    PROVE  LinksInv'
<1>1. UNCHANGED <<session, active>>
  BY DEF ReserveDelivery, FindActiveRecipient, SendTelegram, UpdateDelivery, Linking
<1>2. CASE ReserveDelivery(r)
  <2> DEFINE o == request[r].owner
             attempt == [at |-> "lookup", owner |-> o, attempts |-> delivery[o].attempts]
  <2>1. o \in Notified
    BY <1>2, OtherFields DEF ReserveDelivery
  <2>2. attempt \in AllRequests
    BY <2>1 DEF TypeInv, DeliveryRows, AllRequests, Attempts
  <2>3. Move(r, attempt) \/ Finish(r)
    BY <1>2 DEF ReserveDelivery, Move
  <2> QED BY <1>1, <2>2, <2>3, NoClaim, FinishedLinks, SameSessions
<1>3. CASE FindActiveRecipient(r) \/ SendTelegram(r)
  <2>1. At(r, {"lookup", "send", "sent", "failed", "suppress"})
    BY <1>3 DEF FindActiveRecipient, SendTelegram, At
  <2>2. PICK place \in {"send", "sent", "failed", "suppress"} : Continue(r, place)
    BY <1>3 DEF FindActiveRecipient, SendTelegram
  <2> DEFINE q == [request[r] EXCEPT !.at = place]
  <2>3. q \in AllRequests /\ Move(r, q) /\ request'[r].at = place
    BY <2>1, <2>2, AttemptContinues
  <2> HIDE DEF q
  <2>4. q.at = place
    BY <2>3, MoveType
  <2> QED BY <1>1, <2>3, <2>4, NoClaim, SameSessions
<1>4. CASE UpdateDelivery(r)
  BY <1>1, <1>4, FinishedLinks, SameSessions DEF UpdateDelivery
<1> QED BY <1>2, <1>3, <1>4

LEMMA StepLinks ==
    ASSUME TypeInv, LinksInv, TypeInv', [Next]_vars
    PROVE  LinksInv'
<1>1. CASE UNCHANGED vars
  BY <1>1 DEF vars, LinksInv, OneLinkPerWallet, LinkRequestsMatch, InsertionsAreAlone,
              Claims, At, ActiveLinks
<1>2. ASSUME NEW r \in Requests, RevokeLink(r) PROVE LinksInv'
  BY <1>2, FinishedLinks, SameSessions DEF RevokeLink
<1>3. ASSUME NEW r \in Requests, Crash(r) PROVE LinksInv'
  BY <1>3, FinishedLinks, SameSessions DEF Crash, Linking
<1>4. ASSUME NEW o \in Notified, BackoffElapses(o) PROVE LinksInv'
  BY <1>4 DEF BackoffElapses, Linking, LinksInv, OneLinkPerWallet, LinkRequestsMatch,
              InsertionsAreAlone, Claims, At, ActiveLinks
<1>5. ASSUME NEW r \in Requests, Serve(r) PROVE LinksInv'
  BY <1>2, <1>5, DetectLinks, RegistryLinks, ActivateLinks, InsertLinks, DeliveryLinks DEF Serve
<1> QED BY <1>1, <1>3, <1>4, <1>5, UpdateLinks, PostLinks, CreateSessionLinks DEF Next
-----------------------------------------------------------------------------
(* Deliveries.                                                             *)

LEMMA InitAttempt == Init => OneAttempt
BY DEF Init, OneAttempt, Attempting, At, Idle

\* A step that changes no delivery and takes no request to another attempt.
LEMMA AttemptsKept ==
    ASSUME OneAttempt, UNCHANGED Messaging,
           \A p \in Requests : \A o \in Notified : Attempting(p, o)' =>
              /\ Attempting(p, o)
              /\ At(p, {"sent"})' <=> At(p, {"sent"})
              /\ At(p, {"failed"})' => At(p, {"failed"})
    PROVE  OneAttempt'
BY DEF OneAttempt, Messaging

LEMMA NoAttempt ==
    ASSUME TypeInv, OneAttempt, NEW r \in Requests, NEW q \in AllRequests, Move(r, q),
           q.at \notin {"lookup", "send", "sent", "failed", "suppress"}, UNCHANGED Messaging
    PROVE  OneAttempt'
<1>1. request'[r] = q /\ \A p \in Requests : p # r => request'[p] = request[p]
  BY MoveType
<1>2. \A p \in Requests : \A o \in Notified :
         Attempting(p, o)' => Attempting(p, o) /\ request'[p] = request[p]
  BY <1>1 DEF Attempting, At
<1> QED BY <1>2, AttemptsKept DEF At

LEMMA FinishedAttempt ==
    ASSUME TypeInv, OneAttempt, NEW r \in Requests, Finish(r), UNCHANGED Messaging
    PROVE  OneAttempt'
BY IdleType, NoAttempt DEF Finish, Move, Idle

LEMMA UpdateAttempt ==
    ASSUME TypeInv, OneAttempt, NEW r \in Requests, Update(r)
    PROVE  OneAttempt'
<1>1. ASSUME NEW s \in Sessions, NEW u \in Users, AttachTelegramIdentity(r, s, u)
      PROVE  OneAttempt'
  <2> DEFINE q == [at |-> "attach", id |-> s, user |-> u]
  <2>1. q \in AllRequests
    BY DEF AllRequests
  <2> QED BY <1>1, <2>1, NoAttempt DEF AttachTelegramIdentity, Receive, Move
<1>2. ASSUME NEW l \in active, UnlinkFromTelegram(r, l)
      PROVE  OneAttempt'
  <2> DEFINE q == [at |-> "revoke", owner |-> l.owner, user |-> l.user]
  <2>1. q \in AllRequests
    BY DEF TypeInv, AllRequests, Links
  <2> QED BY <1>2, <2>1, NoAttempt DEF UnlinkFromTelegram, Receive, Move
<1> QED BY <1>1, <1>2 DEF Update

LEMMA PostAttempt ==
    ASSUME TypeInv, OneAttempt, NEW r \in Requests, Post(r)
    PROVE  OneAttempt'
<1>1. PICK q : /\ request' = [request EXCEPT ![r] = q]
               /\ q.at \in {"registry", "reserve"}
               /\ UNCHANGED Messaging
  BY DEF Post, LinkWallet, UnlinkFromDashboard, SendTest, NotifyVerifiedAction,
         HandleKeeperHubEvent, Receive
<1>2. request'[r] = q /\ \A p \in Requests : p # r => request'[p] = request[p]
  BY <1>1 DEF TypeInv
<1>3. \A p \in Requests : \A o \in Notified :
         Attempting(p, o)' => Attempting(p, o) /\ request'[p] = request[p]
  BY <1>1, <1>2 DEF Attempting, At
<1> QED BY <1>1, <1>3, AttemptsKept DEF At

LEMMA RegistryAttempt ==
    ASSUME TypeInv, OneAttempt, NEW r \in Requests, ReadRegisteredPlan(r)
    PROVE  OneAttempt'
<1>1. /\ request'[r].at \in {"activate", "revoke", "reserve", "idle"}
      /\ \A p \in Requests : p # r => request'[p] = request[p]
  BY DEF ReadRegisteredPlan, Finish, Idle, TypeInv
<1>2. \A p \in Requests : \A o \in Notified :
         Attempting(p, o)' => Attempting(p, o) /\ request'[p] = request[p]
  BY <1>1 DEF Attempting, At
<1> QED BY <1>2, AttemptsKept DEF At, ReadRegisteredPlan

LEMMA ActivateAttempt ==
    ASSUME TypeInv, OneAttempt, NEW r \in Requests, ActivateLink(r)
    PROVE  OneAttempt'
<1>1. CASE Finish(r)
  BY <1>1, FinishedAttempt DEF ActivateLink
<1>2. CASE Continue(r, "insert")
  <2>1. request[r] \in LinkRequests
    BY LinkFields DEF ActivateLink, At
  <2>2. request'[r].at = "insert" /\ \A p \in Requests : p # r => request'[p] = request[p]
    BY <1>2, <2>1 DEF Continue, TypeInv, LinkRequests
  <2>3. \A p \in Requests : \A o \in Notified :
           Attempting(p, o)' => Attempting(p, o) /\ request'[p] = request[p]
    BY <2>2 DEF Attempting, At
  <2> QED BY <2>3, AttemptsKept DEF At, ActivateLink
<1> QED BY <1>1, <1>2 DEF ActivateLink

\* A delivery is attempted anew only if it was reserved just now, or if an
\* attempt has failed.
LEMMA ReserveAttempt ==
    ASSUME TypeInv, OneAttempt, NEW r \in Requests, ReserveDelivery(r)
    PROVE  OneAttempt'
<1> DEFINE o == request[r].owner
           attempt == [at |-> "lookup", owner |-> o, attempts |-> delivery[o].attempts]
<1>1. o \in Notified /\ delivery[o] \in DeliveryRows /\ UNCHANGED inbox
  BY OtherFields DEF ReserveDelivery, TypeInv
<1>2. CASE Finish(r) /\ UNCHANGED delivery
  BY <1>1, <1>2, FinishedAttempt DEF Messaging
<1>3. CASE request' = [request EXCEPT ![r] = attempt]
  <2>1. /\ request'[r] = attempt
        /\ \A p \in Requests : p # r => request'[p] = request[p]
    BY <1>3 DEF TypeInv
  <2>2. \A p \in Requests : \A v \in Notified : Attempting(p, v)' =>
           \/ p = r /\ v = o
           \/ p # r /\ Attempting(p, v) /\ request'[p] = request[p]
    BY <2>1 DEF Attempting, At
  <2>3. At(r, {"lookup"})' /\ ~At(r, {"sent", "failed"})'
    BY <2>1 DEF At
  <2>4. CASE delivery[o].status = "none" /\ delivery' = [delivery EXCEPT ![o].status = "pending"]
    <3>1. /\ delivery'[o].status = "pending"
          /\ \A v \in Notified : v # o => delivery'[v] = delivery[v]
      BY <1>1, <2>4 DEF TypeInv, DeliveryRows
    <3>2. inbox[o] # "failure" => inbox[o] = "none" /\ \A p \in Requests : ~Attempting(p, o)
      BY <1>1, <2>4 DEF OneAttempt, TypeInv
    <3>3. ASSUME NEW v \in Notified, inbox'[v] # "failure"
          PROVE  /\ inbox'[v] # "twice"
                 /\ delivery'[v].status # "failed"
                 /\ inbox'[v] = "once" => delivery'[v].status # "none"
                 /\ \A p \in Requests : Attempting(p, v)' =>
                       /\ delivery'[v].status = "pending"
                       /\ ~At(p, {"failed"})'
                       /\ inbox'[v] = "once" <=> At(p, {"sent"})'
                       /\ \A t \in Requests : Attempting(t, v)' => t = p
      <4>1. CASE v = o
        BY <1>1, <2>2, <2>3, <3>1, <3>2, <3>3, <4>1 DEF At
      <4>2. CASE v # o
        BY <1>1, <2>2, <3>1, <3>3, <4>2 DEF OneAttempt, At
      <4> QED BY <4>1, <4>2
    <3> QED BY <3>3 DEF OneAttempt
  <2>5. CASE RetryIsDue(delivery[o]) /\ UNCHANGED delivery
    <3>1. inbox[o] = "failure"
      BY <1>1, <2>5 DEF RetryIsDue, OneAttempt
    <3>2. ASSUME NEW v \in Notified, inbox'[v] # "failure"
          PROVE  /\ inbox'[v] # "twice"
                 /\ delivery'[v].status # "failed"
                 /\ inbox'[v] = "once" => delivery'[v].status # "none"
                 /\ \A p \in Requests : Attempting(p, v)' =>
                       /\ delivery'[v].status = "pending"
                       /\ ~At(p, {"failed"})'
                       /\ inbox'[v] = "once" <=> At(p, {"sent"})'
                       /\ \A t \in Requests : Attempting(t, v)' => t = p
      BY <1>1, <2>2, <2>5, <3>1, <3>2 DEF OneAttempt, At
    <3> QED BY <3>2 DEF OneAttempt
  <2> QED BY <1>1, <1>2, <1>3, <2>4, <2>5 DEF ReserveDelivery
<1> QED BY <1>2, <1>3 DEF ReserveDelivery

LEMMA LookupAttempt ==
    ASSUME TypeInv, OneAttempt, NEW r \in Requests, FindActiveRecipient(r)
    PROVE  OneAttempt'
<1>1. At(r, {"lookup"}) /\ At(r, {"lookup", "send", "sent", "failed", "suppress"})
  BY DEF FindActiveRecipient, At
<1>2. PICK place \in {"send", "suppress"} : Continue(r, place)
  BY DEF FindActiveRecipient
<1>3. /\ request'[r].at = place /\ request'[r].owner = request[r].owner
      /\ \A p \in Requests : p # r => request'[p] = request[p]
  <2>1. place \in {"send", "sent", "failed", "suppress"}
    OBVIOUS
  <2> QED BY <1>1, <1>2, <2>1, AttemptContinues, MoveType
<1>4. \A p \in Requests : \A o \in Notified : Attempting(p, o)' =>
         /\ Attempting(p, o)
         /\ At(p, {"sent"})' <=> At(p, {"sent"})
         /\ At(p, {"failed"})' => At(p, {"failed"})
  BY <1>1, <1>3 DEF Attempting, At
<1> QED BY <1>4, AttemptsKept DEF FindActiveRecipient

\* The only attempt under way sends the first message, or an answer is lost
\* and the delivery is one of a failure from then on.
LEMMA SendAttempt ==
    ASSUME TypeInv, OneAttempt, NEW r \in Requests, SendTelegram(r)
    PROVE  OneAttempt'
<1> DEFINE o == request[r].owner
<1>1. At(r, {"send"}) /\ At(r, {"lookup", "send", "sent", "failed", "suppress"})
  BY DEF SendTelegram, At
<1>2. o \in Notified /\ Attempting(r, o)
  BY <1>1, AttemptFields DEF Attempting
<1>3. PICK answer \in {"sent", "failed"} :
         /\ Continue(r, answer)
         /\ inbox' = [inbox EXCEPT ![o] = IF answer = "failed" \/ @ = "failure" THEN "failure"
                                          ELSE IF @ = "none" THEN "once" ELSE "twice"]
  BY DEF SendTelegram
<1>4. /\ request'[r].at = answer /\ request'[r].owner = o
      /\ \A p \in Requests : p # r => request'[p] = request[p]
  <2>1. answer \in {"send", "sent", "failed", "suppress"}
    OBVIOUS
  <2> QED BY <1>1, <1>3, <2>1, AttemptContinues, MoveType
<1>5. UNCHANGED delivery
  BY DEF SendTelegram
<1>6. \A p \in Requests : \A v \in Notified : Attempting(p, v)' =>
         \/ p = r /\ v = o
         \/ p # r /\ Attempting(p, v) /\ request'[p] = request[p]
  BY <1>2, <1>4 DEF Attempting, At
<1>7. inbox[o] # "failure" =>
         /\ inbox[o] = "none"
         /\ delivery[o].status = "pending"
         /\ \A p \in Requests : Attempting(p, o) => p = r
  BY <1>1, <1>2 DEF OneAttempt, TypeInv, At
<1>8. /\ inbox'[o] = IF answer = "failed" \/ inbox[o] = "failure" THEN "failure"
                     ELSE IF inbox[o] = "none" THEN "once" ELSE "twice"
      /\ \A v \in Notified : v # o => inbox'[v] = inbox[v]
  BY <1>2, <1>3 DEF TypeInv
<1> HIDE DEF o
<1>9. ASSUME NEW v \in Notified, inbox'[v] # "failure"
      PROVE  /\ inbox'[v] # "twice"
             /\ delivery'[v].status # "failed"
             /\ inbox'[v] = "once" => delivery'[v].status # "none"
             /\ \A p \in Requests : Attempting(p, v)' =>
                   /\ delivery'[v].status = "pending"
                   /\ ~At(p, {"failed"})'
                   /\ inbox'[v] = "once" <=> At(p, {"sent"})'
                   /\ \A t \in Requests : Attempting(t, v)' => t = p
  <2>1. CASE v = o
    BY <1>4, <1>5, <1>6, <1>7, <1>8, <1>9, <2>1 DEF At
  <2>2. CASE v # o
    BY <1>5, <1>6, <1>8, <1>9, <2>2 DEF OneAttempt, At
  <2> QED BY <2>1, <2>2
<1> QED BY <1>9 DEF OneAttempt

LEMMA UpdateDeliveryAttempt ==
    ASSUME TypeInv, OneAttempt, NEW r \in Requests, UpdateDelivery(r)
    PROVE  OneAttempt'
<1> DEFINE o == request[r].owner
<1>1. /\ At(r, {"sent", "failed", "suppress"})
      /\ At(r, {"lookup", "send", "sent", "failed", "suppress"})
      /\ UNCHANGED inbox
  BY DEF UpdateDelivery, At
<1>2. o \in Notified /\ Attempting(r, o)
  BY <1>1, AttemptFields DEF Attempting
<1>3. request'[r] = Idle /\ \A p \in Requests : p # r => request'[p] = request[p]
  BY DEF UpdateDelivery, Finish, TypeInv
<1>4. \A p \in Requests : \A v \in Notified :
         Attempting(p, v)' => p # r /\ Attempting(p, v) /\ request'[p] = request[p]
  BY <1>3 DEF Attempting, At, Idle
<1>5. inbox[o] # "failure" =>
         /\ inbox[o] # "twice"
         /\ ~At(r, {"failed"})
         /\ \A p \in Requests : Attempting(p, o) => p = r
  BY <1>2 DEF OneAttempt
<1>6. /\ delivery'[o].status \in {"sent", "failed", "suppressed"}
      /\ delivery'[o].status = "failed" => At(r, {"failed"})
      /\ \A v \in Notified : v # o => delivery'[v] = delivery[v]
  <2>1. delivery' = [delivery EXCEPT ![o] = Outcome(r)]
    BY DEF UpdateDelivery
  <2>2. Outcome(r).status = IF request[r].at = "suppress" THEN "suppressed" ELSE request[r].at
    BY <1>1, OutcomeType
  <2> QED BY <1>1, <1>2, <2>1, <2>2 DEF TypeInv, At
<1> HIDE DEF o
<1>7. ASSUME NEW v \in Notified, inbox'[v] # "failure"
      PROVE  /\ inbox'[v] # "twice"
             /\ delivery'[v].status # "failed"
             /\ inbox'[v] = "once" => delivery'[v].status # "none"
             /\ \A p \in Requests : Attempting(p, v)' =>
                   /\ delivery'[v].status = "pending"
                   /\ ~At(p, {"failed"})'
                   /\ inbox'[v] = "once" <=> At(p, {"sent"})'
                   /\ \A t \in Requests : Attempting(t, v)' => t = p
  <2>1. CASE v = o
    BY <1>1, <1>4, <1>5, <1>6, <1>7, <2>1
  <2>2. CASE v # o
    BY <1>1, <1>4, <1>6, <1>7, <2>2 DEF OneAttempt, At
  <2> QED BY <2>1, <2>2
<1> QED BY <1>7 DEF OneAttempt

LEMMA BackoffAttempt ==
    ASSUME TypeInv, OneAttempt, NEW o \in Notified, BackoffElapses(o)
    PROVE  OneAttempt'
<1>1. UNCHANGED <<inbox, request>>
  BY DEF BackoffElapses
<1>2. \A v \in Notified : delivery'[v].status = delivery[v].status
  BY DEF BackoffElapses, TypeInv, DeliveryRows
<1> QED BY <1>1, <1>2 DEF OneAttempt, Attempting, At

LEMMA StepAttempt ==
    ASSUME TypeInv, OneAttempt, [Next]_vars
    PROVE  OneAttempt'
<1>1. CASE UNCHANGED vars
  BY <1>1 DEF vars, OneAttempt, Attempting, At
<1>2. ASSUME NEW r \in Requests,
             DetectTelegramAccount(r) \/ InsertLink(r) \/ RevokeLink(r) \/ Crash(r)
      PROVE  OneAttempt'
  BY <1>2, FinishedAttempt DEF DetectTelegramAccount, InsertLink, RevokeLink, Crash
<1>3. ASSUME NEW s \in Sessions, NEW o \in Owners, CreateLinkSession(s, o) PROVE OneAttempt'
  BY <1>3 DEF CreateLinkSession, Messaging, OneAttempt, Attempting, At
<1>4. ASSUME NEW r \in Requests, Serve(r) PROVE OneAttempt'
  BY <1>2, <1>4, RegistryAttempt, ActivateAttempt, ReserveAttempt, LookupAttempt, SendAttempt,
     UpdateDeliveryAttempt DEF Serve
<1> QED BY <1>1, <1>2, <1>3, <1>4, UpdateAttempt, PostAttempt, BackoffAttempt DEF Next
-----------------------------------------------------------------------------
(* Sessions.                                                               *)

\* No request comes to insert, and no session of one that does is used up.
LEMMA NewKept ==
    ASSUME InsertionsAreNew,
           \A p \in Requests : At(p, {"insert"})' => At(p, {"insert"}) /\ request'[p] = request[p],
           \A p \in Requests : At(p, {"insert"})' /\ ~Consumed(request[p]) =>
              session'[request[p].id].state # "consumed"
    PROVE  InsertionsAreNew'
BY DEF InsertionsAreNew, Consumed

LEMMA InitNew == Init => InsertionsAreNew
BY DEF Init, InsertionsAreNew, At, Idle

\* Whoever uses a session up holds the row of its account, so nobody is about
\* to insert for that session.
LEMMA ConsumedAlone ==
    ASSUME TypeInv, LinksInv, InsertionsAreNew, NEW r \in Requests, Finish(r),
           At(r, {"activate", "insert"}), AccountFree(request[r].user) \/ At(r, {"insert"}),
           UNCHANGED session \/ session' = [session EXCEPT ![request[r].id].state = "consumed"]
    PROVE  InsertionsAreNew'
<1>1. request'[r] = Idle /\ \A p \in Requests : p # r => request'[p] = request[p]
  BY DEF Finish, TypeInv
<1>2. \A p \in Requests : At(p, {"insert"})' => p # r /\ At(p, {"insert"}) /\ request'[p] = request[p]
  BY <1>1 DEF At, Idle
<1>3. ASSUME NEW p \in Requests, p # r, At(p, {"insert"})
      PROVE  session'[request[p].id] = session[request[p].id]
  <2>1. request[p].id # request[r].id
    <3>1. request[p].user # request[r].user
      BY <1>3 DEF LinksInv, InsertionsAreAlone, AccountFree
    <3>2. /\ session[request[p].id].user = request[p].user
          /\ session[request[r].id].user = request[r].user
      BY <1>3 DEF LinksInv, LinkRequestsMatch, Claims, At
    <3> QED BY <3>1, <3>2
  <2> QED BY <1>3, <2>1, LinkFields DEF TypeInv, At
<1> QED BY <1>2, <1>3, NewKept DEF Consumed

LEMMA ActivateNew ==
    ASSUME TypeInv, LinksInv, InsertionsAreNew, NEW r \in Requests, ActivateLink(r)
    PROVE  InsertionsAreNew'
<1>1. At(r, {"activate"}) /\ At(r, {"activate", "insert"}) /\ AccountFree(request[r].user)
  BY DEF ActivateLink, At
<1>2. CASE Finish(r)
  BY <1>1, <1>2, ConsumedAlone DEF ActivateLink
<1>3. CASE Continue(r, "insert") /\ UNCHANGED session /\ ~Consumed(request[r])
  <2>1. request'[r].id = request[r].id /\ \A p \in Requests : p # r => request'[p] = request[p]
    <3>1. request[r] \in LinkRequests
      BY <1>1, LinkFields
    <3> QED BY <1>3, <3>1 DEF Continue, TypeInv, LinkRequests
  <2> QED BY <1>3, <2>1 DEF InsertionsAreNew, Consumed, At
<1> QED BY <1>2, <1>3 DEF ActivateLink

LEMMA StepNew ==
    ASSUME TypeInv, LinksInv, InsertionsAreNew, [Next]_vars
    PROVE  InsertionsAreNew'
<1>1. CASE UNCHANGED vars
  BY <1>1 DEF vars, InsertionsAreNew, Consumed, At
<1>2. ASSUME NEW r \in Requests, request'[r].at # "insert", UNCHANGED session,
             \A p \in Requests : p # r => request'[p] = request[p]
      PROVE  InsertionsAreNew'
  <2>1. \A p \in Requests : At(p, {"insert"})' => At(p, {"insert"}) /\ request'[p] = request[p]
    BY <1>2 DEF At
  <2> QED BY <1>2, <2>1, NewKept DEF Consumed
<1>3. ASSUME NEW r \in Requests, Update(r) \/ Post(r) PROVE InsertionsAreNew'
  <2>1. UNCHANGED session
    BY <1>3 DEF Update, AttachTelegramIdentity, UnlinkFromTelegram, Post, LinkWallet,
       UnlinkFromDashboard, SendTest, NotifyVerifiedAction, HandleKeeperHubEvent, Linking
  <2>2. request'[r].at # "insert" /\ \A p \in Requests : p # r => request'[p] = request[p]
    BY <1>3 DEF Update, AttachTelegramIdentity, UnlinkFromTelegram, Post, LinkWallet,
       UnlinkFromDashboard, SendTest, NotifyVerifiedAction, HandleKeeperHubEvent, Receive, TypeInv
  <2> QED BY <1>2, <2>1, <2>2
<1>4. ASSUME NEW r \in Requests, Crash(r) \/ RevokeLink(r) \/ UpdateDelivery(r)
      PROVE  InsertionsAreNew'
  BY <1>2, <1>4 DEF Crash, RevokeLink, UpdateDelivery, Finish, TypeInv, Idle, Linking
<1>5. ASSUME NEW r \in Requests, DetectTelegramAccount(r) PROVE InsertionsAreNew'
  <2>1. \A p \in Requests : At(p, {"insert"})' => At(p, {"insert"}) /\ request'[p] = request[p]
    BY <1>5 DEF DetectTelegramAccount, Finish, TypeInv, At, Idle
  <2>2. \A s \in Sessions : session[s].state # "consumed" => session'[s].state # "consumed"
    BY <1>5 DEF DetectTelegramAccount, TypeInv, SessionRows
  <2> QED BY <2>1, <2>2, NewKept, LinkFields DEF Consumed, At
<1>6. ASSUME NEW r \in Requests, ReadRegisteredPlan(r) PROVE InsertionsAreNew'
  <2>1. request'[r].at # "insert" /\ \A p \in Requests : p # r => request'[p] = request[p]
    BY <1>6 DEF ReadRegisteredPlan, Finish, TypeInv, Idle
  <2> QED BY <1>2, <1>6, <2>1 DEF ReadRegisteredPlan, Linking
<1>7. ASSUME NEW r \in Requests, InsertLink(r) PROVE InsertionsAreNew'
  BY <1>7, ConsumedAlone DEF InsertLink, At
<1>8. ASSUME NEW r \in Requests, ReserveDelivery(r) PROVE InsertionsAreNew'
  <2>1. request'[r].at # "insert" /\ \A p \in Requests : p # r => request'[p] = request[p]
    BY <1>8 DEF ReserveDelivery, Finish, TypeInv, Idle
  <2> QED BY <1>2, <1>8, <2>1 DEF ReserveDelivery, Linking
<1>9. ASSUME NEW r \in Requests, FindActiveRecipient(r) \/ SendTelegram(r)
      PROVE  InsertionsAreNew'
  <2>1. /\ At(r, {"lookup", "send", "sent", "failed", "suppress"})
        /\ \E place \in {"send", "sent", "failed", "suppress"} : Continue(r, place)
    BY <1>9 DEF FindActiveRecipient, SendTelegram, At
  <2>2. request'[r].at # "insert" /\ \A p \in Requests : p # r => request'[p] = request[p]
    BY <2>1, AttemptContinues DEF Continue, TypeInv
  <2> QED BY <1>2, <1>9, <2>2 DEF FindActiveRecipient, SendTelegram, Linking
<1>10. ASSUME NEW s \in Sessions, NEW o \in Owners, CreateLinkSession(s, o)
       PROVE  InsertionsAreNew'
  <2>1. \A t \in Sessions : session[t].state # "consumed" => session'[t].state # "consumed"
    BY <1>10 DEF CreateLinkSession, TypeInv, SessionRows
  <2> QED BY <1>10, <2>1, NewKept, LinkFields DEF CreateLinkSession, Consumed, At
<1>11. ASSUME NEW o \in Notified, BackoffElapses(o) PROVE InsertionsAreNew'
  BY <1>11 DEF BackoffElapses, Linking, InsertionsAreNew, Consumed, At
<1>12. ASSUME NEW r \in Requests, Serve(r) PROVE InsertionsAreNew'
  BY <1>4, <1>5, <1>6, <1>7, <1>8, <1>9, <1>12, ActivateNew DEF Serve
<1> QED BY <1>1, <1>3, <1>4, <1>10, <1>11, <1>12 DEF Next
-----------------------------------------------------------------------------
LEMMA Invariance == Spec => []IInv
<1>1. Init => IInv
  BY InitType, InitLinks, InitNew, InitAttempt DEF IInv
<1>2. IInv /\ [Next]_vars => IInv'
  BY StepType, StepLinks, StepNew, StepAttempt DEF IInv
<1> QED BY <1>1, <1>2, PTL DEF Spec

\* Every variable keeps its type: only sessions with an owner and an account
\* become links, and no row counts more attempts than are made.
THEOREM TelegramTypeCorrect == Spec => []TypeOK
<1>1. IInv => TypeOK
  BY TypeInvIsType DEF IInv
<1> QED BY <1>1, Invariance, PTL

\* However many requests activate at once, a wallet alerts one account and an
\* account watches no more wallets than its limit, each by a session of both.
THEOREM TelegramLinksAreBounded == Spec => []LinksAreBounded
<1>1. IInv => LinksAreBounded
  <2> SUFFICES ASSUME IInv, NEW o \in Owners PROVE Cardinality(LinkOf(o)) <= 1
    BY DEF IInv, LinksInv, LinksAreBounded
  <2>1. CASE LinkOf(o) = {}
    BY <2>1, FS_EmptySet
  <2>2. CASE \E l \in LinkOf(o) : TRUE
    <3>1. PICK l \in LinkOf(o) : TRUE
      BY <2>2
    <3>2. LinkOf(o) = {l}
      BY <3>1 DEF IInv, LinksInv, OneLinkPerWallet, LinkOf
    <3> QED BY <3>2, FS_Singleton
  <2> QED BY <2>1, <2>2
<1> QED BY <1>1, Invariance, PTL

\* However often an event is posted and by however many requests, the chat
\* gets a second message only after an attempt was answered with a failure.
THEOREM TelegramSendsOnce == Spec => []OneMessageUnlessFailed
<1>1. IInv => OneMessageUnlessFailed
  BY DEF IInv, OneAttempt, OneMessageUnlessFailed
<1> QED BY <1>1, Invariance, PTL

\* However often a session is confirmed and however the requests interleave
\* with an unlink, it links a wallet at most once.
THEOREM TelegramSessionsLinkOnce == Spec => SessionsLinkOnce
<1> DEFINE LinksOnce == \A l \in active' \ active : session[l.id].state # "consumed"
<1>1. IInv /\ [Next]_vars => [LinksOnce]_vars
  <2> SUFFICES ASSUME IInv, Next PROVE LinksOnce
    OBVIOUS
  <2>1. ASSUME NEW r \in Requests, InsertLink(r) PROVE LinksOnce
    BY <2>1 DEF IInv, InsertionsAreNew, Consumed, InsertLink
  <2>2. ASSUME active' \subseteq active PROVE LinksOnce
    BY <2>2
  <2>3. ASSUME NEW r \in Requests, Serve(r) PROVE LinksOnce
    BY <2>1, <2>2, <2>3
    DEF Serve, DetectTelegramAccount, ReadRegisteredPlan, ActivateLink, RevokeLink,
        ReserveDelivery, FindActiveRecipient, SendTelegram, UpdateDelivery, Linking
  <2>4. ASSUME NEW r \in Requests, Update(r) \/ Post(r) \/ Crash(r) PROVE LinksOnce
    BY <2>2, <2>4
    DEF Update, AttachTelegramIdentity, UnlinkFromTelegram, Post, LinkWallet,
        UnlinkFromDashboard, SendTest, NotifyVerifiedAction, HandleKeeperHubEvent, Crash, Linking
  <2> QED BY <2>2, <2>3, <2>4 DEF Next, CreateLinkSession, BackoffElapses, Linking
<1> QED BY <1>1, Invariance, PTL DEF Spec, SessionsLinkOnce
=============================================================================
