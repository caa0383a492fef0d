----------------------------- MODULE ActionRoutes -----------------------------
(***************************************************************************)
(* The server's action routes: a signed intent is POSTed, checked against  *)
(* the chain, handed to a KeeperHub workflow under a fresh idempotency     *)
(* key, awaited, verified from the receipt and the resulting state,        *)
(* announced to Telegram and to the inheritance watcher, written to the    *)
(* activity ledger and answered.  Posts run concurrently, the owner also   *)
(* calls the plan directly, and a function may be killed at any await.     *)
(***************************************************************************)
EXTENDS Naturals, FiniteSets

CONSTANTS
    Intents,            \* signed intents: [action, value, signer, deadline]
    Policies,           \* values of the configured policy
    Keys,               \* recovery keys
    InitialPolicy, InitialKey,      \* of the plan before the posts
    Owner,
    HeartbeatInterval,
    SigningWindow,      \* MAX_SIGNING_WINDOW_SECONDS
    MaxPolls,           \* polls of waitForKeeperHubSettlement
    MaxPosts,           \* bound: posts
    MaxTime,            \* bound: clock
    MaxDirect,          \* bound: direct transactions of the owner
    MaxKills            \* bound: functions killed by the platform

Actions == {"createPlan", "configurePlan", "recovery", "heartbeatBySig", "evacuate"}
Posts == 1 .. MaxPosts

ASSUME RoutesAssumption ==
    /\ \A i \in Intents : /\ i.action \in Actions /\ i.deadline \in Nat
                          /\ i.action = "configurePlan" => i.value \in Policies
                          /\ i.action \in {"createPlan", "recovery"} => i.value \in Keys
                          /\ i.signer \in Keys \cup {Owner}
    /\ {HeartbeatInterval, SigningWindow, MaxPolls, MaxPosts, MaxTime, MaxDirect, MaxKills} \subseteq Nat
    /\ Owner \notin Keys
    /\ InitialPolicy \in Policies /\ InitialKey \in Keys

VARIABLES
    plan,       \* the plan's on-chain state
    used,       \* intents whose nonce is consumed
    time,
    posts,      \* how many posts have arrived; post p runs intent[p]
    intent,
    at,         \* what each post does next
    previous,   \* previousHeartbeat, read by the check of each post
    polls,
    execution,  \* KeeperHub's execution of each post and its transaction
    known,      \* what the server learned of that execution
    hash,       \* the transaction reported to each post, named by the post it is of
    result,     \* outcome of the post and the evidence it carries
    announced,
    counter,    \* activity_attempt_counters
    entries,    \* activity_entries
    attempt,    \* attempt allocated in the open append transaction of a post
    direct, kills
chain == <<plan, used, time>>
ledger == <<counter, entries, attempt>>
vars == <<chain, posts, intent, at, previous, polls, execution, known, hash, result,
          announced, ledger, direct, kills>>

NoResult == [outcome |-> "none", evidence |-> "nothing"]
Evidence == {"nothing", "id", "hash"}
Places == {"check", "submit", "await", "verify", "announce", "record", "insert", "answered", "dead"}
Open(p) == at[p] \notin {"answered", "dead"}

TypeOK ==
    /\ plan \in [created : BOOLEAN, policy : Policies, key : Keys, heartbeat : 0 .. MaxTime,
                 active : BOOLEAN, evacuated : BOOLEAN]
    /\ used \subseteq Intents
    /\ time \in 0 .. MaxTime
    /\ posts \in 0 .. MaxPosts
    /\ intent \in [1 .. posts -> Intents]
    /\ at \in [1 .. posts -> Places]
    /\ previous \in [1 .. posts -> 0 .. MaxTime]
    /\ polls \in [1 .. posts -> 0 .. MaxPolls]
    /\ execution \in [Posts -> {"none", "pending", "mined", "reverted"}]
    /\ known \in [1 .. posts -> Evidence]
    /\ hash \in [1 .. posts -> 1 .. posts]
    /\ result \in [1 .. posts -> [outcome : {"none", "verified", "failed"}, evidence : Evidence]]
    /\ announced \in [1 .. posts -> SUBSET {"telegram", "watcher"}]
    /\ counter \in [Intents -> 0 .. posts]
    /\ \A e \in entries : e.key \in Intents /\ e.attempt \in 1 .. counter[e.key] /\ e.post \in 1 .. posts
    /\ attempt \in [1 .. posts -> 0 .. MaxPosts]
    /\ direct \in 0 .. MaxDirect /\ kills \in 0 .. MaxKills

Init ==
    /\ plan \in [created : BOOLEAN, policy : {InitialPolicy}, key : {InitialKey},
                 heartbeat : {0}, active : {TRUE}, evacuated : {FALSE}]
    /\ used = {} /\ time = 0 /\ posts = 0 /\ direct = 0 /\ kills = 0
    /\ intent = <<>> /\ at = <<>> /\ previous = <<>> /\ polls = <<>> /\ known = <<>>
    /\ hash = <<>> /\ result = <<>> /\ announced = <<>> /\ attempt = <<>>
    /\ execution = [p \in Posts |-> "none"]
    /\ counter = [i \in Intents |-> 0] /\ entries = {}

-----------------------------------------------------------------------------
(* The plan contract, and time                                             *)

Cooling == time < plan.heartbeat + HeartbeatInterval

\* readExpectedSigner and the signer each contract function recovers
ExpectedSigner(action) ==
    IF action \in {"recovery", "evacuate"} THEN plan.key ELSE Owner

\* what the contract requires of a relayed signature
Executable(i) ==
    /\ i \notin used /\ time <= i.deadline
    /\ IF i.action = "createPlan" THEN ~plan.created ELSE plan.created
    /\ i.signer = ExpectedSigner(i.action)
    /\ i.action = "heartbeatBySig" => plan.active /\ ~Cooling
    /\ i.action = "evacuate" => ~plan.evacuated

Applied(i) ==
    CASE i.action = "createPlan" -> [plan EXCEPT !.created = TRUE, !.key = i.value, !.heartbeat = time]
      [] i.action = "configurePlan" -> [plan EXCEPT !.policy = i.value]
      [] i.action = "recovery" -> [plan EXCEPT !.key = i.value]
      [] i.action = "heartbeatBySig" -> [plan EXCEPT !.heartbeat = time]
      [] i.action = "evacuate" -> [plan EXCEPT !.evacuated = TRUE, !.active = FALSE]

\* KeeperHub's transaction is mined: it succeeds or it reverts
Mine(p) ==
    /\ execution[p] = "pending"
    /\ IF Executable(intent[p])
       THEN /\ plan' = Applied(intent[p]) /\ used' = used \cup {intent[p]}
            /\ execution' = [execution EXCEPT ![p] = "mined"]
       ELSE execution' = [execution EXCEPT ![p] = "reverted"] /\ UNCHANGED <<plan, used>>
    /\ UNCHANGED <<time, posts, intent, at, previous, polls, known, hash, result, announced, ledger, direct, kills>>

\* the owner's own transactions: heartbeat, a setter, toggleLiveness
OwnerActs ==
    /\ plan.created /\ direct < MaxDirect
    /\ direct' = direct + 1
    /\ \/ plan.active /\ ~Cooling /\ plan' = [plan EXCEPT !.heartbeat = time]
       \/ \E v \in Policies : plan' = [plan EXCEPT !.policy = v]
       \/ \E b \in BOOLEAN : plan' = [plan EXCEPT !.active = b]
    /\ plan' # plan
    /\ UNCHANGED <<used, time, posts, intent, at, previous, polls, execution, known, hash, result,
                   announced, ledger, kills>>

Tick ==
    /\ time < MaxTime /\ time' = time + 1
    /\ UNCHANGED <<plan, used, posts, intent, at, previous, polls, execution, known, hash, result,
                   announced, ledger, direct, kills>>

-----------------------------------------------------------------------------
(* One post                                                                *)

Goto(p, place) == at' = [at EXCEPT ![p] = place]
Settle(p, outcome, evidence) ==
    result' = [result EXCEPT ![p] = [outcome |-> outcome, evidence |-> evidence]]

\* mutant: the error is thrown outside withActionEvidence
FailBare(p) == Settle(p, "failed", "nothing") /\ Goto(p, "record")

\* the error carries what withActionEvidence attached to it
Fail(p) == Settle(p, "failed", known[p]) /\ Goto(p, "record")

\* a well-formed request arrives; nothing stops the same intent from coming twice
Receive ==
    /\ posts < MaxPosts /\ posts' = posts + 1
    /\ \E i \in Intents : intent' = [p \in 1 .. posts' |-> IF p = posts' THEN i ELSE intent[p]]
    /\ at' = [p \in 1 .. posts' |-> IF p = posts' THEN "check" ELSE at[p]]
    /\ previous' = [p \in 1 .. posts' |-> IF p = posts' THEN 0 ELSE previous[p]]
    /\ polls' = [p \in 1 .. posts' |-> IF p = posts' THEN 0 ELSE polls[p]]
    /\ known' = [p \in 1 .. posts' |-> IF p = posts' THEN "nothing" ELSE known[p]]
    /\ hash' = [p \in 1 .. posts' |-> IF p = posts' THEN p ELSE hash[p]]
    /\ result' = [p \in 1 .. posts' |-> IF p = posts' THEN NoResult ELSE result[p]]
    /\ announced' = [p \in 1 .. posts' |-> IF p = posts' THEN {} ELSE announced[p]]
    /\ attempt' = [p \in 1 .. posts' |-> IF p = posts' THEN 0 ELSE attempt[p]]
    /\ UNCHANGED <<chain, execution, counter, entries, direct, kills>>

\* what the routes ask of an intent before they spend gas on it; none of them
\* looks at the nonce or at whether liveness is active
Timely(i) == i.deadline > time /\ i.deadline <= time + SigningWindow
PlanAcceptable(i) == ~plan.created /\ i.signer = Owner
ConfigurationAcceptable(i) == plan.created /\ i.signer = ExpectedSigner(i.action)
HeartbeatAcceptable(i) ==
    plan.created /\ i.signer = Owner /\ ~(plan.heartbeat > 0 /\ Cooling)
EvacuationAcceptable(i) == plan.created /\ ~plan.evacuated /\ i.signer = plan.key
Acceptable(i) ==
    /\ Timely(i)
    /\ CASE i.action = "createPlan" -> PlanAcceptable(i)
         [] i.action \in {"configurePlan", "recovery"} -> ConfigurationAcceptable(i)
         [] i.action = "heartbeatBySig" -> HeartbeatAcceptable(i)
         [] i.action = "evacuate" -> EvacuationAcceptable(i)

Check(p) ==
    /\ at[p] = "check"
    /\ IF Acceptable(intent[p])
       THEN /\ Goto(p, "submit") /\ previous' = [previous EXCEPT ![p] = plan.heartbeat]
            /\ UNCHANGED result
       ELSE Fail(p) /\ UNCHANGED previous
    /\ UNCHANGED <<chain, posts, intent, polls, execution, known, hash, announced, ledger, direct, kills>>

\* the webhook starts an execution and its id is returned, or the answer is
\* lost, or the webhook refuses
Submit(p) ==
    /\ at[p] = "submit"
    /\ \/ /\ execution' = [execution EXCEPT ![p] = "pending"]
          /\ known' = [known EXCEPT ![p] = "id"] /\ Goto(p, "await") /\ UNCHANGED result
       \/ execution' = [execution EXCEPT ![p] = "pending"] /\ Fail(p) /\ UNCHANGED known
       \/ Fail(p) /\ UNCHANGED <<execution, known>>
    /\ UNCHANGED <<chain, posts, intent, previous, polls, hash, announced, ledger, direct, kills>>

\* mutants: the loop polls once too often, or without a bound
PollOnceMore(p) ==
    /\ polls[p] <= MaxPolls
    /\ polls' = [polls EXCEPT ![p] = @ + 1]
    /\ UNCHANGED <<at, known, hash, result>>
PollForever(p) ==
    /\ polls' = [polls EXCEPT ![p] = (@ + 1) % 2]
    /\ UNCHANGED <<at, known, hash, result>>

\* a poll finds no terminal status, or success without a transaction hash
PollAgain(p) ==
    /\ polls[p] < MaxPolls
    /\ polls' = [polls EXCEPT ![p] = @ + 1]
    /\ UNCHANGED <<at, known, hash, result>>

\* KeeperHub reports success, sponsorship and the hash of a transaction of its
\* own: whether it is mined, and for which post, is its word only
PollSettles(p) ==
    /\ \E q \in 1 .. posts : execution[q] # "none" /\ hash' = [hash EXCEPT ![p] = q]
    /\ known' = [known EXCEPT ![p] = "hash"] /\ Goto(p, "verify")
    /\ polls' = [polls EXCEPT ![p] = 0]
    /\ UNCHANGED result

\* failure, no sponsorship, a lost connection, or the last poll passed:
\* whatever the transaction does later, the post has failed
PollFails(p) == Fail(p) /\ polls' = [polls EXCEPT ![p] = 0] /\ UNCHANGED <<known, hash>>

Await(p) ==
    /\ at[p] = "await"
    /\ PollAgain(p) \/ PollSettles(p) \/ PollFails(p)
    /\ UNCHANGED <<chain, posts, intent, previous, execution, announced, ledger, direct, kills>>

\* the events the contract emits of an action, and the one its route looks for;
\* the creation configures the new plan as the setters do
Emitted(action) ==
    CASE action = "createPlan" -> {"PlanCreated", "ConfigUpdated"}
      [] action \in {"configurePlan", "recovery"} -> {"ConfigUpdated"}
      [] action = "heartbeatBySig" -> {"HeartbeatRecorded"}
      [] action = "evacuate" -> {"EvacuationTriggered"}
Expected(action) ==
    CASE action = "createPlan" -> "PlanCreated"
      [] action \in {"configurePlan", "recovery"} -> "ConfigUpdated"
      [] action = "heartbeatBySig" -> "HeartbeatRecorded"
      [] action = "evacuate" -> "EvacuationTriggered"

\* an event of the plan is looked for in the receipt of the reported hash; that
\* the transaction carried this signature is not
EventFound(p) ==
    /\ execution[hash[p]] = "mined"
    /\ Expected(intent[p].action) \in Emitted(intent[hash[p]].action)

\* the state is read after the receipt, as it is by then
PlanMatches(p) == plan.created
ConfigurationMatches(p) ==
    IF intent[p].action = "recovery" THEN plan.key = intent[p].value
    ELSE plan.policy = intent[p].value
HeartbeatMatches(p) == plan.heartbeat > previous[p]
EvacuationMatches(p) == plan.evacuated
StateMatches(p) ==
    CASE intent[p].action = "createPlan" -> PlanMatches(p)
      [] intent[p].action \in {"configurePlan", "recovery"} -> ConfigurationMatches(p)
      [] intent[p].action = "heartbeatBySig" -> HeartbeatMatches(p)
      [] intent[p].action = "evacuate" -> EvacuationMatches(p)

\* mutant: the resulting state is proof enough
ProvenByState(p) == StateMatches(p)

Proven(p) == EventFound(p) /\ StateMatches(p)

Verify(p) ==
    /\ at[p] = "verify"
    /\ \/ /\ execution[hash[p]] # "pending" /\ Proven(p)
          /\ Settle(p, "verified", "hash") /\ Goto(p, "announce") /\ UNCHANGED hash
       \* the proof is refused, no receipt came within the timeout, a read failed
       \/ Fail(p) /\ hash' = [hash EXCEPT ![p] = p]
    /\ previous' = [previous EXCEPT ![p] = 0]
    /\ UNCHANGED <<chain, posts, intent, polls, execution, known, announced, ledger, direct, kills>>

Audience(i) == IF i.action = "evacuate" THEN {"telegram"} ELSE {"telegram", "watcher"}

\* notifyVerifiedAction and start- or signalInheritanceWatcher run side by side
\* and report their failures instead of throwing
Announce(p) ==
    /\ at[p] = "announce"
    /\ \E a \in Audience(intent[p]) \ announced[p] : announced' = [announced EXCEPT ![p] = @ \cup {a}]
    /\ IF announced'[p] = Audience(intent[p]) THEN Goto(p, "record") ELSE UNCHANGED at
    /\ UNCHANGED <<chain, posts, intent, previous, polls, execution, known, hash, result, ledger, direct, kills>>

\* mutant: the counter is incremented before, and outside, the transaction
AllocateAttemptOutside(p) ==
    /\ attempt' = [attempt EXCEPT ![p] = counter[intent[p]] + 1]
    /\ counter' = [counter EXCEPT ![intent[p]] = attempt'[p]]
    /\ Goto(p, "insert")

\* the append transaction: the counter's row stays locked until it ends
AllocateAttempt(p) ==
    /\ \A q \in 1 .. posts : intent[q] = intent[p] => at[q] # "insert"
    /\ attempt' = [attempt EXCEPT ![p] = counter[intent[p]] + 1]
    /\ Goto(p, "insert")
    /\ UNCHANGED counter

BeginAppend(p) ==
    /\ at[p] = "record" /\ AllocateAttempt(p)
    /\ UNCHANGED <<chain, posts, intent, previous, polls, execution, known, hash, result, announced,
                   entries, direct, kills>>

InsertEntry(p) ==
    /\ at[p] = "insert"
    /\ counter' = [counter EXCEPT ![intent[p]] = attempt[p]]
    /\ entries' = entries \cup {[key |-> intent[p], attempt |-> attempt[p], post |-> p,
                                 outcome |-> result[p].outcome, evidence |-> result[p].evidence]}
    /\ attempt' = [attempt EXCEPT ![p] = 0] /\ Goto(p, "answered")
    /\ UNCHANGED <<chain, posts, intent, previous, polls, execution, known, hash, result, announced,
                   direct, kills>>

\* safelyRecord swallows a failed append, which rolls the transaction back
AppendFails(p) ==
    /\ at[p] \in {"record", "insert"} /\ Goto(p, "answered")
    /\ attempt' = [attempt EXCEPT ![p] = 0]
    /\ UNCHANGED <<chain, posts, intent, previous, polls, execution, known, hash, result, announced,
                   counter, entries, direct, kills>>

\* the platform kills a function that outlives maxDuration: all it knew is lost
Kill(p) ==
    /\ Open(p) /\ kills < MaxKills /\ kills' = kills + 1 /\ Goto(p, "dead")
    /\ previous' = [previous EXCEPT ![p] = 0] /\ polls' = [polls EXCEPT ![p] = 0]
    /\ known' = [known EXCEPT ![p] = "nothing"] /\ hash' = [hash EXCEPT ![p] = p]
    /\ result' = [result EXCEPT ![p] = NoResult]
    /\ announced' = [announced EXCEPT ![p] = {}] /\ attempt' = [attempt EXCEPT ![p] = 0]
    /\ UNCHANGED <<chain, posts, intent, execution, counter, entries, direct>>

Serve(p) ==
    \/ Check(p) \/ Submit(p) \/ Await(p) \/ Verify(p) \/ Announce(p)
    \/ BeginAppend(p) \/ InsertEntry(p) \/ AppendFails(p)

Next ==
    \/ Receive \/ OwnerActs \/ Tick
    \/ \E p \in 1 .. posts : Serve(p) \/ Mine(p) \/ Kill(p)

\* a function that is not killed keeps running; nothing obliges KeeperHub, the
\* chain or the caller
Fairness == \A p \in Posts : WF_vars(p \in 1 .. posts /\ Serve(p))

Spec == Init /\ [][Next]_vars /\ Fairness

-----------------------------------------------------------------------------
(* Properties                                                              *)

\* However often one signed intent is posted and whatever KeeperHub reports,
\* the verified answers name one transaction of that signature: of two posts that
\* race, the one whose own transaction reverted is not verified by it because it
\* finds the change that the other made.
SignatureVouchedOnce ==
    \A i \in Intents :
        LET vouched == {p \in 1 .. posts : /\ intent[p] = i /\ result[p].outcome = "verified"
                                          /\ intent[hash[p]] = i}
        IN  \A p, q \in vouched : hash[p] = hash[q]

\* A change that a post made on the chain can be found from the ledger entry
\* of that post, the failed ones included: the entry names the execution when
\* the submission was answered, and the hash KeeperHub gave when it was settled.
FailuresAreTraceable ==
    \A e \in entries : execution[e.post] = "mined" => e.evidence = known[e.post]

\* The attempts recorded of one intent are numbered 1, 2, ... without a gap
\* or a repetition, however its posts overlap and whichever appends fail.
AttemptsAreContiguous ==
    \A i \in Intents :
        LET mine == {e \in entries : e.key = i} IN
        /\ {e.attempt : e \in mine} = 1 .. counter[i]
        /\ Cardinality(mine) = counter[i]

\* Every post is answered or killed, even when KeeperHub never settles; a
\* verified one has told its whole audience by then.
PostsSettle ==
    \A p \in Posts :
        p \in 1 .. posts ~> /\ p \in 1 .. posts /\ ~Open(p)
                            /\ at[p] = "answered" /\ result[p].outcome = "verified" =>
                                   announced[p] = Audience(intent[p])

=============================================================================
