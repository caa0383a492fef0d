------------------------- MODULE InheritanceWatcher -------------------------
(***************************************************************************)
(* The durable watcher of one plan: dashboard/workflows/inheritance-       *)
(* watcher.ts and dashboard/lib/inheritance-watcher*.ts.  A run claims the *)
(* hook named after owner and plan, reads the plan, and sleeps, executes   *)
(* or completes.  The action routes resume the hook after a verified       *)
(* change and start a run when nobody holds it.                            *)
(*                                                                         *)
(* Time is relative: `age' is the time since the last heartbeat, a sleep   *)
(* is the time it has left.  Both naps of the code, the token recheck of   *)
(* 300 s and the back-off of 1 min, last one unit.  The chain is read at   *)
(* the time of the clock: a latest block that lags behind it makes a run   *)
(* wait again with a deadline in the past, which is no wait at all.        *)
(*                                                                         *)
(* An execution step (InheritanceMonitor) is reduced to its effect: the    *)
(* ether, then the tokens, each distributed or not, reported or not.       *)
(***************************************************************************)
EXTENDS Naturals

CONSTANTS
    Runs,                \* workflow runs alive at a time, at most
    NoRun,
    Native,              \* the ether of the plan, as a target
    Tokens,
    Periods,             \* values of timeoutDuration + gracePeriod
    MaxAge,              \* the longest of them: ages beyond it are not told apart
    MaxEvents            \* bound: changes the owner makes, runs that exhaust the
                         \* retries of a step

ASSUME WatcherAssumption ==
    /\ NoRun \notin Runs
    /\ Native \notin Tokens
    /\ MaxAge \in Nat
    /\ Periods \subseteq 1 .. MaxAge /\ MaxAge \in Periods
    /\ MaxEvents \in Nat

VARIABLES
    age, period,         \* time since lastHeartbeat; timeoutDuration + gracePeriod
    active, allocated,   \* livenessActive; beneficiaries with shares of 100%
    evacuated, executed,
    registered,          \* the factories still name this plan
    tracked, pullable, distributed,
    created,             \* the plan route has reported its new plan
    toSend,              \* verified changes whose signal is still to be sent
    events,              \* that happened, of MaxEvents
    hook,                \* the run that holds the hook
    signals,             \* signals queued at the hook
    at,                  \* run -> where it stands
    base,                \* run -> what it read of the plan first
    decision,            \* run -> getInheritanceWatchDecision of what it read
    timer,               \* run -> time its sleep has left
    failed               \* run -> its execution step met a failure

clockVars == <<age, period>>
flagVars  == <<active, allocated, evacuated, registered>>
estate    == <<executed, tracked, pullable, distributed>>
planVars  == <<clockVars, flagVars, estate>>
sendVars  == <<created, toSend>>
hookVars  == <<hook, signals>>
runVars   == <<at, base, decision, timer, failed>>
vars      == <<planVars, sendVars, events, hookVars, runVars>>

Event == events < MaxEvents /\ events' = events + 1

Places    == {"absent", "starting", "reading", "based", "observed", "waiting",
              "native", "tokens", "backoff", "deduplicated", "done", "died"}
Decisions == {"none", "over", "inherited", "wait", "recheck", "execute"}
Snapshots == [armed : BOOLEAN, executed : BOOLEAN, age : 0 .. MaxAge,
              period : Periods, registered : BOOLEAN]

Init ==
    /\ age = 0
    /\ period \in Periods
    /\ active = TRUE /\ allocated = TRUE
    /\ evacuated = FALSE /\ executed = FALSE
    /\ registered = TRUE
    /\ tracked \in SUBSET Tokens
    /\ pullable = {} /\ distributed = {}
    /\ created = FALSE /\ toSend = 0
    /\ events = 0
    /\ hook = NoRun /\ signals = 0
    /\ at = [r \in Runs |-> "absent"]
    /\ base = [r \in Runs |-> [armed |-> FALSE, executed |-> FALSE, age |-> 0,
                               period |-> period, registered |-> TRUE]]
    /\ decision = [r \in Runs |-> "none"]
    /\ timer = [r \in Runs |-> 0]
    /\ failed = [r \in Runs |-> FALSE]
-----------------------------------------------------------------------------
(* Time, the owner and the other executors.                                *)

Before(n) == IF n = 0 THEN 0 ELSE n - 1
After(n)  == IF n = MaxAge THEN n ELSE n + 1

Tick ==
    /\ age' = After(age)
    /\ timer' = [r \in Runs |-> Before(timer[r])]
    /\ base' = [r \in Runs |-> [base[r] EXCEPT !.age = After(@)]]
    /\ UNCHANGED <<period, flagVars, estate, sendVars, events, hookVars,
                   at, decision, failed>>

Change ==
    /\ Event
    /\ UNCHANGED <<created, hookVars, runVars>>

\* A change that an action route relayed and verified: a signal follows.
Verified == Change /\ toSend' = toSend + 1

\* A change made on chain, past the dashboard.
Unannounced == Change /\ UNCHANGED toSend

HeartbeatBySig ==
    /\ Verified
    /\ active
    /\ age' = 0
    /\ UNCHANGED <<period, flagVars, estate>>

SetLivenessConfigBySig ==
    /\ Verified
    /\ period' \in Periods
    /\ UNCHANGED <<age, flagVars, estate>>

SetBeneficiariesBySig ==
    /\ Verified
    /\ allocated' = TRUE
    /\ UNCHANGED <<clockVars, active, evacuated, registered, estate>>

SetTrackedTokensBySig ==
    /\ Verified
    /\ tracked' \in SUBSET Tokens
    /\ UNCHANGED <<clockVars, flagVars, executed, pullable, distributed>>

\* toggleLiveness, or addBeneficiary and removeBeneficiary.
OwnerReconfigures ==
    /\ Unannounced
    /\ \/ active' = ~active /\ UNCHANGED allocated
       \/ allocated' = ~allocated /\ UNCHANGED active
    /\ UNCHANGED <<clockVars, evacuated, registered, estate>>

\* The evacuation route verifies its transaction and sends no signal.
Evacuate ==
    /\ Unannounced
    /\ evacuated' = TRUE /\ active' = FALSE
    /\ UNCHANGED <<clockVars, allocated, registered, estate>>

Approve(t) ==
    /\ Unannounced
    /\ pullable' = IF t \in pullable THEN pullable \ {t} ELSE pullable \cup {t}
    /\ UNCHANGED <<clockVars, flagVars, executed, tracked, distributed>>

Supersede ==
    /\ Unannounced
    /\ registered' = FALSE
    /\ UNCHANGED <<clockVars, active, allocated, evacuated, estate>>

PlanDue  == active /\ allocated /\ ~evacuated /\ age >= period
Eligible == IF PlanDue THEN (tracked \cap pullable) \ distributed ELSE {}

\* The scheduled scan and the open dashboards execute the same plan.
OthersExecute ==
    /\ \/ PlanDue /\ executed' = TRUE /\ UNCHANGED distributed
       \/ \E t \in Eligible : distributed' = distributed \cup {t} /\ UNCHANGED executed
    /\ UNCHANGED <<clockVars, flagVars, tracked, pullable, sendVars, events,
                   hookVars, runVars>>

Environment ==
    \/ Tick
    \/ HeartbeatBySig
    \/ SetLivenessConfigBySig
    \/ SetBeneficiariesBySig
    \/ SetTrackedTokensBySig
    \/ OwnerReconfigures
    \/ Evacuate
    \/ \E t \in Tokens : Approve(t)
    \/ Supersede
    \/ OthersExecute
-----------------------------------------------------------------------------
(* The routes: startInheritanceWatcher and signalInheritanceWatcher.       *)

Free(r) == at[r] \in {"absent", "deduplicated", "done", "died"}

StartRun(r) ==
    /\ Free(r)
    /\ at' = [at EXCEPT ![r] = "starting"]
    /\ UNCHANGED <<hookVars, base, decision, timer, failed>>

\* A new plan gets its run, unless the workflow service is unavailable.
PlanCreated ==
    /\ ~created
    /\ created' = TRUE
    /\ \/ \E r \in Runs : StartRun(r)
       \/ UNCHANGED <<hookVars, runVars>>
    /\ UNCHANGED <<planVars, toSend, events>>

\* resumeHook finds the run that holds the hook, or else a run is started.
SendSignal ==
    /\ toSend > 0
    /\ toSend' = toSend - 1
    /\ \/ hook # NoRun /\ signals' = signals + 1 /\ UNCHANGED <<hook, runVars>>
       \/ hook = NoRun /\ \E r \in Runs : StartRun(r)
    /\ UNCHANGED <<planVars, created, events>>

\* "unavailable", which the route returns with its success.
LoseSignal ==
    /\ toSend > 0
    /\ toSend' = toSend - 1
    /\ UNCHANGED <<planVars, created, events, hookVars, runVars>>
-----------------------------------------------------------------------------
(* The runs.                                                               *)

Goto(r, place) == at' = [at EXCEPT ![r] = place]

\* Returning from the workflow disposes the hook and what is queued at it.
Finish(r, place) ==
    /\ Goto(r, place)
    /\ hook' = NoRun
    /\ signals' = 0

\* Mutant: the hook is taken without asking for a conflict.
ClaimUnchecked(r) ==
    /\ at[r] = "starting"
    /\ hook' = r /\ signals' = 0
    /\ Goto(r, "reading")
    /\ UNCHANGED <<planVars, sendVars, events, base, decision, timer, failed>>

\* createHook and getConflict.
Claim(r) ==
    /\ at[r] = "starting"
    /\ IF hook = NoRun
       THEN hook' = r /\ signals' = 0 /\ Goto(r, "reading")
       ELSE UNCHANGED hookVars /\ Goto(r, "deduplicated")
    /\ UNCHANGED <<planVars, sendVars, events, base, decision, timer, failed>>

\* readInheritanceWatchState reads the plan first and its tokens after it.
ReadPlan(r) ==
    /\ at[r] = "reading"
    /\ base' = [base EXCEPT ![r] =
          [armed |-> active /\ allocated /\ ~evacuated, executed |-> executed,
           age |-> age, period |-> period, registered |-> registered]]
    /\ Goto(r, "based")
    /\ UNCHANGED <<planVars, created, toSend, events, hookVars,
                   decision, timer, failed>>

\* Mutant: the deadline is never compared with the clock.
DecideNeverDue(b, isRegistered, inactivity) ==
    IF ~isRegistered \/ ~b.armed THEN "over"
    ELSE IF b.executed THEN "inherited"
    ELSE "wait"

\* Mutant: a token that is not approved is not waited for.
DecideApproved(b, isRegistered, inactivity) ==
    IF ~isRegistered \/ ~b.armed THEN "over"
    ELSE IF b.executed
         THEN IF (tracked \cap pullable) \ distributed # {} THEN "execute"
              ELSE "inherited"
    ELSE IF b.age < inactivity THEN "wait" ELSE "execute"

\* Mutant: the tokens already distributed are counted as pending.
DecideTracked(b, isRegistered, inactivity) ==
    IF ~isRegistered \/ ~b.armed THEN "over"
    ELSE IF b.executed
         THEN IF (tracked \cap pullable) \ distributed # {} THEN "execute"
              ELSE IF tracked # {} THEN "recheck"
              ELSE "inherited"
    ELSE IF b.age < inactivity THEN "wait" ELSE "execute"

\* getInheritanceWatchDecision, of the plan as read, its tokens as they are.
Decide(b, isRegistered, inactivity) ==
    IF ~isRegistered \/ ~b.armed THEN "over"
    ELSE IF b.executed
         THEN IF (tracked \cap pullable) \ distributed # {} THEN "execute"
              ELSE IF tracked \ distributed # {} THEN "recheck"
              ELSE "inherited"
    ELSE IF b.age < inactivity THEN "wait" ELSE "execute"

\* The registry and the periods are read beside the plan: before or after
\* what changed in between.
ReadRest(r) ==
    /\ at[r] = "based"
    /\ \E isRegistered \in {base[r].registered, registered},
          inactivity \in {base[r].period, period} :
          LET d == Decide(base[r], isRegistered, inactivity)
          IN  /\ decision' = [decision EXCEPT ![r] = d]
              /\ timer' = [timer EXCEPT ![r] =
                    CASE d = "wait"    -> inactivity - base[r].age
                      [] d = "recheck" -> 1
                      [] OTHER         -> 0]
    /\ Goto(r, "observed")
    /\ UNCHANGED <<planVars, sendVars, events, hookVars, base, failed>>

\* The run goes on with its decision.
Turn(r) ==
    /\ at[r] = "observed"
    /\ CASE decision[r] \in {"over", "inherited"} -> Finish(r, "done")
         [] decision[r] \in {"wait", "recheck"} -> Goto(r, "waiting") /\ UNCHANGED hookVars
         [] decision[r] = "execute" -> Goto(r, "native") /\ UNCHANGED hookVars
    /\ failed' = [failed EXCEPT ![r] = FALSE]
    /\ UNCHANGED <<planVars, sendVars, events, base, decision, timer>>

\* The race of the sleep and the next signal.
SleepEnds(r) ==
    /\ at[r] = "waiting" /\ timer[r] = 0
    /\ Goto(r, "reading")
    /\ UNCHANGED <<planVars, sendVars, events, hookVars, base, decision,
                   timer, failed>>

SignalWakes(r) ==
    /\ at[r] = "waiting" /\ hook = r /\ signals > 0
    /\ signals' = signals - 1
    /\ Goto(r, "reading")
    /\ UNCHANGED <<planVars, sendVars, events, hook, base, decision,
                   timer, failed>>

NativeExecutes(r) ==
    /\ at[r] = "native"
    /\ PlanDue /\ ~executed /\ registered
    /\ executed' = TRUE
    /\ failed' \in {failed, [failed EXCEPT ![r] = TRUE]}
    /\ Goto(r, "tokens")
    /\ UNCHANGED <<clockVars, flagVars, tracked, pullable, distributed, sendVars, events, hookVars, base, decision, timer>>

NativeFails(r) ==
    /\ at[r] = "native"
    /\ PlanDue /\ ~executed
    /\ failed' = [failed EXCEPT ![r] = TRUE]
    /\ Goto(r, "tokens")
    /\ UNCHANGED <<planVars, sendVars, events, hookVars, base, decision, timer>>

NativeSkipped(r) ==
    /\ at[r] = "native"
    /\ ~PlanDue \/ executed
    /\ Goto(r, "tokens")
    /\ UNCHANGED <<planVars, sendVars, events, hookVars, base, decision,
                   timer, failed>>

\* Every eligible token is tried.  One that is not distributed counts as a
\* failure; one that is may do so too.
TokensTried(r) ==
    /\ at[r] = "tokens"
    /\ \E given \in SUBSET Eligible, failure \in BOOLEAN :
          /\ ~registered => given = {}
          /\ given # Eligible => failure
          /\ Eligible = {} => ~failure
          /\ distributed' = distributed \cup given
          /\ failed' = [failed EXCEPT ![r] = @ \/ failure]
    /\ IF failed'[r]
       THEN Goto(r, "backoff") /\ timer' = [timer EXCEPT ![r] = 1]
       ELSE Goto(r, "reading") /\ UNCHANGED timer
    /\ UNCHANGED <<clockVars, flagVars, executed, tracked, pullable, sendVars, events, hookVars, base, decision>>

BackoffEnds(r) ==
    /\ at[r] = "backoff" /\ timer[r] = 0
    /\ Goto(r, "reading")
    /\ UNCHANGED <<planVars, sendVars, events, hookVars, base, decision,
                   timer, failed>>

\* A step throws until its retries are exhausted, and the run fails.
Die(r) ==
    /\ Event
    /\ at[r] \in {"reading", "based", "native", "tokens"}
    /\ Finish(r, "died")
    /\ UNCHANGED <<planVars, sendVars, base, decision, timer, failed>>

Run(r) ==
    \/ Claim(r)
    \/ ReadPlan(r)
    \/ ReadRest(r)
    \/ Turn(r)
    \/ SleepEnds(r)
    \/ SignalWakes(r)
    \/ NativeExecutes(r)
    \/ NativeFails(r)
    \/ NativeSkipped(r)
    \/ TokensTried(r)
    \/ BackoffEnds(r)

Next ==
    \/ Environment
    \/ PlanCreated
    \/ SendSignal
    \/ LoseSignal
    \/ \E r \in Runs : Run(r) \/ Die(r)

Spec == Init /\ [][Next]_vars

\* The workflow engine resumes its runs, time passes, and KeeperHub carries
\* out an execution it is asked for again and again.
FairSpec ==
    /\ Spec
    /\ WF_vars(Tick)
    /\ WF_vars(SendSignal)
    /\ \A r \in Runs : WF_vars(Run(r))
    /\ SF_vars(\E r \in Runs : NativeExecutes(r))
    /\ \A t \in Tokens :
          SF_vars(\E r \in Runs : t \in Eligible /\ TokensTried(r) /\ t \in distributed')
-----------------------------------------------------------------------------
TypeOK ==
    /\ age \in 0 .. MaxAge /\ period \in Periods
    /\ active \in BOOLEAN /\ allocated \in BOOLEAN /\ evacuated \in BOOLEAN
    /\ executed \in BOOLEAN /\ registered \in BOOLEAN
    /\ tracked \subseteq Tokens /\ pullable \subseteq Tokens
    /\ distributed \subseteq Tokens
    /\ created \in BOOLEAN
    /\ toSend \in 0 .. MaxEvents
    /\ events \in 0 .. MaxEvents
    /\ hook \in Runs \cup {NoRun} /\ signals \in 0 .. MaxEvents
    /\ at \in [Runs -> Places] /\ base \in [Runs -> Snapshots]
    /\ decision \in [Runs -> Decisions]
    /\ timer \in [Runs -> 0 .. MaxAge]
    /\ failed \in [Runs -> BOOLEAN]

Watching(r) == at[r] \in {"reading", "based", "observed", "waiting",
                          "native", "tokens", "backoff"}

\* Plan creation and signals may start any number of runs at once; only the
\* one that holds the hook ever reads the plan or submits an execution.
OneWatcher == \A r \in Runs : Watching(r) => hook = r

\* Some run is on its way to a first or another complete reading.
Watched == \E r \in Runs : at[r] \in {"reading", "waiting", "native", "tokens", "backoff"}

Armed == active /\ allocated /\ ~evacuated /\ registered
Calm  == Armed /\ \A r \in Runs : at[r] # "died"

Claimed(x) == x = Native \/ x \in tracked
Given(x)   == IF x = Native THEN executed ELSE x \in distributed
Payable(x) == x = Native \/ x \in pullable \/ Given(x)

\* A watched plan that stays armed is inherited, and so is every tracked
\* token the owner at last approves, however late and whatever executions
\* fail on the way: the run neither gives up after a failure nor retires
\* while a token of the list is undistributed.
WatchedEstateIsInherited ==
    \A x \in {Native} \cup Tokens :
       [](Watched /\ [](Calm /\ Claimed(x)) /\ <>[]Payable(x) => <>Given(x))

\* A plan that is fully distributed, evacuated or superseded is not watched
\* for ever.
WatcherStops ==
    <>[]((executed /\ tracked \subseteq distributed) \/ evacuated \/ ~registered)
       => <>[](\A r \in Runs : ~Watching(r))
=============================================================================
