---------------------- MODULE InheritanceWatcherProofs -----------------------
(***************************************************************************)
(* Safety of the durable watcher for any number of runs, any tokens, any   *)
(* periods and any number of events.                                       *)
(***************************************************************************)
EXTENDS InheritanceWatcher, TLAPS

\* Every signal, to be sent or queued at the hook, follows a change of its own.
SignalsAreEvents == toSend + signals <= events

\* A run that has observed the plan has decided.
Decided == \A r \in Runs : at[r] = "observed" => decision[r] # "none"

IInv == TypeOK /\ SignalsAreEvents /\ OneWatcher /\ Decided
-----------------------------------------------------------------------------
(* The clock and the readings.                                             *)

LEMMA CounterType ==
    ASSUME IInv
    PROVE  /\ events \in Nat /\ toSend \in Nat /\ signals \in Nat
           /\ MaxEvents \in Nat /\ MaxAge \in Nat /\ MaxAge >= 1
           /\ toSend + signals <= events /\ events <= MaxEvents
BY WatcherAssumption DEF IInv, TypeOK, SignalsAreEvents

LEMMA EventType ==
    ASSUME IInv, Event
    PROVE  events' \in 0 .. MaxEvents /\ events' = events + 1
BY CounterType DEF Event

LEMMA ClockType ==
    ASSUME NEW n \in 0 .. MaxAge
    PROVE  Before(n) \in 0 .. MaxAge /\ After(n) \in 0 .. MaxAge
BY WatcherAssumption DEF Before, After

LEMMA AgeingType ==
    ASSUME NEW s \in Snapshots
    PROVE  [s EXCEPT !.age = After(@)] \in Snapshots
<1>1. After(s.age) \in 0 .. MaxAge
  BY ClockType DEF Snapshots
<1> QED BY <1>1 DEF Snapshots

LEMMA DecisionType ==
    ASSUME NEW b, NEW isRegistered, NEW inactivity
    PROVE  /\ Decide(b, isRegistered, inactivity) \in Decisions \ {"none"}
           /\ Decide(b, isRegistered, inactivity) = "wait" => b.age < inactivity
BY DEF Decide, Decisions
-----------------------------------------------------------------------------
(* The holder of the hook.                                                 *)

\* Runs that do not watch may start and end as they like.
LEMMA OtherRunsKeep ==
    ASSUME IInv, hook' = hook,
           \A r \in Runs : Watching(r)' => Watching(r)
    PROVE  OneWatcher'
BY DEF IInv, OneWatcher

LEMMA MoveType ==
    ASSUME IInv, NEW r \in Runs, NEW place \in Places, Goto(r, place)
    PROVE  /\ at' \in [Runs -> Places] /\ at'[r] = place
           /\ \A s \in Runs \ {r} : at'[s] = at[s]
BY DEF Goto, IInv, TypeOK

\* The holder moves on, or a run that does not watch stays out.
LEMMA MoveKeeps ==
    ASSUME IInv, NEW r \in Runs, NEW place \in Places, Goto(r, place), hook' = hook,
           Watching(r) \/ place \in {"starting", "deduplicated"}
    PROVE  OneWatcher'
BY MoveType, OtherRunsKeep DEF Watching

\* The one watcher gives the hook up: nobody watches.
LEMMA FinishKeeps ==
    ASSUME IInv, NEW r \in Runs, NEW place \in {"done", "died"}, Finish(r, place), Watching(r)
    PROVE  /\ OneWatcher' /\ at' \in [Runs -> Places]
           /\ \A s \in Runs : at'[s] = "observed" => at[s] = "observed"
           /\ hook' \in Runs \cup {NoRun} /\ signals' = 0
<1>1. place \in Places /\ ~(place \in {"reading", "based", "observed", "waiting",
                                       "native", "tokens", "backoff"})
  BY DEF Places
<1>2. hook = r
  BY DEF IInv, OneWatcher
<1>3. /\ at' \in [Runs -> Places] /\ at'[r] = place
      /\ \A s \in Runs \ {r} : at'[s] = at[s]
  BY <1>1, MoveType DEF Finish
<1>4. ASSUME NEW s \in Runs, Watching(s)' PROVE FALSE
  <2>1. s # r
    BY <1>1, <1>3, <1>4 DEF Watching
  <2>2. Watching(s)
    BY <1>3, <1>4, <2>1 DEF Watching
  <2> QED BY <1>2, <2>1, <2>2 DEF IInv, OneWatcher
<1> QED BY <1>3, <1>4 DEF Finish, OneWatcher
-----------------------------------------------------------------------------
(* The invariant is preserved.                                             *)

LEMMA EnvironmentStep ==
    ASSUME IInv, Environment
    PROVE  IInv'
<1>1. CASE Tick
  <2>1. age' \in 0 .. MaxAge /\ timer' \in [Runs -> 0 .. MaxAge]
    BY <1>1, ClockType DEF Tick, IInv, TypeOK
  <2>2. base' \in [Runs -> Snapshots]
    BY <1>1, AgeingType DEF Tick, IInv, TypeOK
  <2>3. UNCHANGED <<period, flagVars, estate, sendVars, events, hookVars, at, decision, failed>>
    BY <1>1 DEF Tick
  <2>4. TypeOK'
    BY <2>1, <2>2, <2>3 DEF IInv, TypeOK, flagVars, estate, sendVars, hookVars
  <2> QED BY <2>3, <2>4 DEF IInv, SignalsAreEvents, OneWatcher, Watching, Decided, sendVars, hookVars
<1>2. CASE OthersExecute
  <2>1. /\ UNCHANGED <<clockVars, flagVars, tracked, pullable, sendVars, events, hookVars, runVars>>
        /\ executed' \in BOOLEAN /\ distributed' \subseteq Tokens
    <3>1. Eligible \subseteq Tokens
      BY DEF Eligible, IInv, TypeOK
    <3> QED BY <1>2, <3>1 DEF OthersExecute, IInv, TypeOK
  <2>2. TypeOK'
    BY <2>1 DEF IInv, TypeOK, clockVars, flagVars, sendVars, hookVars, runVars
  <2> QED BY <2>1, <2>2 DEF IInv, SignalsAreEvents, OneWatcher, Watching, Decided, sendVars, hookVars, runVars
<1>3. ASSUME Change, toSend' = toSend \/ toSend' = toSend + 1,
             age' \in 0 .. MaxAge, period' \in Periods,
             active' \in BOOLEAN, allocated' \in BOOLEAN, evacuated' \in BOOLEAN,
             executed' \in BOOLEAN, registered' \in BOOLEAN,
             tracked' \subseteq Tokens, pullable' \subseteq Tokens, distributed' \subseteq Tokens
      PROVE  IInv'
  <2>1. events' \in 0 .. MaxEvents /\ events' = events + 1
    BY <1>3, EventType DEF Change
  <2>2. toSend' \in 0 .. MaxEvents /\ toSend' + signals <= events'
    BY <1>3, <2>1, CounterType
  <2>3. TypeOK'
    BY <1>3, <2>1, <2>2 DEF Change, IInv, TypeOK, hookVars, runVars
  <2> QED BY <1>3, <2>2, <2>3 DEF Change, IInv, SignalsAreEvents, OneWatcher, Watching, Decided, hookVars, runVars
<1>4. 0 \in 0 .. MaxAge
  BY WatcherAssumption
<1> USE DEF IInv, TypeOK, clockVars, flagVars, estate
<1>5. CASE HeartbeatBySig
  BY <1>3, <1>4, <1>5 DEF HeartbeatBySig, Verified
<1>6. CASE SetLivenessConfigBySig
  BY <1>3, <1>6 DEF SetLivenessConfigBySig, Verified
<1>7. CASE SetBeneficiariesBySig
  BY <1>3, <1>7 DEF SetBeneficiariesBySig, Verified
<1>8. CASE SetTrackedTokensBySig
  BY <1>3, <1>8 DEF SetTrackedTokensBySig, Verified
<1>9. CASE OwnerReconfigures
  BY <1>3, <1>9 DEF OwnerReconfigures, Unannounced
<1>10. CASE Evacuate
  BY <1>3, <1>10 DEF Evacuate, Unannounced
<1>11. ASSUME NEW t \in Tokens, Approve(t)
       PROVE  IInv'
  BY <1>3, <1>11 DEF Approve, Unannounced
<1>12. CASE Supersede
  BY <1>3, <1>12 DEF Supersede, Unannounced
<1> QED BY <1>1, <1>2, <1>5, <1>6, <1>7, <1>8, <1>9, <1>10, <1>11, <1>12 DEF Environment

LEMMA StartRunKeeps ==
    ASSUME IInv, NEW r \in Runs, StartRun(r)
    PROVE  OneWatcher' /\ Decided' /\ at' \in [Runs -> Places]
           /\ UNCHANGED <<hookVars, base, decision, timer, failed>>
<1>1. "starting" \in Places
  BY DEF Places
<1>2. /\ at' \in [Runs -> Places] /\ at'[r] = "starting" /\ \A s \in Runs \ {r} : at'[s] = at[s]
  BY <1>1 DEF StartRun, IInv, TypeOK
<1>3. Decided'
  BY <1>2 DEF StartRun, IInv, Decided
<1> QED BY <1>2, <1>3, OtherRunsKeep DEF StartRun, Watching, hookVars

LEMMA RouteStep ==
    ASSUME IInv, PlanCreated \/ SendSignal \/ LoseSignal
    PROVE  IInv'
<1>1. /\ OneWatcher' /\ Decided' /\ at' \in [Runs -> Places]
      /\ UNCHANGED <<planVars, events, base, decision, timer, failed>> /\ hook' = hook
  <2>1. CASE UNCHANGED <<hook, runVars>>
    BY <2>1 DEF PlanCreated, SendSignal, LoseSignal, IInv, TypeOK, OneWatcher, Watching, Decided, runVars
  <2>2. ASSUME NEW r \in Runs, StartRun(r)
        PROVE  OneWatcher' /\ Decided' /\ at' \in [Runs -> Places]
               /\ UNCHANGED <<base, decision, timer, failed>> /\ hook' = hook
    BY <2>2, StartRunKeeps DEF hookVars
  <2>3. UNCHANGED <<planVars, events>>
    BY DEF PlanCreated, SendSignal, LoseSignal
  <2>4. UNCHANGED <<hook, runVars>> \/ \E r \in Runs : StartRun(r)
    BY DEF PlanCreated, SendSignal, LoseSignal, hookVars
  <2> QED BY <2>1, <2>2, <2>3, <2>4 DEF runVars
<1>2. created' \in BOOLEAN
  BY DEF PlanCreated, SendSignal, LoseSignal, IInv, TypeOK
<1>3. /\ toSend' \in Nat /\ signals' \in Nat /\ toSend' + signals' <= toSend + signals
  BY CounterType DEF PlanCreated, SendSignal, LoseSignal, StartRun, hookVars
<1>4. toSend' \in 0 .. MaxEvents /\ signals' \in 0 .. MaxEvents /\ toSend' + signals' <= events
  BY <1>3, CounterType
<1>5. TypeOK'
  BY <1>1, <1>2, <1>4 DEF IInv, TypeOK, planVars, clockVars, flagVars, estate
<1> QED BY <1>1, <1>4, <1>5 DEF IInv, SignalsAreEvents

\* A step of a run that holds the hook, or stays without it.
LEMMA RunMoves ==
    ASSUME IInv, NEW r \in Runs, NEW place \in Places, Goto(r, place), hook' = hook,
           Watching(r) \/ place \in {"starting", "deduplicated"},
           UNCHANGED <<clockVars, flagVars, tracked, pullable, sendVars, events>>,
           executed' \in BOOLEAN, distributed' \subseteq Tokens,
           signals' \in Nat, signals' <= signals,
           base' \in [Runs -> Snapshots], decision' \in [Runs -> Decisions],
           \A s \in Runs \ {r} : decision'[s] = decision[s],
           place = "observed" => decision'[r] # "none",
           timer' \in [Runs -> 0 .. MaxAge], failed' \in [Runs -> BOOLEAN]
    PROVE  IInv'
<1>1. OneWatcher' /\ at' \in [Runs -> Places]
  BY MoveKeeps, MoveType
<1>2. signals' \in 0 .. MaxEvents /\ toSend + signals' <= events
  BY CounterType
<1>3. TypeOK'
  BY <1>1, <1>2 DEF IInv, TypeOK, clockVars, flagVars, sendVars
<1>4. Decided'
  BY MoveType DEF IInv, Decided
<1> QED BY <1>1, <1>2, <1>3, <1>4 DEF IInv, SignalsAreEvents, sendVars

LEMMA RunFinishes ==
    ASSUME IInv, NEW r \in Runs, NEW place \in {"done", "died"}, Finish(r, place), Watching(r),
           UNCHANGED <<planVars, sendVars, base, decision, timer>>,
           events' \in 0 .. MaxEvents, events <= events',
           failed' \in [Runs -> BOOLEAN]
    PROVE  IInv'
<1>1. OneWatcher' /\ at' \in [Runs -> Places] /\ hook' \in Runs \cup {NoRun} /\ signals' = 0
  BY FinishKeeps
<1>2. signals' \in 0 .. MaxEvents /\ toSend + signals' <= events'
  BY <1>1, CounterType
<1>3. TypeOK'
  BY <1>1, <1>2 DEF IInv, TypeOK, planVars, clockVars, flagVars, estate, sendVars
<1>4. Decided'
  BY FinishKeeps DEF IInv, Decided
<1> QED BY <1>1, <1>2, <1>3, <1>4 DEF IInv, SignalsAreEvents, sendVars

LEMMA RunStep ==
    ASSUME IInv, NEW r \in Runs, Run(r) \/ Die(r)
    PROVE  IInv'
<1>1. /\ executed \in BOOLEAN /\ distributed \subseteq Tokens /\ signals \in Nat /\ signals <= signals
      /\ base \in [Runs -> Snapshots] /\ decision \in [Runs -> Decisions]
      /\ timer \in [Runs -> 0 .. MaxAge] /\ failed \in [Runs -> BOOLEAN]
      /\ 0 \in 0 .. MaxAge /\ 1 \in 0 .. MaxAge
  BY CounterType DEF IInv, TypeOK
<1>2. {"reading", "based", "observed", "waiting", "native", "tokens", "backoff",
       "deduplicated"} \subseteq Places
  BY DEF Places
<1>3. CASE Claim(r)
  <2>1. CASE hook = NoRun
    <3>1. at' \in [Runs -> Places] /\ at'[r] = "reading" /\ \A s \in Runs \ {r} : at'[s] = at[s]
      BY <1>2, <1>3, <2>1, MoveType DEF Claim
    <3>2. hook' = r /\ signals' = 0 /\ UNCHANGED <<planVars, sendVars, events, base, decision, timer, failed>>
      BY <1>3, <2>1 DEF Claim
    <3>3. \A s \in Runs : ~Watching(s)
      BY <2>1, WatcherAssumption DEF IInv, OneWatcher
    <3>4. OneWatcher'
      BY <3>1, <3>2, <3>3 DEF OneWatcher, Watching
    <3>5. signals' \in 0 .. MaxEvents /\ toSend + signals' <= events
      BY <3>2, CounterType
    <3>6. TypeOK'
      BY <3>1, <3>2, <3>5 DEF IInv, TypeOK, planVars, clockVars, flagVars, estate, sendVars
    <3>7. Decided'
      BY <3>1, <3>2 DEF IInv, Decided
    <3> QED BY <3>2, <3>4, <3>5, <3>6, <3>7 DEF IInv, SignalsAreEvents, sendVars
  <2>2. CASE hook # NoRun
    BY <1>1, <1>2, <1>3, <2>2, RunMoves DEF Claim, hookVars, planVars, estate
  <2> QED BY <2>1, <2>2
<1>4. CASE ReadPlan(r)
  <2>1. [armed |-> active /\ allocated /\ ~evacuated, executed |-> executed,
         age |-> age, period |-> period, registered |-> registered] \in Snapshots
    BY DEF Snapshots, IInv, TypeOK
  <2>2. base' \in [Runs -> Snapshots]
    BY <1>1, <1>4, <2>1 DEF ReadPlan
  <2>3. Watching(r)
    BY <1>4 DEF ReadPlan, Watching
  <2> QED BY <1>1, <1>2, <1>4, <2>2, <2>3, RunMoves DEF ReadPlan, hookVars, planVars, estate, sendVars
<1>5. CASE ReadRest(r)
  <2>1. PICK isRegistered \in {base[r].registered, registered}, inactivity \in {base[r].period, period} :
           LET d == Decide(base[r], isRegistered, inactivity)
           IN  /\ decision' = [decision EXCEPT ![r] = d]
               /\ timer' = [timer EXCEPT ![r] =
                     CASE d = "wait"    -> inactivity - base[r].age
                       [] d = "recheck" -> 1
                       [] OTHER         -> 0]
    BY <1>5 DEF ReadRest
  <2> DEFINE d == Decide(base[r], isRegistered, inactivity)
  <2>2. d \in Decisions \ {"none"} /\ (d = "wait" => base[r].age < inactivity)
    BY DecisionType
  <2>3. base[r].age \in 0 .. MaxAge /\ inactivity \in 1 .. MaxAge /\ MaxAge \in Nat
    <3>1. base[r].age \in 0 .. MaxAge /\ base[r].period \in Periods /\ period \in Periods
      BY <1>1 DEF Snapshots, IInv, TypeOK
    <3> QED BY <3>1, WatcherAssumption
  <2>4. /\ decision' \in [Runs -> Decisions] /\ decision'[r] # "none"
        /\ \A s \in Runs \ {r} : decision'[s] = decision[s]
    BY <1>1, <2>1, <2>2
  <2>5. (CASE d = "wait" -> inactivity - base[r].age
           [] d = "recheck" -> 1
           [] OTHER -> 0) \in 0 .. MaxAge
    <3> HIDE DEF d
    <3> QED BY <1>1, <2>2, <2>3
  <2>6. timer' \in [Runs -> 0 .. MaxAge]
    BY <1>1, <2>1, <2>5
  <2>7. Watching(r)
    BY <1>5 DEF ReadRest, Watching
  <2> QED BY <1>1, <1>2, <1>5, <2>4, <2>6, <2>7, RunMoves DEF ReadRest, hookVars, planVars, estate
<1>6. CASE Turn(r)
  <2>1. /\ Watching(r) /\ failed' \in [Runs -> BOOLEAN] /\ decision[r] \in Decisions
        /\ UNCHANGED <<planVars, sendVars, events, base, decision, timer>>
    BY <1>1, <1>6 DEF Turn, Watching
  <2>2. CASE Finish(r, "done")
    <3>1. events' \in 0 .. MaxEvents /\ events <= events'
      BY <2>1, CounterType DEF IInv, TypeOK
    <3> QED BY <2>1, <2>2, <3>1, RunFinishes
  <2>3. CASE Goto(r, "waiting") /\ UNCHANGED hookVars
    BY <1>1, <1>2, <2>1, <2>3, RunMoves DEF hookVars, planVars, estate
  <2>4. CASE Goto(r, "native") /\ UNCHANGED hookVars
    BY <1>1, <1>2, <2>1, <2>4, RunMoves DEF hookVars, planVars, estate
  <2>5. decision[r] # "none"
    BY <1>6 DEF Turn, IInv, Decided
  <2> QED BY <1>6, <2>1, <2>2, <2>3, <2>4, <2>5 DEF Turn, Decisions
<1>7. CASE SleepEnds(r)
  BY <1>1, <1>2, <1>7, RunMoves DEF SleepEnds, Watching, hookVars, planVars, estate
<1>8. CASE SignalWakes(r)
  <2>1. signals' \in Nat /\ signals' <= signals
    BY <1>1, <1>8 DEF SignalWakes
  <2> QED BY <1>1, <1>2, <1>8, <2>1, RunMoves DEF SignalWakes, Watching, planVars, estate
<1>9. CASE NativeExecutes(r)
  <2>1. failed' \in [Runs -> BOOLEAN]
    BY <1>1, <1>9 DEF NativeExecutes
  <2> QED BY <1>1, <1>2, <1>9, <2>1, RunMoves DEF NativeExecutes, Watching, hookVars
<1>10. CASE NativeFails(r)
  <2>1. failed' \in [Runs -> BOOLEAN]
    BY <1>1, <1>10 DEF NativeFails
  <2> QED BY <1>1, <1>2, <1>10, <2>1, RunMoves DEF NativeFails, Watching, hookVars, planVars, estate
<1>11. CASE NativeSkipped(r)
  BY <1>1, <1>2, <1>11, RunMoves DEF NativeSkipped, Watching, hookVars, planVars, estate
<1>12. CASE TokensTried(r)
  <2>1. distributed' \subseteq Tokens /\ failed' \in [Runs -> BOOLEAN]
    BY <1>1, <1>12 DEF TokensTried, Eligible, IInv, TypeOK
  <2>2. Watching(r)
    BY <1>12 DEF TokensTried, Watching
  <2>3. timer' \in [Runs -> 0 .. MaxAge]
    BY <1>1, <1>12 DEF TokensTried
  <2>4. PICK place \in {"backoff", "reading"} : Goto(r, place)
    BY <1>12 DEF TokensTried
  <2>5. UNCHANGED <<clockVars, flagVars, executed, tracked, pullable, sendVars, events, hookVars, base, decision>>
    BY <1>12 DEF TokensTried
  <2> QED BY <1>1, <1>2, <2>1, <2>2, <2>3, <2>4, <2>5, RunMoves DEF hookVars
<1>13. CASE BackoffEnds(r)
  BY <1>1, <1>2, <1>13, RunMoves DEF BackoffEnds, Watching, hookVars, planVars, estate
<1>14. CASE Die(r)
  <2>1. events' \in 0 .. MaxEvents /\ events <= events'
    BY <1>14, EventType, CounterType DEF Die
  <2> QED BY <1>1, <1>14, <2>1, RunFinishes DEF Die, Watching
<1> QED BY <1>3, <1>4, <1>5, <1>6, <1>7, <1>8, <1>9, <1>10, <1>11, <1>12, <1>13, <1>14 DEF Run

\* The invariant of the watcher: types, one signal per change, and the hook in
\* the hands of whoever watches.
LEMMA Invariance == Spec => []IInv
<1>1. Init => IInv
  <2> SUFFICES ASSUME Init PROVE IInv
    OBVIOUS
  <2>1. /\ MaxEvents \in Nat /\ MaxAge \in Nat
        /\ 0 \in 0 .. MaxAge /\ 0 \in 0 .. MaxEvents
    BY WatcherAssumption
  <2>2. base \in [Runs -> Snapshots]
    BY <2>1 DEF Init, Snapshots
  <2>3. /\ at \in [Runs -> Places] /\ decision \in [Runs -> Decisions]
        /\ timer \in [Runs -> 0 .. MaxAge] /\ failed \in [Runs -> BOOLEAN]
    BY <2>1 DEF Init, Places, Decisions
  <2>4. TypeOK
    BY <2>1, <2>2, <2>3 DEF Init, TypeOK
  <2>5. SignalsAreEvents /\ OneWatcher /\ Decided
    BY DEF Init, SignalsAreEvents, OneWatcher, Watching, Decided
  <2> QED BY <2>4, <2>5 DEF IInv
<1>2. IInv /\ [Next]_vars => IInv'
  <2> SUFFICES ASSUME IInv, [Next]_vars PROVE IInv'
    OBVIOUS
  <2>1. CASE UNCHANGED vars
    BY <2>1 DEF vars, planVars, clockVars, flagVars, estate, sendVars, hookVars, runVars,
       IInv, TypeOK, SignalsAreEvents, OneWatcher, Watching, Decided
  <2> QED BY <2>1, EnvironmentStep, RouteStep, RunStep DEF Next
<1> QED BY <1>1, <1>2, PTL DEF Spec
-----------------------------------------------------------------------------
\* Every variable keeps its type: no more signals are queued than changes were
\* made, and no run sleeps longer than the longest period.
THEOREM WatcherTypeCorrect == Spec => []TypeOK
<1>1. IInv => TypeOK
  BY DEF IInv
<1> QED BY <1>1, Invariance, PTL

\* However many runs plan creation, signals, deaths and restarts bring about,
\* only the one that holds the hook reads the plan or submits an execution.
THEOREM WatcherIsUnique == Spec => []OneWatcher
<1>1. IInv => OneWatcher
  BY DEF IInv
<1> QED BY <1>1, Invariance, PTL
=============================================================================
