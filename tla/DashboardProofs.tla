--------------------------- MODULE DashboardProofs ---------------------------
(***************************************************************************)
(* Safety of the dashboard's two sides.  Its server's monitors: for any    *)
(* number of workers in any roles, any tokens and any number of events,    *)
(* what they report executed is one transaction.  Its browser: for any wallets, any number *)
(* of requests in flight and forms of any length, what is typed is judged  *)
(* alike by every part of the program that judges it, and what is sent is  *)
(* sound and for the plan of the wallet that asked.                        *)
(***************************************************************************)
EXTENDS InheritanceMonitor, Dashboard, SumLemmas, SequenceTheorems

-----------------------------------------------------------------------------
(* The monitors.                                                           *)

\* Only a heartbeat moves lastHeartbeat, and every heartbeat is an event.
BeatsAreEvents == beat <= events

\* KeeperHub mines a distribution once, under whatever key it was submitted.
MinedIsDone == \A k \in Keys : job[k] = "mined" => k[2] \in done
MinedOnce   == \A k, l \in Keys : job[k] = "mined" /\ job[l] = "mined" /\ k[2] = l[2] => k = l

\* What a worker reports was mined under its own key.
ExecutedIsMined == \A w \in Workers : at[w] = "executed" => job[Key(w)] = "mined"

MonitorInv == TypeOK /\ BeatsAreEvents /\ MinedIsDone /\ MinedOnce /\ ExecutedIsMined
-----------------------------------------------------------------------------
(* Keys and places.                                                        *)

LEMMA KeyType ==
    ASSUME TypeOK, NEW w \in Workers
    PROVE  Key(w) \in Keys
<1>1. seen[w] \in 0 .. MaxEvents /\ target[w] \in Targets
  BY DEF TypeOK
<1> QED BY <1>1 DEF Key, Keys

LEMMA NextPlaceType ==
    ASSUME NEW w \in Workers
    PROVE  /\ AfterNative(w) \in {"idle", "tokens"}
           /\ Resume(w) \in {"idle", "tokens", "next"}
           /\ FirstPlace(w) \in {"native", "tokens"}
BY DEF AfterNative, Resume, FirstPlace

\* What a worker reports stays mined while it reports it.
LEMMA ExecutedKept ==
    ASSUME MonitorInv,
           \A k \in Keys : job[k] = "mined" => job'[k] = "mined",
           \A r \in Workers : at'[r] = "executed" =>
              at[r] = "executed" /\ seen'[r] = seen[r] /\ target'[r] = target[r]
    PROVE  ExecutedIsMined'
<1> SUFFICES ASSUME NEW r \in Workers, at'[r] = "executed"
             PROVE  job'[Key(r)'] = "mined"
  BY DEF ExecutedIsMined
<1>1. at[r] = "executed" /\ seen'[r] = seen[r] /\ target'[r] = target[r]
  OBVIOUS
<1>2. Key(r)' = Key(r)
  BY <1>1 DEF Key
<1>3. job[Key(r)] = "mined"
  BY <1>1 DEF MonitorInv, ExecutedIsMined
<1>4. Key(r) \in Keys
  BY KeyType DEF MonitorInv
<1> QED BY <1>1, <1>2, <1>3, <1>4

\* Nothing that mines no execution disturbs what is known of the mined ones.
LEMMA MinedKept ==
    ASSUME MonitorInv, done \subseteq done',
           \A k \in Keys : job'[k] = "mined" => job[k] = "mined"
    PROVE  MinedIsDone' /\ MinedOnce'
<1>1. MinedIsDone'
  BY DEF MonitorInv, MinedIsDone
<1>2. MinedOnce'
  BY DEF MonitorInv, MinedOnce
<1> QED BY <1>1, <1>2

\* The workers are idle or busy where they were, and one of them moves.
LEMMA MoveType ==
    ASSUME TypeOK, NEW w \in Workers, NEW place \in Places, Goto(w, place)
    PROVE  /\ at' \in [Workers -> Places] /\ at'[w] = place
           /\ \A r \in Workers \ {w} : at'[r] = at[r]
BY DEF TypeOK, Goto

LEMMA RecordType ==
    ASSUME TypeOK, NEW w \in Workers, Record(w)
    PROVE  /\ at' \in [Workers -> Places] /\ at'[w] # "executed"
           /\ \A r \in Workers \ {w} : at'[r] = at[r] /\ target'[r] = target[r]
           /\ target' \in [Workers -> Targets]
<1>1. target' = [target EXCEPT ![w] = Native] /\ Goto(w, Resume(w))
  BY DEF Record
<1>2. Resume(w) \in Places /\ Resume(w) # "executed"
  BY NextPlaceType DEF Places
<1>3. at' \in [Workers -> Places] /\ at'[w] = Resume(w) /\ \A r \in Workers \ {w} : at'[r] = at[r]
  BY <1>1, <1>2, MoveType
<1>4. target' \in [Workers -> Targets] /\ \A r \in Workers \ {w} : target'[r] = target[r]
  BY <1>1 DEF TypeOK, Targets
<1> QED BY <1>2, <1>3, <1>4

\* A submission opens the execution of its key, or finds it.
LEMMA OpenedType ==
    ASSUME TypeOK, NEW k \in Keys
    PROVE  /\ Opened(k) \in [Keys -> JobStates]
           /\ \A x \in Keys : job[x] = "mined" <=> Opened(k)[x] = "mined"
BY DEF TypeOK, Opened, JobStates
-----------------------------------------------------------------------------
(* The invariant is preserved.                                             *)

LEMMA EventType ==
    ASSUME MonitorInv, Event
    PROVE  events' \in 0 .. MaxEvents /\ events' = events + 1 /\ events \in Nat
BY MonitorAssumption DEF MonitorInv, TypeOK, Event

LEMMA EnvironmentStep ==
    ASSUME MonitorInv, Environment
    PROVE  MonitorInv'
<1>1. /\ UNCHANGED <<hubVars, workerVars, done>>
      /\ due' \in BOOLEAN /\ ready' \in BOOLEAN /\ evacuated' \in BOOLEAN
      /\ registered' \in BOOLEAN /\ pullable' \subseteq TrackedTokens
  BY DEF Environment, GraceElapses, OwnerBeats, OwnerReconfigures, RecoveryEvacuates,
     OwnerApproves, OwnerSupersedes, MonitorInv, TypeOK
<1>2. beat \in Nat /\ events \in Nat /\ MaxEvents \in Nat /\ beat <= events /\ events <= MaxEvents
  BY MonitorAssumption DEF MonitorInv, TypeOK, BeatsAreEvents
<1>3. /\ beat' \in 0 .. MaxEvents /\ events' \in 0 .. MaxEvents /\ beat' <= events'
  BY <1>2 DEF Environment, GraceElapses, OwnerBeats, OwnerReconfigures, RecoveryEvacuates,
     OwnerApproves, OwnerSupersedes, Event
<1>4. TypeOK'
  BY <1>1, <1>3 DEF MonitorInv, TypeOK, hubVars, workerVars
<1>5. ExecutedIsMined'
  BY <1>1, ExecutedKept DEF hubVars, workerVars
<1>6. MinedIsDone' /\ MinedOnce'
  BY <1>1, MinedKept DEF hubVars
<1> QED BY <1>3, <1>4, <1>5, <1>6 DEF MonitorInv, BeatsAreEvents

LEMMA KeeperHubStep ==
    ASSUME MonitorInv, KeeperHub
    PROVE  MonitorInv'
<1>1. /\ job \in [Keys -> JobStates] /\ done \subseteq Targets
      /\ \A k \in Keys : k[2] \in Targets
  BY DEF MonitorInv, TypeOK, Keys
<1>2. ASSUME NEW k \in Keys, Mine(k) \/ Revert(k) \/ Drop(k)
      PROVE  MonitorInv'
  <2>1. PICK v \in JobStates : job[k] = "pending" /\ job' = [job EXCEPT ![k] = v]
    BY <1>2 DEF Mine, Revert, Drop, JobStates
  <2>2. job' \in [Keys -> JobStates] /\ \A x \in Keys : job[x] = "mined" => job'[x] = "mined"
    BY <1>1, <2>1
  <2>3. /\ UNCHANGED <<beat, due, ready, evacuated, pullable, registered, orphans, workerVars, events>>
        /\ done \subseteq done' /\ done' \subseteq Targets
    BY <1>1, <1>2 DEF Mine, Revert, Drop, Distribute, chainVars
  <2>4. TypeOK'
    BY <2>2, <2>3 DEF MonitorInv, TypeOK, workerVars
  <2>5. ExecutedIsMined'
    BY <2>2, <2>3, ExecutedKept DEF workerVars
  <2>6. MinedIsDone' /\ MinedOnce'
    <3>1. CASE v # "mined"
      <4>1. \A x \in Keys : job'[x] = "mined" => job[x] = "mined"
        BY <1>1, <2>1, <3>1
      <4> QED BY <2>3, <4>1, MinedKept
    <3>2. CASE v = "mined"
      <4>1. job'[k] = "mined" /\ \A x \in Keys \ {k} : job'[x] = job[x]
        BY <1>1, <2>1, <3>2
      <4>2. Mine(k)
        BY <1>1, <1>2, <2>1, <4>1 DEF Revert, Drop
      <4>3. k[2] \notin done /\ done' = done \cup {k[2]}
        BY <4>2 DEF Mine, Callable, Distribute
      <4>4. \A x \in Keys \ {k} : job'[x] = "mined" => x[2] \in done
        BY <4>1 DEF MonitorInv, MinedIsDone
      <4>5. MinedIsDone'
        BY <4>3, <4>4 DEF MinedIsDone
      <4>6. ASSUME NEW x \in Keys, NEW y \in Keys,
                   job'[x] = "mined", job'[y] = "mined", x[2] = y[2]
            PROVE  x = y
        <5>1. CASE x = k \/ y = k
          BY <4>3, <4>4, <4>6, <5>1
        <5>2. CASE x # k /\ y # k
          BY <4>1, <4>6, <5>2 DEF MonitorInv, MinedOnce
        <5> QED BY <5>1, <5>2
      <4> QED BY <4>5, <4>6 DEF MinedOnce
    <3> QED BY <3>1, <3>2
  <2> QED BY <2>3, <2>4, <2>5, <2>6 DEF MonitorInv, BeatsAreEvents
<1>3. ASSUME NEW x \in Targets, MineOrphan(x)
      PROVE  MonitorInv'
  <2>1. /\ UNCHANGED <<beat, due, ready, evacuated, pullable, registered, job, workerVars, events>>
        /\ done \subseteq done' /\ done' \subseteq Targets /\ orphans' \subseteq orphans
    BY <1>1, <1>3 DEF MineOrphan, Distribute, chainVars
  <2>2. TypeOK'
    BY <2>1 DEF MonitorInv, TypeOK, workerVars
  <2>3. ExecutedIsMined'
    BY <2>1, ExecutedKept DEF workerVars
  <2>4. MinedIsDone' /\ MinedOnce'
    BY <2>1, MinedKept
  <2> QED BY <2>1, <2>2, <2>3, <2>4 DEF MonitorInv, BeatsAreEvents
<1> QED BY <1>2, <1>3 DEF KeeperHub

\* A new step of a watcher takes no key from under another worker: the others
\* name their keys after themselves or after a heartbeat.
LEMMA BeginStep ==
    ASSUME MonitorInv, NEW w \in Workers, Begin(w)
    PROVE  MonitorInv'
<1>1. FirstPlace(w) \in Places /\ FirstPlace(w) # "executed" /\ TypeOK
  BY NextPlaceType DEF Places, MonitorInv
<1>2. /\ at' \in [Workers -> Places] /\ at'[w] # "executed"
      /\ \A r \in Workers \ {w} : at'[r] = at[r]
  BY <1>1, MoveType DEF Begin
<1>3. job' \in [Keys -> JobStates] /\ orphans' \subseteq Targets
  BY DEF Begin, hubVars, MonitorInv, TypeOK, JobStates
<1>4. UNCHANGED <<chainVars, seen, todo, target, events>>
  BY DEF Begin
<1>5. TypeOK'
  BY <1>2, <1>3, <1>4 DEF MonitorInv, TypeOK, chainVars
<1>6. ExecutedIsMined'
  <2> SUFFICES ASSUME NEW r \in Workers, at'[r] = "executed"
               PROVE  job'[Key(r)'] = "mined"
    BY DEF ExecutedIsMined
  <2>1. r # w /\ at[r] = "executed"
    BY <1>2
  <2>2. job[Key(r)] = "mined"
    BY <2>1 DEF MonitorInv, ExecutedIsMined
  <2>3. Key(r)' = Key(r)
    BY <1>4 DEF Key
  <2>4. Key(r) \in Keys /\ Key(r)[1] # w
    <3>1. seen[r] \in 0 .. MaxEvents
      BY DEF MonitorInv, TypeOK
    <3>2. seen[r] # w
      BY <3>1, MonitorAssumption
    <3> QED BY <1>1, <2>1, <3>2, KeyType DEF Key
  <2>5. job'[Key(r)] = "mined"
    BY <2>2, <2>4 DEF Begin, hubVars
  <2> QED BY <2>3, <2>5
<1>7. MinedIsDone' /\ MinedOnce'
  <2>1. \A k \in Keys : job'[k] = "mined" => job[k] = "mined"
    BY DEF Begin, hubVars
  <2> QED BY <1>4, <2>1, MinedKept DEF chainVars
<1> QED BY <1>4, <1>5, <1>6, <1>7 DEF MonitorInv, BeatsAreEvents, chainVars

\* A worker that moves without claiming an execution.
LEMMA WorkerMoves ==
    ASSUME MonitorInv, NEW w \in Workers,
           UNCHANGED <<chainVars, orphans>>,
           job' \in [Keys -> JobStates],
           \A k \in Keys : job[k] = "mined" <=> job'[k] = "mined",
           at' \in [Workers -> Places], at'[w] # "executed",
           \A r \in Workers \ {w} : at'[r] = at[r] /\ seen'[r] = seen[r] /\ target'[r] = target[r],
           seen' \in [Workers -> 0 .. MaxEvents], todo' \in [Workers -> SUBSET TrackedTokens],
           target' \in [Workers -> Targets],
           events' \in 0 .. MaxEvents, events <= events'
    PROVE  MonitorInv'
<1>1. TypeOK'
  BY DEF MonitorInv, TypeOK, chainVars
<1>2. ExecutedIsMined'
  BY ExecutedKept
<1>3. BeatsAreEvents'
  BY MonitorAssumption DEF MonitorInv, TypeOK, BeatsAreEvents, chainVars
<1>4. MinedIsDone' /\ MinedOnce'
  BY MinedKept DEF chainVars
<1> QED BY <1>1, <1>2, <1>3, <1>4 DEF MonitorInv

LEMMA SeenType ==
    ASSUME TypeOK, NEW w \in Workers
    PROVE  /\ Seen(w) \in [Workers -> 0 .. MaxEvents]
           /\ \A r \in Workers \ {w} : Seen(w)[r] = seen[r]
BY DEF TypeOK, Seen

LEMMA WorkStep ==
    ASSUME MonitorInv, NEW w \in Workers, Work(w) \/ NativeReadThrows(w) \/ TokenRunThrows(w) \/ Crash(w)
    PROVE  MonitorInv'
<1> USE DEF Places
<1>1. /\ TypeOK /\ job \in [Keys -> JobStates] /\ Key(w) \in Keys
      /\ seen \in [Workers -> 0 .. MaxEvents] /\ todo \in [Workers -> SUBSET TrackedTokens]
      /\ target \in [Workers -> Targets] /\ events \in 0 .. MaxEvents
      /\ pullable \subseteq TrackedTokens /\ events <= events /\ events \in Nat /\ MaxEvents \in Nat
  BY KeyType, MonitorAssumption DEF MonitorInv, TypeOK
<1>2. CASE SkipNative(w)
  <2>1. AfterNative(w) \in Places /\ AfterNative(w) # "executed"
    BY NextPlaceType
  <2> QED BY <1>1, <1>2, <2>1, MoveType, WorkerMoves DEF SkipNative, hubVars
<1>3. CASE SelectNative(w)
  <2>1. target' \in [Workers -> Targets] /\ \A r \in Workers \ {w} : target'[r] = target[r]
    BY <1>1, <1>3 DEF SelectNative, Targets
  <2> QED BY <1>1, <1>3, <2>1, MoveType, SeenType, WorkerMoves DEF SelectNative, hubVars
<1>4. CASE CheckRegistry(w)
  <2>1. /\ at' \in [Workers -> Places] /\ at'[w] # "executed"
        /\ \A r \in Workers \ {w} : at'[r] = at[r] /\ target'[r] = target[r]
        /\ target' \in [Workers -> Targets]
    <3>1. CASE registered
      BY <1>1, <1>4, <3>1, MoveType DEF CheckRegistry
    <3>2. CASE ~registered
      BY <1>1, <1>4, <3>2, RecordType DEF CheckRegistry
    <3> QED BY <3>1, <3>2
  <2> QED BY <1>1, <1>4, <2>1, WorkerMoves DEF CheckRegistry, hubVars
<1>5. CASE ReadTokens(w)
  <2>1. todo' \in [Workers -> SUBSET TrackedTokens]
    BY <1>1, <1>5 DEF ReadTokens
  <2> QED BY <1>1, <1>5, <2>1, MoveType, SeenType, WorkerMoves DEF ReadTokens, hubVars
<1>6. CASE CheckTokenRegistry(w)
  <2>1. todo' \in [Workers -> SUBSET TrackedTokens]
    BY <1>1, <1>6 DEF CheckTokenRegistry
  <2> QED BY <1>1, <1>6, <2>1, MoveType, WorkerMoves DEF CheckTokenRegistry, hubVars
<1>7. CASE NextToken(w)
  <2>1. UNCHANGED <<chainVars, hubVars, events>>
    BY <1>7 DEF NextToken
  <2>2. CASE /\ seen' = [seen EXCEPT ![w] = 0]
             /\ Goto(w, "idle")
             /\ UNCHANGED <<todo, target>>
    <3>1. seen' \in [Workers -> 0 .. MaxEvents] /\ \A r \in Workers \ {w} : seen'[r] = seen[r]
      BY <1>1, <2>2
    <3> QED BY <1>1, <2>1, <2>2, <3>1, MoveType, WorkerMoves DEF hubVars
  <2>3. ASSUME NEW t \in todo[w],
               todo' = [todo EXCEPT ![w] = @ \ {t}], target' = [target EXCEPT ![w] = t],
               Goto(w, "submit"), UNCHANGED seen
        PROVE  MonitorInv'
    <3>1. /\ todo' \in [Workers -> SUBSET TrackedTokens] /\ target' \in [Workers -> Targets]
          /\ \A r \in Workers \ {w} : target'[r] = target[r]
      BY <1>1, <2>3 DEF Targets
    <3> QED BY <1>1, <2>1, <2>3, <3>1, MoveType, WorkerMoves DEF hubVars
  <2> QED BY <1>7, <2>2, <2>3 DEF NextToken
<1>8. CASE SubmitAccepted(w)
  BY <1>1, <1>8, MoveType, OpenedType, WorkerMoves DEF SubmitAccepted
<1>9. CASE SubmitUnanswered(w)
  BY <1>1, <1>9, RecordType, OpenedType, WorkerMoves DEF SubmitUnanswered
<1>10. CASE SettledSuccess(w)
  BY <1>1, <1>10, MoveType, WorkerMoves DEF SettledSuccess, hubVars
<1>11. CASE SettledFailure(w)
  BY <1>1, <1>11, RecordType, WorkerMoves DEF SettledFailure, hubVars
<1>12. CASE Verify(w)
  <2>1. CASE Record(w)
    BY <1>1, <1>12, <2>1, RecordType, WorkerMoves DEF Verify, hubVars
  <2>2. CASE Proven(w) /\ Goto(w, "executed") /\ UNCHANGED target
    <3>1. /\ at' \in [Workers -> Places] /\ \A r \in Workers \ {w} : at'[r] = at[r]
      BY <1>1, <2>2, MoveType
    <3>2. UNCHANGED <<chainVars, hubVars, seen, todo, target, events>>
      BY <1>12, <2>2 DEF Verify
    <3>3. TypeOK'
      BY <1>1, <3>1, <3>2 DEF TypeOK, chainVars, hubVars
    <3>4. ASSUME NEW r \in Workers, at'[r] = "executed"
          PROVE  job'[Key(r)'] = "mined"
      <4>1. job[Key(r)] = "mined"
        BY <2>2, <3>1, <3>4 DEF Proven, MonitorInv, ExecutedIsMined
      <4> QED BY <3>2, <4>1 DEF Key, hubVars
    <3>5. ExecutedIsMined'
      BY <3>4 DEF ExecutedIsMined
    <3>6. MinedIsDone' /\ MinedOnce'
      BY <3>2, MinedKept DEF chainVars, hubVars
    <3> QED BY <3>2, <3>3, <3>5, <3>6 DEF MonitorInv, BeatsAreEvents, chainVars
  <2> QED BY <1>12, <2>1, <2>2 DEF Verify
<1>13. CASE Report(w)
  BY <1>1, <1>13, RecordType, WorkerMoves DEF Report, hubVars
<1>14. CASE NativeReadThrows(w)
  BY <1>1, <1>14, EventType, RecordType, WorkerMoves DEF NativeReadThrows, hubVars
<1>15. CASE Abort(w)
  <2>1. /\ seen' \in [Workers -> 0 .. MaxEvents] /\ todo' \in [Workers -> SUBSET TrackedTokens]
        /\ target' \in [Workers -> Targets]
        /\ \A r \in Workers \ {w} : seen'[r] = seen[r] /\ target'[r] = target[r]
    BY <1>1, <1>15 DEF Abort, Targets
  <2> QED BY <1>1, <1>15, <2>1, EventType, MoveType, WorkerMoves DEF Abort, hubVars
<1> QED BY <1>2, <1>3, <1>4, <1>5, <1>6, <1>7, <1>8, <1>9, <1>10, <1>11, <1>12, <1>13, <1>14, <1>15
        DEF Work, TokenRunThrows, Crash

\* The invariant of the off-chain execution: types, one mined execution of a
\* target, and executions reported only of what the worker's own key mined.
LEMMA MonitorInvariance == Spec => []MonitorInv
<1>1. Init => MonitorInv
  <2> SUFFICES ASSUME Init PROVE MonitorInv
    OBVIOUS
  <2>1. MaxEvents \in Nat
    BY MonitorAssumption
  <2>2. job \in [Keys -> JobStates] /\ at \in [Workers -> Places]
    BY DEF Init, JobStates, Places
  <2>3. /\ seen \in [Workers -> 0 .. MaxEvents] /\ todo \in [Workers -> SUBSET TrackedTokens]
        /\ target \in [Workers -> Targets] /\ beat \in 0 .. MaxEvents /\ events \in 0 .. MaxEvents
    BY <2>1 DEF Init, Targets
  <2>4. TypeOK
    BY <2>2, <2>3 DEF Init, TypeOK
  <2>5. BeatsAreEvents /\ MinedIsDone /\ MinedOnce /\ ExecutedIsMined
    BY DEF Init, BeatsAreEvents, MinedIsDone, MinedOnce, ExecutedIsMined
  <2> QED BY <2>4, <2>5 DEF MonitorInv
<1>2. MonitorInv /\ [Next]_vars => MonitorInv'
  <2> SUFFICES ASSUME MonitorInv, [Next]_vars PROVE MonitorInv'
    OBVIOUS
  <2>1. CASE UNCHANGED vars
    BY <2>1 DEF vars, chainVars, hubVars, workerVars, MonitorInv, TypeOK, BeatsAreEvents,
                MinedIsDone, MinedOnce, ExecutedIsMined, Key
  <2> QED BY <2>1, EnvironmentStep, KeeperHubStep, BeginStep, WorkStep DEF Next
<1> QED BY <1>1, <1>2, PTL DEF Spec
-----------------------------------------------------------------------------
\* Every variable keeps its type, and lastHeartbeat stays within the scopes of
\* the idempotency keys.
THEOREM MonitorTypeCorrect == Spec => []TypeOK
<1>1. MonitorInv => TypeOK
  BY DEF MonitorInv
<1> QED BY <1>1, MonitorInvariance, PTL

\* However many workers race for a target under keys of their own, whatever
\* KeeperHub replays, drops or claims and whenever workers are killed or throw,
\* those that report the target executed report one and the same execution.
THEOREM MonitorReportsAgree == Spec => []ReportsAgree
<1>1. MonitorInv => ReportsAgree
  <2> SUFFICES ASSUME MonitorInv, NEW v \in Workers, NEW w \in Workers,
                      at[v] = "executed", at[w] = "executed", target[v] = target[w]
               PROVE  Key(v) = Key(w)
    BY DEF ReportsAgree
  <2>1. Key(v) \in Keys /\ Key(w) \in Keys /\ Key(v)[2] = Key(w)[2]
    BY KeyType DEF MonitorInv, Key
  <2>2. job[Key(v)] = "mined" /\ job[Key(w)] = "mined"
    BY DEF MonitorInv, ExecutedIsMined
  <2> QED BY <2>1, <2>2 DEF MonitorInv, MinedOnce
<1> QED BY <1>1, MonitorInvariance, PTL
-----------------------------------------------------------------------------
(* The browser: its inductive invariant.                                   *)

\* A request is for the plan the registry holds of its owner.
OwnPlan(owner, plan) == owner \in Owners /\ plan = PlanFor(owner) /\ planOf[owner] = plan

PlanNames == {NoPlan} \cup PlansOf(Owners)

SessionInv ==
    /\ wallet \in Owners
    /\ planOf \in [Owners -> PlanNames]
    /\ cache \in [Owners -> PlanNames \cup {Loading}]
    /\ \A o \in Owners : /\ planOf[o] \in {NoPlan, PlanFor(o)}
                         /\ cache[o] \in {Loading, NoPlan, planOf[o]}

PlansInv ==
    /\ chain \in [PlansOf(Owners) -> Plans]
    /\ read \in [PlansOf(Owners) -> Plans]
    /\ \A o \in Owners : /\ chain[PlanFor(o)].owner = o
                         /\ read[PlanFor(o)].owner \in {None, o}

Forms == [beneficiaries : Seq(Rows), timing : Timings, tokens : Seq(Tokens \cup {None}), heartbeat : Int]
FormInv == form \in Forms

\* What the review checks again before a creation is sent.
Reviewed(d) ==
    /\ OnboardingTiming(d.timing)
    /\ OnboardingBeneficiaries(d.beneficiaries)
    /\ RecoveryForm(d.owner, d)
    /\ OnboardingAssets(d.assets)
Creations == [state : {"idle", "sent", "landed"}, draft : Drafts \cup {NoDraft}, live : BOOLEAN]
DraftsInv ==
    /\ draft \in Drafts \cup {NoDraft}
    /\ stored \in [Owners -> Drafts \cup {NoDraft}]
SoundCreations(cs) ==
    /\ cs \in [1 .. MaxCreations -> Creations]
    /\ \A i \in 1 .. MaxCreations : cs[i].state # "idle" =>
          cs[i].draft \in Drafts /\ Reviewed(cs[i].draft)
OnboardingInv == DraftsInv /\ SoundCreations(creations)

\* The draft and the payload of each section.
BeneficiaryDrafts == [beneficiaries : Seq(Rows)]
TimingDrafts      == [settings : Policies, timing : Timings]
RecoverySections  == [recoveryKey : Addresses, safeVault : Addresses, allowSharedRecovery : BOOLEAN]
TokenLists        == [tokens : Seq(Tokens \cup {None})]
Allocations       == [wallets : Seq(Addresses), shares : Seq(Int)]
DraftFits(section, d) ==
    /\ section = "beneficiaries" => d \in BeneficiaryDrafts
    /\ section = "liveness"      => d \in TimingDrafts
    /\ section = "recovery"      => d \in RecoverySections
    /\ section = "trackedTokens" => d \in TokenLists
PayloadFits(section, p) ==
    /\ section = "beneficiaries" => p \in Allocations /\ Len(p.wallets) = Len(p.shares)
    /\ section = "liveness"      => p \in Policies
    /\ section = "recovery"      => p \in RecoverySections
    /\ section = "trackedTokens" => p \in TokenLists
Payloads == {<<>>} \cup Allocations \cup Policies \cup RecoverySections \cup TokenLists
Saves == [state : {"idle", "sent", "landed", "over"}, owner : Addresses, plan : PlanNames,
          section : Sections \cup {"none"}, signer : Addresses, payload : Payloads, live : BOOLEAN]

\* What the route and the contract make of a payload, as SavesAreConsistent
\* says it.
PayloadHolds(s) ==
    /\ s.section # "recovery" => s.signer = s.owner
    /\ (s.section = "liveness" => s.payload.heartbeatInterval > 0 /\ SafePolicy(s.payload)) =>
           ParsePayload(s.section, s.payload)
    /\ ParsePayload(s.section, s.payload)
           /\ (s.section = "trackedTokens" => Len(s.payload.tokens) <= MAX_TRACKED_TOKENS) =>
           SectionValid(s.owner, s.section, s.payload)
SaveHolds(s) ==
    /\ OwnPlan(s.owner, s.plan) /\ s.section \in Sections
    /\ PayloadFits(s.section, s.payload) /\ PayloadHolds(s)
DialogInv ==
    /\ view \in {"none", "review", "delete"} \cup Sections
    /\ DraftFits(view, sdraft)
SoundSaves(ss) ==
    /\ ss \in [1 .. MaxSaves -> Saves]
    /\ \A i \in 1 .. MaxSaves : ss[i].state \in {"sent", "landed"} => SaveHolds(ss[i])
SettingsInv == DialogInv /\ SoundSaves(saves)

Beats     == [state : {"idle", "sent", "landed"}, owner : Addresses, plan : PlanNames, live : BOOLEAN]
Approvals == [state : {"idle", "sent", "mined"}, owner : Addresses, plan : PlanNames]
Triggers  == [state : {"idle", "sent", "answered"}, owner : Addresses, plan : PlanNames]
Panics    == [prepared : BOOLEAN, signed : PlanNames, sent : PlanNames, owner : Addresses, plan : PlanNames]
BeatsInv ==
    /\ beats \in [1 .. MaxRequests -> Beats]
    /\ \A i \in 1 .. MaxRequests : beats[i].state # "idle" => OwnPlan(beats[i].owner, beats[i].plan)
ApprovalInv ==
    /\ approval \in Approvals
    /\ approval.state # "idle" => OwnPlan(approval.owner, approval.plan)
PanicInv ==
    /\ panic \in Panics
    /\ panic.sent # NoPlan => OwnPlan(panic.owner, panic.plan)
TriggersInv ==
    /\ triggers \in [1 .. MaxRequests -> Triggers]
    /\ \A i \in 1 .. MaxRequests : triggers[i].state # "idle" =>
          /\ OwnPlan(triggers[i].owner, triggers[i].plan)
          /\ inFlight
          /\ \A j \in 1 .. MaxRequests : triggers[j].state # "idle" => j = i
ActionsInv == BeatsInv /\ ApprovalInv /\ PanicInv /\ TriggersInv

Restores == [state : {"idle", "sent"}, owner : Owners \cup {Nobody}, current : BOOLEAN]
TelegramInv ==
    /\ restores \in [1 .. MaxRestores -> Restores]
    /\ part # "telegram" => panel.by # "restore"
    /\ part = "telegram" => /\ RestoredLinkIsOwn
                            /\ \A i \in 1 .. MaxRestores : restores[i].current => restores[i].owner = wallet

DashboardInv ==
    /\ SessionInv /\ PlansInv /\ FormInv
    /\ OnboardingInv /\ SettingsInv /\ ActionsInv /\ TelegramInv
-----------------------------------------------------------------------------
(* The forms.                                                              *)

LEMMA Days ==
    ASSUME NEW n \in Int
    PROVE  /\ n * DAY \in Int
           /\ n >= 1 => n * DAY >= 1
           /\ n > 0 => n * DAY >= 1
           /\ n >= 0 => n * DAY >= 0
BY FormsAssumption

LEMMA WholeDays ==
    ASSUME NEW seconds \in Int
    PROVE  SecondsToDays(seconds) \in Int
BY FormsAssumption DEF SecondsToDays

LEMMA PolicyTypes ==
    ASSUME NEW t \in Timings, NEW heartbeat \in Int
    PROVE  OnboardingPayload(t) \in Policies /\ SettingsPayload(t, heartbeat) \in Policies
<1>1. /\ t.timeoutDays \in Int /\ t.graceDays \in Int
      /\ t.timeoutSeconds \in Int /\ t.graceSeconds \in Int
  BY DEF Timings
<1>2. /\ SecondsToDays(heartbeat) \in Int /\ t.timeoutDays * DAY \in Int /\ t.graceDays * DAY \in Int
      /\ SecondsToDays(heartbeat) * DAY \in Int /\ 1 * DAY \in Int
  BY <1>1, Days, WholeDays
<1> QED BY <1>1, <1>2 DEF OnboardingPayload, SettingsPayload, AdvancedPolicy, PolicyInDays, Policies

\* What the route accepts the contract does, and two safe integers make no
\* more than the contract can add.
LEMMA PolicyValid ==
    ASSUME NEW p \in Policies, ParseLiveness(p)
    PROVE  ValidSettings(p) /\ p.timeoutDuration + p.gracePeriod <= MaxU64
<1>1. /\ p.heartbeatInterval \in Int /\ p.timeoutDuration \in Int /\ p.gracePeriod \in Int
      /\ MaxSafe \in Int /\ MaxU64 \in Int /\ 2 * MaxSafe <= MaxU64
  BY FormsAssumption, RulesAssumption DEF Policies
<1>2. /\ p.heartbeatInterval >= 1 /\ p.timeoutDuration >= 1
      /\ p.timeoutDuration <= MaxSafe /\ p.gracePeriod <= MaxSafe
  BY DEF ParseLiveness, SafePolicy
<1> QED BY <1>1, <1>2 DEF ValidSettings

\* An advanced timing that a form accepts is accepted by the route.
LEMMA AdvancedAccepted ==
    ASSUME NEW t \in Timings, AdvancedTiming(t)
    PROVE  ParseLiveness(AdvancedPolicy(t))
<1>1. t.timeoutSeconds \in Int /\ t.graceSeconds \in Int /\ MaxSafe \in Nat /\ MaxSafe # 0
  BY FormsAssumption DEF Timings
<1>2. /\ t.timeoutSeconds >= 1 /\ t.graceSeconds >= 0
      /\ t.timeoutSeconds <= MaxSafe /\ t.graceSeconds <= MaxSafe /\ 1 <= MaxSafe
  BY <1>1 DEF AdvancedTiming
<1> QED BY <1>1, <1>2 DEF AdvancedPolicy, ParseLiveness, SafePolicy

LEMMA OnboardingPolicy ==
    ASSUME NEW t \in Timings, OnboardingTiming(t),
           t.advanced \/ SafePolicy(OnboardingPayload(t))
    PROVE  ParseLiveness(OnboardingPayload(t))
<1>1. t.timeoutDays \in Int /\ t.graceDays \in Int
  BY DEF Timings
<1>2. CASE t.advanced
  BY <1>2, AdvancedAccepted DEF OnboardingTiming, OnboardingPayload
<1>3. CASE ~t.advanced
  <2>1. t.timeoutDays >= 1 /\ t.graceDays >= 0
    BY <1>3 DEF OnboardingTiming
  <2>2. 1 * DAY >= 1 /\ t.timeoutDays * DAY >= 1 /\ t.graceDays * DAY >= 0
    BY <1>1, <2>1, Days
  <2> QED BY <1>3, <2>2 DEF OnboardingPayload, PolicyInDays, ParseLiveness
<1> QED BY <1>2, <1>3

LEMMA SettingsPolicy ==
    ASSUME NEW t \in Timings, NEW heartbeat \in Int, SettingsTiming(t),
           SettingsPayload(t, heartbeat).heartbeatInterval > 0,
           t.advanced \/ SafePolicy(SettingsPayload(t, heartbeat))
    PROVE  ParseLiveness(SettingsPayload(t, heartbeat))
<1>1. t.timeoutDays \in Int /\ t.graceDays \in Int
  BY DEF Timings
<1>2. CASE t.advanced
  BY <1>2, AdvancedAccepted DEF SettingsTiming, SettingsPayload
<1>3. CASE ~t.advanced
  <2>1. t.timeoutDays >= 1 /\ t.graceDays >= 0
    BY <1>3 DEF SettingsTiming
  <2>2. t.timeoutDays * DAY >= 1 /\ t.graceDays * DAY >= 0
    BY <1>1, <2>1, Days
  <2>3. SecondsToDays(heartbeat) * DAY >= 1
    <3>1. SecondsToDays(heartbeat) * DAY \in Int
      BY WholeDays, FormsAssumption
    <3> QED BY <1>3, <3>1 DEF SettingsPayload, PolicyInDays
  <2> QED BY <1>3, <2>2, <2>3 DEF SettingsPayload, PolicyInDays, ParseLiveness
<1> QED BY <1>2, <1>3

LEMMA TimingsAlwaysAgree ==
    ASSUME NEW t \in Timings, NEW heartbeat \in Int
    PROVE  TimingsAgree(t, heartbeat)
BY PolicyTypes, PolicyValid, OnboardingPolicy, SettingsPolicy DEF TimingsAgree

LEMMA RecoveriesAlwaysAgree ==
    ASSUME NEW owner, NEW r
    PROVE  RecoveriesAgree(owner, r)
BY DEF RecoveriesAgree, RecoveryForm, ParseRecovery, RecoverySeparation, ValidRecovery

LEMMA TokensAlwaysAgree ==
    ASSUME NEW tokens
    PROVE  TokensAgree(tokens)
BY DEF TokensAgree, SettingsTokens, ParseTokens, ValidTokenList, Present

\* The two arrays that are sent of a list of beneficiaries.
LEMMA ArraysOf ==
    ASSUME NEW list \in Seq(Rows)
    PROVE  /\ Len(list) \in Nat /\ DOMAIN list = 1 .. Len(list)
           /\ Wallets(list) \in Seq(Addresses) /\ Len(Wallets(list)) = Len(list)
           /\ Shares(list) \in Seq(Int) /\ Len(Shares(list)) = Len(list)
           /\ DOMAIN Wallets(list) = 1 .. Len(list) /\ DOMAIN Shares(list) = 1 .. Len(list)
           /\ \A i \in 1 .. Len(list) : /\ list[i].address \in Addresses /\ list[i].share \in Int
                                        /\ Wallets(list)[i] = list[i].address
                                        /\ Shares(list)[i] = Round(list[i].share)
                                        /\ Shares(list)[i] \in Int
<1> DEFINE n == Len(list)
<1>1. n \in Nat /\ DOMAIN list = 1 .. n /\ \A i \in 1 .. n : list[i] \in Rows
  OBVIOUS
<1>2. \A i \in 1 .. n : list[i].address \in Addresses /\ list[i].share \in Int
  <2>1. \A row \in Rows : row.address \in Addresses /\ row.share \in Int
    BY DEF Rows
  <2> QED BY <1>1, <2>1
<1>3. \A half \in Int : Round(half) \in Int
  BY DEF Round
<1> HIDE DEF n
<1>4. /\ Wallets(list) = [i \in 1 .. n |-> list[i].address]
      /\ Shares(list) = [i \in 1 .. n |-> Round(list[i].share)]
  BY <1>1 DEF Wallets, Shares
<1>5. Wallets(list) \in Seq(Addresses) /\ Len(Wallets(list)) = n
  <2>1. Wallets(list) \in [1 .. n -> Addresses]
    BY <1>2, <1>4
  <2> QED BY <1>1, <2>1, SeqDef
<1>6. Shares(list) \in Seq(Int) /\ Len(Shares(list)) = n
  <2>1. \A i \in 1 .. n : Round(list[i].share) \in Int
    BY <1>2, <1>3
  <2> QED BY <1>1, <1>4, <2>1
<1> QED BY <1>1, <1>2, <1>3, <1>4, <1>5, <1>6 DEF n

\* Shares of whole hundredths that make 100% as typed make it in basis points.
LEMMA TypedSharesParse ==
    ASSUME NEW list \in Seq(Rows), Len(list) \in 1 .. MAX_BENEFICIARIES,
           Present(Wallets(list)), Distinct(Wallets(list)), WholeHundredths(list),
           \A i \in DOMAIN list : list[i].share > 0,
           TypedTotal(list) = 2 * TOTAL_BPS
    PROVE  ParseBeneficiaries(Wallets(list), Shares(list))
<1> DEFINE n == Len(list)
           typed == [i \in DOMAIN list |-> list[i].share]
           shares == Shares(list)
<1>1. /\ n \in Nat /\ DOMAIN typed = 1 .. n /\ DOMAIN shares = 1 .. n /\ IsFiniteSet(1 .. n)
  BY ArraysOf, FS_Interval
<1>2. \A i \in 1 .. n : shares[i] \in Nat /\ shares[i] >= 1 /\ typed[i] = 2 * shares[i]
  <2> TAKE i \in 1 .. n
  <2>1. /\ list[i].share \in Int /\ list[i].share > 0 /\ list[i].share % 2 = 0
        /\ shares[i] = Round(list[i].share)
    BY ArraysOf DEF WholeHundredths
  <2>2. \A s \in Int : s > 0 /\ s % 2 = 0 => Round(s) \in Nat /\ Round(s) >= 1 /\ s = 2 * Round(s)
    BY DEF Round
  <2> QED BY <2>1, <2>2, ArraysOf
<1>3. SumFunctionOnSet(typed, 1 .. n) = 2 * SumFunctionOnSet(shares, 1 .. n)
  <2> HIDE DEF typed, shares
  <2> QED BY <1>1, <1>2, SumDoubled
<1>4. SumFunctionOnSet(typed, 1 .. n) = 2 * TOTAL_BPS
  BY <1>1 DEF TypedTotal, SumFunction
<1>5. SumFunctionOnSet(shares, 1 .. n) \in Nat
  <2> HIDE DEF shares
  <2> QED BY <1>1, <1>2, SumNatural
<1>6. SumFunction(shares) = TOTAL_BPS
  <2>1. SumFunction(shares) = SumFunctionOnSet(shares, 1 .. n)
    BY <1>1 DEF SumFunction
  <2>2. TOTAL_BPS \in Nat
    BY RulesAssumption
  <2> QED BY <1>3, <1>4, <1>5, <2>1, <2>2
<1> QED BY <1>1, <1>2, <1>6, ArraysOf DEF ParseBeneficiaries

\* The contract accepts an allocation that the route's parser accepts.
LEMMA ParsedAllocationValid ==
    ASSUME NEW wallets \in Seq(Addresses), NEW shares \in Seq(Int),
           ParseBeneficiaries(wallets, shares)
    PROVE  ValidAllocation(wallets, shares)
<1> DEFINE n == Len(shares)
<1>1. /\ n \in Nat /\ n \in 1 .. MAX_BENEFICIARIES /\ Len(wallets) = n
      /\ DOMAIN wallets = 1 .. n /\ DOMAIN shares = 1 .. n /\ IsFiniteSet(1 .. n)
      /\ \A i \in 1 .. n : shares[i] \in Nat /\ shares[i] > 0
      /\ SumFunction(shares) = TOTAL_BPS
  <2>1. /\ n \in Nat /\ n \in 1 .. MAX_BENEFICIARIES /\ Len(wallets) = n
        /\ SumFunction(shares) = TOTAL_BPS
    BY DEF ParseBeneficiaries
  <2>2. DOMAIN wallets = 1 .. n /\ DOMAIN shares = 1 .. n /\ \A i \in 1 .. n : shares[i] \in Int
    BY <2>1
  <2>3. \A i \in 1 .. n : shares[i] >= 1
    BY <2>2 DEF ParseBeneficiaries
  <2>4. \A i \in 1 .. n : shares[i] \in Nat /\ shares[i] > 0
    BY <2>2, <2>3
  <2>5. IsFiniteSet(1 .. n)
    BY <2>1, FS_Interval
  <2> HIDE DEF n
  <2> QED BY <2>1, <2>2, <2>4, <2>5
<1>2. \A i \in 1 .. n : shares[i] <= TOTAL_BPS
  BY <1>1, TermWithinSum DEF SumFunction
<1>3. \A i \in 1 .. n : /\ wallets[i] # None
                        /\ \A j \in 1 .. n : j < i => wallets[j] # wallets[i]
  BY <1>1 DEF ParseBeneficiaries, Present, Distinct
<1>4. MAX_BENEFICIARIES \in Nat
  BY RulesAssumption
<1> QED BY <1>1, <1>2, <1>3, <1>4 DEF ValidAllocation

LEMMA SharesAlwaysAgree ==
    ASSUME NEW list \in Seq(Rows)
    PROVE  SharesAgree(list)
<1>1. OnboardingBeneficiaries(list) /\ WholeHundredths(list) =>
          ParseBeneficiaries(Wallets(list), Shares(list))
  BY ArraysOf, TypedSharesParse DEF OnboardingBeneficiaries
<1>2. SettingsBeneficiaries(list) => ParseBeneficiaries(Wallets(list), Shares(list))
  BY TypedSharesParse DEF SettingsBeneficiaries
<1> QED BY <1>1, <1>2, ArraysOf, ParsedAllocationValid DEF SharesAgree
-----------------------------------------------------------------------------
(* What typing keeps.                                                      *)

LEMMA RemovedRow ==
    ASSUME NEW S, NEW list \in Seq(S), NEW edited \in RemoveRow(list)
    PROVE  edited \in Seq(S)
<1>1. PICK i \in 1 .. Len(list) : edited = RemoveAt(list, i)
  BY DEF RemoveRow
<1>2. SubSeq(list, 1, i - 1) \in Seq(S) /\ SubSeq(list, i + 1, Len(list)) \in Seq(S)
  OBVIOUS
<1> QED BY <1>1, <1>2 DEF RemoveAt

LEMMA EditedBeneficiaries ==
    ASSUME NEW list \in Seq(Rows),
           NEW edited \in AddBeneficiary(list) \cup EditBeneficiary(list) \cup RemoveRow(list)
    PROVE  edited \in Seq(Rows)
<1>1. CASE edited \in AddBeneficiary(list)
  <2>1. [address |-> None, share |-> 0] \in Rows
    BY DEF Rows, Addresses
  <2> QED BY <1>1, <2>1 DEF AddBeneficiary
<1>2. CASE edited \in EditBeneficiary(list)
  <2>1. PICK i \in DOMAIN list :
            \/ \E a \in Addresses : edited = [list EXCEPT ![i].address = a]
            \/ \E s \in ShareInputs : edited = [list EXCEPT ![i].share = s]
    BY <1>2 DEF EditBeneficiary
  <2>2. list[i] \in Rows
    OBVIOUS
  <2>3. CASE \E a \in Addresses : edited = [list EXCEPT ![i].address = a]
    <3>1. PICK a \in Addresses : edited = [list EXCEPT ![i] = [list[i] EXCEPT !.address = a]]
      BY <2>3
    <3>2. [list[i] EXCEPT !.address = a] \in Rows
      BY <2>2 DEF Rows
    <3> QED BY <3>1, <3>2
  <2>4. CASE \E s \in ShareInputs : edited = [list EXCEPT ![i].share = s]
    <3>1. PICK s \in ShareInputs : edited = [list EXCEPT ![i] = [list[i] EXCEPT !.share = s]]
      BY <2>4
    <3>2. [list[i] EXCEPT !.share = s] \in Rows
      BY <2>2, FormsAssumption DEF Rows
    <3> QED BY <3>1, <3>2
  <2> QED BY <2>1, <2>3, <2>4
<1>3. CASE edited \in RemoveRow(list)
  BY <1>3, RemovedRow
<1> QED BY <1>1, <1>2, <1>3

LEMMA EditedTokens ==
    ASSUME NEW list \in Seq(Tokens \cup {None}),
           NEW edited \in PickToken(list) \cup EditToken(list) \cup RemoveRow(list)
    PROVE  edited \in Seq(Tokens \cup {None})
<1>1. CASE edited \in PickToken(list)
  BY <1>1, FormsAssumption DEF PickToken
<1>2. CASE edited \in EditToken(list)
  <2>1. CASE edited = Append(list, None)
    BY <2>1
  <2>2. CASE \E i \in DOMAIN list, token \in TokenInputs : edited = [list EXCEPT ![i] = token]
    BY <2>2, FormsAssumption
  <2> QED BY <1>2, <2>1, <2>2 DEF EditToken
<1>3. CASE edited \in RemoveRow(list)
  BY <1>3, RemovedRow
<1> QED BY <1>1, <1>2, <1>3

LEMMA EditedTiming ==
    ASSUME NEW t \in Timings, NEW timeout \in Int, NEW grace \in Int,
           NEW edited \in EditTiming(t) \cup {EnableAdvanced(t, timeout, grace)}
    PROVE  edited \in Timings
<1>1. CASE edited = EnableAdvanced(t, timeout, grace)
  BY <1>1 DEF Timings, EnableAdvanced
<1>2. CASE \E n \in Int : \/ edited = [t EXCEPT !.timeoutSeconds = n]
                          \/ edited = [t EXCEPT !.graceSeconds = n]
                          \/ edited = [t EXCEPT !.timeoutDays = n]
                          \/ edited = [t EXCEPT !.graceDays = n]
  BY <1>2 DEF Timings
<1>3. CASE edited = [t EXCEPT !.advanced = FALSE]
  BY <1>3 DEF Timings
<1> QED BY <1>1, <1>2, <1>3, FormsAssumption DEF EditTiming

LEMMA EditedTimingInDays ==
    ASSUME NEW t \in Timings,
           NEW edited \in EditTiming(t) \cup {EnableAdvanced(t, t.timeoutDays * DAY, t.graceDays * DAY)}
    PROVE  edited \in Timings
<1>1. t.timeoutDays * DAY \in Int /\ t.graceDays * DAY \in Int
  <2>1. t.timeoutDays \in Int /\ t.graceDays \in Int
    BY DEF Timings
  <2> QED BY <2>1, Days
<1> QED BY <1>1, EditedTiming

LEMMA EmptyTimingType == EmptyTiming \in Timings
BY DEF EmptyTiming, Timings

LEMMA FormStep ==
    ASSUME FormInv, TypeForm
    PROVE  FormInv'
<1>1. /\ form.beneficiaries \in Seq(Rows) /\ form.timing \in Timings
      /\ form.tokens \in Seq(Tokens \cup {None})
  BY DEF FormInv, Forms
<1>2. CASE \E list \in Seq(Rows) : form' = [form EXCEPT !.beneficiaries = list]
  BY <1>2 DEF FormInv, Forms
<1>3. CASE \E timing \in Timings, heartbeat \in DayInputs :
              form' = [form EXCEPT !.timing = timing, !.heartbeat = heartbeat]
  BY <1>3, FormsAssumption DEF FormInv, Forms
<1>4. CASE \E list \in Seq(Tokens \cup {None}) : form' = [form EXCEPT !.tokens = list]
  BY <1>4 DEF FormInv, Forms
<1>5. \/ \E list \in Seq(Rows) : form' = [form EXCEPT !.beneficiaries = list]
      \/ \E timing \in Timings, heartbeat \in DayInputs :
              form' = [form EXCEPT !.timing = timing, !.heartbeat = heartbeat]
      \/ \E list \in Seq(Tokens \cup {None}) : form' = [form EXCEPT !.tokens = list]
  BY <1>1, EditedBeneficiaries, EditedTimingInDays, EditedTokens DEF TypeForm
<1> QED BY <1>2, <1>3, <1>4, <1>5

LEMMA FormInvAgrees == FormInv => FormsAgree
<1> SUFFICES ASSUME FormInv PROVE FormsAgree
  OBVIOUS
<1>1. /\ form.beneficiaries \in Seq(Rows) /\ form.timing \in Timings /\ form.heartbeat \in Int
  BY DEF FormInv, Forms
<1> QED BY <1>1, SharesAlwaysAgree, TimingsAlwaysAgree, TokensAlwaysAgree, RecoveriesAlwaysAgree
        DEF FormsAgree
-----------------------------------------------------------------------------
(* The session and the plans.                                              *)

LEMMA PlanNamesDiffer ==
    /\ NoPlan # Loading
    /\ \A o \in Owners : PlanFor(o) \in PlansOf(Owners) /\ PlanFor(o) \notin {NoPlan, Loading}
    /\ \A o, q \in Owners : PlanFor(o) = PlanFor(q) => o = q
    /\ \A plan \in PlansOf(Owners) : \E o \in Owners : plan = PlanFor(o)
<1>1. \A o, q \in Owners : PlanFor(o) = PlanFor(q) => o = q
  BY DEF PlanFor
<1>2. \A o \in Owners : PlanFor(o) \in PlansOf(Owners)
  BY DEF PlansOf
<1>3. \A plan \in PlansOf(Owners) : \E o \in Owners : plan = PlanFor(o)
  BY DEF PlansOf
<1> QED BY <1>1, <1>2, <1>3, SessionAssumption

\* A plan that is resolved is the registered plan of the connected wallet.
LEMMA ResolvedIsOwn ==
    ASSUME SessionInv, Resolved
    PROVE  OwnPlan(wallet, Resolution) /\ Resolution \in PlansOf(Owners)
BY PlanNamesDiffer DEF SessionInv, Resolved, Resolution, OwnPlan, PlanNames

LEMMA SessionStep ==
    ASSUME SessionInv,
           SwitchWallet \/ Resolve \/ FactoryUnread \/ UNCHANGED session
    PROVE  SessionInv' /\ planOf' = planOf
<1>1. CASE SwitchWallet \/ UNCHANGED session
  BY <1>1 DEF SessionInv, SwitchWallet, session
<1>2. CASE Resolve \/ FactoryUnread
  BY <1>2 DEF SessionInv, Resolve, FactoryUnread, PlanNames
<1> QED BY <1>1, <1>2

\* A registration only adds a plan.
LEMMA OwnPlanKept ==
    ASSUME NEW owner, NEW plan, OwnPlan(owner, plan),
           planOf' = planOf \/ \A o \in Owners : planOf[o] # NoPlan => planOf'[o] = planOf[o]
    PROVE  OwnPlan(owner, plan)'
BY PlanNamesDiffer DEF OwnPlan

LEMMA EmptyPlanType == EmptyPlan \in Plans /\ EmptyPlan.owner = None
<1>1. None \in Addresses /\ <<>> \in Seq(Rows) /\ <<>> \in Seq(Tokens \cup {None})
  BY DEF Addresses
<1> QED BY <1>1 DEF EmptyPlan, Plans, Policies

\* The plan the page shows is the connected wallet's, or not read yet.
LEMMA KeeperType ==
    ASSUME SessionInv, PlansInv
    PROVE  Keeper \in Plans /\ Keeper.owner \in {None, wallet}
<1>1. CASE Resolved
  BY <1>1, ResolvedIsOwn DEF Keeper, PlansInv, OwnPlan
<1>2. CASE ~Resolved
  BY <1>2, EmptyPlanType DEF Keeper
<1> QED BY <1>1, <1>2

\* The same after a step.
LEMMA NextResolvedIsOwn ==
    ASSUME SessionInv', Resolved'
    PROVE  OwnPlan(wallet, Resolution)' /\ Resolution' \in PlansOf(Owners)
BY PlanNamesDiffer DEF SessionInv, Resolved, Resolution, OwnPlan, PlanNames

LEMMA NextKeeperType ==
    ASSUME SessionInv', PlansInv'
    PROVE  Keeper' \in Plans /\ Keeper'.owner \in {None, wallet'}
<1>1. CASE Resolved'
  BY <1>1, NextResolvedIsOwn DEF Keeper, PlansInv, OwnPlan
<1>2. CASE ~Resolved'
  BY <1>2, EmptyPlanType DEF Keeper
<1> QED BY <1>1, <1>2

LEMMA SetKeeps ==
    ASSUME PlansInv, NEW plan, NEW p, Set(plan, p), UNCHANGED read,
           plan \in PlansOf(Owners) => p \in Plans /\ p.owner = chain[plan].owner
    PROVE  PlansInv'
<1>1. \A q \in PlansOf(Owners) : chain'[q] = IF q = plan THEN p ELSE chain[q]
  BY DEF PlansInv, Set
<1>2. chain' \in [PlansOf(Owners) -> Plans]
  BY <1>1 DEF PlansInv, Set
<1> QED BY <1>1, <1>2, PlanNamesDiffer DEF PlansInv

LEMMA ReadKeeps ==
    ASSUME SessionInv, PlansInv, UNCHANGED chain,
           read' = read \/ (Resolved /\ read' = [read EXCEPT ![Resolution] = chain[Resolution]])
    PROVE  PlansInv'
<1>1. CASE read' = read
  BY <1>1 DEF PlansInv
<1>2. CASE Resolved /\ read' = [read EXCEPT ![Resolution] = chain[Resolution]]
  <2>1. Resolution \in PlansOf(Owners)
    BY <1>2, ResolvedIsOwn
  <2>2. \A q \in PlansOf(Owners) : read'[q] = IF q = Resolution THEN chain[q] ELSE read[q]
    BY <1>2, <2>1 DEF PlansInv
  <2>3. read' \in [PlansOf(Owners) -> Plans]
    BY <1>2, <2>1 DEF PlansInv
  <2> QED BY <2>2, <2>3, PlanNamesDiffer DEF PlansInv
<1> QED BY <1>1, <1>2

LEMMA SamePlans ==
    ASSUME PlansInv, UNCHANGED planview
    PROVE  PlansInv'
BY DEF PlansInv, planview
-----------------------------------------------------------------------------
(* The onboarding.                                                         *)

LEMMA DraftFields ==
    ASSUME NEW d \in Drafts
    PROVE  /\ d.owner \in Owners /\ d.step \in 1 .. 7 /\ d.timing \in Timings
           /\ d.beneficiaries \in Seq(Rows) /\ d.assets \in Seq(Tokens \cup {None})
           /\ \A step \in 1 .. 7 : [d EXCEPT !.step = step] \in Drafts
           /\ \A t \in Timings : [d EXCEPT !.timing = t] \in Drafts
           /\ \A list \in Seq(Rows) : [d EXCEPT !.beneficiaries = list] \in Drafts
           /\ \A a \in Addresses : [d EXCEPT !.recoveryKey = a] \in Drafts
           /\ \A a \in Addresses : [d EXCEPT !.safeVault = a] \in Drafts
           /\ [d EXCEPT !.allowSharedRecovery = ~@] \in Drafts
           /\ \A list \in Seq(Tokens \cup {None}) : [d EXCEPT !.assets = list] \in Drafts
BY DEF Drafts

LEMMA LoadedDraft ==
    ASSUME DraftsInv, NEW owner \in Owners
    PROVE  LoadOnboardingDraft(owner) \in Drafts
<1>1. CreateOnboardingDraft(owner) \in Drafts
  <2>1. None \in Addresses /\ <<>> \in Seq(Rows) /\ <<>> \in Seq(Tokens \cup {None})
    BY DEF Addresses
  <2> QED BY <2>1, EmptyTimingType DEF CreateOnboardingDraft, Drafts
<1> QED BY <1>1 DEF DraftsInv, LoadOnboardingDraft

LEMMA SavedDraft ==
    ASSUME DraftsInv, NEW d \in Drafts \cup {NoDraft}, draft' = d, SaveOnboardingDraft(d)
    PROVE  DraftsInv'
<1>1. CASE d = NoDraft
  BY <1>1 DEF DraftsInv, SaveOnboardingDraft
<1>2. CASE d # NoDraft
  BY <1>2 DEF DraftsInv, SaveOnboardingDraft
<1> QED BY <1>1, <1>2

LEMMA ChangedDraft ==
    ASSUME DraftsInv, NEW d \in Drafts, Change(d)
    PROVE  DraftsInv' /\ UNCHANGED session
BY SavedDraft DEF Change

LEMMA MountedDraft ==
    ASSUME DraftsInv, Mounted
    PROVE  draft \in Drafts
BY DEF DraftsInv, Mounted

LEMMA EditedDraft ==
    ASSUME DraftsInv, Mounted, TimingStep \/ BeneficiariesStep \/ RecoveryStep \/ AssetsStep
    PROVE  DraftsInv' /\ UNCHANGED session
<1>1. draft \in Drafts
  BY MountedDraft
<1>2. CASE TimingStep
  <2>1. PICK t \in Timings : Change([draft EXCEPT !.timing = t])
    BY <1>1, <1>2, DraftFields, EditedTimingInDays DEF TimingStep
  <2> QED BY <1>1, <2>1, DraftFields, ChangedDraft
<1>3. CASE BeneficiariesStep
  <2>1. PICK list \in Seq(Rows) : Change([draft EXCEPT !.beneficiaries = list])
    BY <1>1, <1>3, DraftFields, EditedBeneficiaries DEF BeneficiariesStep
  <2> QED BY <1>1, <2>1, DraftFields, ChangedDraft
<1>4. CASE RecoveryStep
  BY <1>1, <1>4, DraftFields, ChangedDraft DEF RecoveryStep
<1>5. CASE AssetsStep
  <2>1. PICK list \in Seq(Tokens \cup {None}) : Change([draft EXCEPT !.assets = list])
    BY <1>1, <1>5, DraftFields, EditedTokens DEF AssetsStep
  <2> QED BY <1>1, <2>1, DraftFields, ChangedDraft
<1> QED BY <1>2, <1>3, <1>4, <1>5

\* The modal that closes forgets a creation, which stays as it was reviewed.
LEMMA KeptCreations ==
    ASSUME NEW cs, SoundCreations(cs), NEW m, KeepMounted(m, cs)
    PROVE  SoundCreations(creations)'
<1> DEFINE live(i) == cs[i].live /\ Mounted'
<1>1. creations' = [i \in 1 .. MaxCreations |-> [cs[i] EXCEPT !.live = live(i)]]
  BY DEF KeepMounted, SoundCreations
<1>2. ASSUME NEW i \in 1 .. MaxCreations
      PROVE  /\ creations'[i] \in Creations
             /\ creations'[i].state = cs[i].state /\ creations'[i].draft = cs[i].draft
  <2>1. live(i) \in BOOLEAN /\ cs[i] \in Creations
    BY DEF SoundCreations
  <2> HIDE DEF live
  <2> QED BY <1>1, <2>1 DEF Creations
<1>3. creations' \in [1 .. MaxCreations -> Creations]
  BY <1>1, <1>2
<1> HIDE DEF live
<1> QED BY <1>2, <1>3 DEF SoundCreations

LEMMA SetCreation ==
    ASSUME SoundCreations(creations), NEW i \in 1 .. MaxCreations, NEW c \in Creations,
           c.state # "idle" => c.draft \in Drafts /\ Reviewed(c.draft)
    PROVE  SoundCreations([creations EXCEPT ![i] = c])
BY DEF SoundCreations

LEMMA IdleCreationType == IdleCreation \in Creations /\ IdleCreation.state = "idle"
BY DEF IdleCreation, Creations

LEMMA OnboardingStep ==
    ASSUME SessionInv, OnboardingInv, OnboardingNext
    PROVE  /\ SessionInv' /\ OnboardingInv'
           /\ \A o \in Owners : planOf[o] # NoPlan => planOf'[o] = planOf[o]
<1>1. DOMAIN creations = 1 .. MaxCreations
  BY DEF OnboardingInv, SoundCreations
<1>2. CASE OnboardingSession
  <2>1. SessionInv' /\ planOf' = planOf
    BY <1>2, SessionStep DEF OnboardingSession
  <2>2. DraftsInv'
    <3>1. CASE MissingOwner' = MissingOwner
      BY <1>2, <3>1 DEF OnboardingInv, OnboardingSession, SyncDraft, DraftsInv
    <3>2. CASE MissingOwner' # MissingOwner
      <4>1. /\ draft' = IF Missing' THEN LoadOnboardingDraft(wallet') ELSE NoDraft
            /\ SaveOnboardingDraft(draft')
        BY <1>2, <3>2 DEF OnboardingSession, SyncDraft
      <4>2. draft' \in Drafts \cup {NoDraft}
        BY <2>1, <4>1, LoadedDraft DEF OnboardingInv, SessionInv
      <4> QED BY <4>1, <4>2, SavedDraft DEF OnboardingInv
    <3> QED BY <3>1, <3>2
  <2> QED BY <1>2, <2>1, <2>2, KeptCreations DEF OnboardingInv, OnboardingSession
<1>3. CASE Dismiss \/ FinishSetup \/ Finish
  <2>1. UNCHANGED session /\ planOf' = planOf /\ draft' = draft
    BY <1>3 DEF Dismiss, FinishSetup, Finish, session
  <2>2. DraftsInv'
    BY <1>3, <2>1 DEF Dismiss, FinishSetup, Finish, OnboardingInv, DraftsInv
  <2>3. SoundCreations(creations)'
    <3>1. CASE Dismiss
      BY <3>1, KeptCreations DEF Dismiss, OnboardingInv
    <3>2. CASE FinishSetup \/ Finish
      BY <3>2 DEF FinishSetup, Finish, OnboardingInv, SoundCreations
    <3> QED BY <1>3, <3>1, <3>2
  <2> QED BY <2>1, <2>2, <2>3, SessionStep DEF OnboardingInv
<1>4. CASE Continue \/ Back
  <2>1. PICK step \in 1 .. 7 : Mounted /\ Navigate(step)
    BY <1>4 DEF Continue, Back
  <2>2. DraftsInv' /\ UNCHANGED session
    BY <2>1, MountedDraft, DraftFields, ChangedDraft DEF Navigate, OnboardingInv
  <2>3. planOf' = planOf /\ creations' = creations
    BY <2>1, <2>2 DEF Navigate, session
  <2> QED BY <2>2, <2>3, SessionStep DEF OnboardingInv, SoundCreations
<1>5. CASE EditStep
  <2>1. DraftsInv' /\ UNCHANGED session
    BY <1>5, EditedDraft DEF EditStep, OnboardingInv
  <2>2. planOf' = planOf /\ creations' = creations
    BY <1>5, <2>1 DEF EditStep, session
  <2> QED BY <2>1, <2>2, SessionStep DEF OnboardingInv, SoundCreations
<1>6. CASE CreatePlan
  <2>1. PICK i \in 1 .. MaxCreations :
            creations' = [creations EXCEPT ![i] = [state |-> "sent", draft |-> draft, live |-> TRUE]]
    BY <1>1, <1>6 DEF CreatePlan
  <2>2. draft \in Drafts /\ Reviewed(draft)
    <3>1. \A s \in 1 .. 5 : ~StepError(draft, s)
      BY <1>6 DEF CreatePlan, ValidateOnboardingStep
    <3>2. 2 \in 1 .. 5 /\ 3 \in 1 .. 5 /\ 4 \in 1 .. 5 /\ 5 \in 1 .. 5
      OBVIOUS
    <3> QED BY <1>6, <3>1, <3>2, MountedDraft DEF CreatePlan, StepError, Reviewed, OnboardingInv
  <2>3. SoundCreations(creations)'
    <3>1. [state |-> "sent", draft |-> draft, live |-> TRUE] \in Creations
      BY <2>2 DEF Creations
    <3> QED BY <2>1, <2>2, <3>1, SetCreation DEF OnboardingInv
  <2>4. UNCHANGED <<session, draft, stored>> /\ planOf' = planOf
    BY <1>6 DEF CreatePlan, session
  <2> QED BY <2>3, <2>4, SessionStep DEF OnboardingInv, DraftsInv
<1>7. ASSUME NEW i \in 1 .. MaxCreations, CreationLands(i)
      PROVE  /\ SessionInv' /\ OnboardingInv'
             /\ \A o \in Owners : planOf[o] # NoPlan => planOf'[o] = planOf[o]
  <2> DEFINE owner == creations[i].draft.owner
  <2>1. /\ creations[i] \in Creations /\ creations[i].state = "sent"
        /\ creations[i].draft \in Drafts /\ Reviewed(creations[i].draft)
    BY <1>7 DEF CreationLands, OnboardingInv, SoundCreations
  <2>2. owner \in Owners
    BY <2>1, DraftFields
  <2>3. /\ planOf[owner] = NoPlan
        /\ planOf' = [planOf EXCEPT ![owner] = PlanFor(owner)]
        /\ UNCHANGED <<wallet, cache, draft, stored>>
        /\ creations' = [creations EXCEPT ![i] = [creations[i] EXCEPT !.state = "landed"]]
    BY <1>7 DEF CreationLands
  <2>4. SoundCreations(creations)'
    <3> DEFINE c == [creations[i] EXCEPT !.state = "landed"]
    <3>1. c \in Creations /\ c.draft = creations[i].draft
      BY <2>1 DEF Creations
    <3> HIDE DEF c
    <3>2. SoundCreations([creations EXCEPT ![i] = c])
      BY <2>1, <3>1, SetCreation DEF OnboardingInv
    <3> QED BY <2>3, <3>2 DEF c
  <2> HIDE DEF owner
  <2>5. SessionInv' /\ \A o \in Owners : planOf[o] # NoPlan => planOf'[o] = planOf[o]
    BY <2>2, <2>3, PlanNamesDiffer DEF SessionInv, PlanNames
  <2> QED BY <2>3, <2>4, <2>5 DEF OnboardingInv, DraftsInv
<1>8. ASSUME NEW i \in 1 .. MaxCreations, CreationVerified(i)
      PROVE  SessionInv' /\ OnboardingInv' /\ planOf' = planOf
  <2>1. [creations[i].draft EXCEPT !.step = 7] \in Drafts
    <3>1. creations[i].state # "idle"
      BY <1>8 DEF CreationVerified
    <3>2. creations[i].draft \in Drafts /\ 7 \in 1 .. 7
      BY <3>1 DEF OnboardingInv, SoundCreations
    <3> QED BY <3>2, DraftFields
  <2>2. DraftsInv' /\ UNCHANGED session
    BY <1>8, <2>1, ChangedDraft DEF CreationVerified, OnboardingInv
  <2>3. SoundCreations([creations EXCEPT ![i] = IdleCreation])
    BY IdleCreationType, SetCreation DEF OnboardingInv
  <2>4. SoundCreations(creations)'
    BY <1>8, <2>3, KeptCreations DEF CreationVerified
  <2> QED BY <2>2, <2>4, SessionStep DEF OnboardingInv, session
<1>9. ASSUME NEW i \in 1 .. MaxCreations, CreationFails(i)
      PROVE  SessionInv' /\ OnboardingInv' /\ planOf' = planOf
  <2>1. SoundCreations([creations EXCEPT ![i] = IdleCreation])
    BY IdleCreationType, SetCreation DEF OnboardingInv
  <2>2. /\ UNCHANGED <<session, draft, stored>> /\ planOf' = planOf
        /\ creations' = [creations EXCEPT ![i] = IdleCreation]
    BY <1>9 DEF CreationFails, session
  <2> QED BY <2>1, <2>2, SessionStep DEF OnboardingInv, DraftsInv
<1> QED BY <1>1, <1>2, <1>3, <1>4, <1>5, <1>6, <1>7, <1>8, <1>9 DEF OnboardingNext

\* What was reviewed is accepted.
LEMMA ReviewedAccepted ==
    ASSUME NEW d \in Drafts, Reviewed(d)
    PROVE  LET config == BuildPlanCreationRequest(d) IN
           /\ WholeHundredths(d.beneficiaries) /\ Distinct(d.assets)
                  /\ (d.timing.advanced \/ SafePolicy(config.settings)) =>
                  ParsePlan(d.owner, config)
           /\ ParsePlan(d.owner, config) /\ Len(d.assets) <= MAX_TRACKED_TOKENS => ValidPlan(d.owner, config)
<1> DEFINE config == BuildPlanCreationRequest(d)
<1>1. /\ config.settings = OnboardingPayload(d.timing)
      /\ config.wallets = Wallets(d.beneficiaries) /\ config.shares = Shares(d.beneficiaries)
      /\ config.recoveryKey = d.recoveryKey /\ config.safeVault = d.safeVault
      /\ config.allowSharedRecovery = d.allowSharedRecovery /\ config.tokens = d.assets
  BY DEF BuildPlanCreationRequest
<1> HIDE DEF config
<1>2. /\ d.timing \in Timings /\ d.beneficiaries \in Seq(Rows)
  BY DraftFields
<1>3. WholeHundredths(d.beneficiaries) => ParseBeneficiaries(config.wallets, config.shares)
  BY <1>1, <1>2, SharesAlwaysAgree DEF Reviewed, SharesAgree
<1>4. ParseBeneficiaries(config.wallets, config.shares) => ValidAllocation(config.wallets, config.shares)
  BY <1>1, <1>2, SharesAlwaysAgree DEF SharesAgree
<1>5. /\ d.timing.advanced \/ SafePolicy(config.settings) => ParseLiveness(config.settings)
      /\ ParseLiveness(config.settings) => ValidSettings(config.settings)
  <2>1. 0 \in Int
    OBVIOUS
  <2>2. OnboardingPayload(d.timing) \in Policies
    BY <1>2, <2>1, PolicyTypes
  <2>3. d.timing.advanced \/ SafePolicy(OnboardingPayload(d.timing)) =>
            ParseLiveness(OnboardingPayload(d.timing))
    BY <1>2, OnboardingPolicy DEF Reviewed
  <2> QED BY <1>1, <2>2, <2>3, PolicyValid
<1>6. /\ ParseRecovery(config) /\ RecoverySeparation(d.owner, config)
      /\ ValidRecovery(d.owner, config.recoveryKey, config.safeVault, config.allowSharedRecovery)
  BY <1>1 DEF Reviewed, RecoveryForm, ParseRecovery, RecoverySeparation, ValidRecovery
<1>7. Distinct(d.assets) => ParseTokens(config.tokens)
  BY <1>1 DEF Reviewed, OnboardingAssets, ParseTokens
<1>8. ParseTokens(config.tokens) /\ Len(d.assets) <= MAX_TRACKED_TOKENS => ValidTokenList(config.tokens)
  BY <1>1, TokensAlwaysAgree DEF TokensAgree
<1>9. WholeHundredths(d.beneficiaries) /\ Distinct(d.assets)
          /\ (d.timing.advanced \/ SafePolicy(config.settings)) =>
          ParsePlan(d.owner, config)
  BY <1>3, <1>5, <1>6, <1>7 DEF ParsePlan
<1>10. ParsePlan(d.owner, config) /\ Len(d.assets) <= MAX_TRACKED_TOKENS => ValidPlan(d.owner, config)
  BY <1>4, <1>5, <1>6, <1>8 DEF ParsePlan, ValidPlan
<1> QED BY <1>9, <1>10 DEF config

LEMMA CreationsAlwaysReviewed == OnboardingInv => CreationsAreReviewed
<1> SUFFICES ASSUME OnboardingInv, NEW i \in DOMAIN creations, creations[i].state # "idle"
             PROVE  LET d == creations[i].draft
                        config == BuildPlanCreationRequest(d) IN
                    /\ WholeHundredths(d.beneficiaries) /\ Distinct(d.assets)
                           /\ (d.timing.advanced \/ SafePolicy(config.settings)) =>
                           ParsePlan(d.owner, config)
                    /\ ParsePlan(d.owner, config) /\ Len(d.assets) <= MAX_TRACKED_TOKENS =>
                           ValidPlan(d.owner, config)
  BY DEF CreationsAreReviewed
<1>1. creations[i].draft \in Drafts /\ Reviewed(creations[i].draft)
  BY DEF OnboardingInv, SoundCreations
<1> QED BY <1>1, ReviewedAccepted
-----------------------------------------------------------------------------
(* The settings.                                                           *)

LEMMA PlanFields ==
    ASSUME NEW p \in Plans
    PROVE  /\ p.beneficiaries \in Seq(Rows) /\ p.settings \in Policies
           /\ p.owner \in Addresses /\ p.recoveryKey \in Addresses /\ p.safeVault \in Addresses
           /\ p.tokens \in Seq(Tokens \cup {None})
           /\ \A b \in BOOLEAN :
                 /\ LET q == [p EXCEPT !.livenessActive = b] IN q \in Plans /\ q.owner = p.owner
                 /\ LET q == [p EXCEPT !.inheritanceExecuted = b] IN q \in Plans /\ q.owner = p.owner
                 /\ LET q == [p EXCEPT !.cooling = b] IN q \in Plans /\ q.owner = p.owner
                 /\ LET q == [p EXCEPT !.approved = b] IN q \in Plans /\ q.owner = p.owner
           /\ \A b \in BOOLEAN :
                 /\ LET q == [p EXCEPT !.graceElapsed = b, !.cooling = TRUE] IN
                       q \in Plans /\ q.owner = p.owner
                 /\ LET q == [p EXCEPT !.graceElapsed = b, !.cooling = FALSE] IN
                       q \in Plans /\ q.owner = p.owner
                 /\ LET q == [p EXCEPT !.evacuationExecuted = b, !.livenessActive = FALSE] IN
                       q \in Plans /\ q.owner = p.owner
           /\ \A a \in Addresses : LET q == [p EXCEPT !.recoveryKey = a] IN
                 q \in Plans /\ q.owner = p.owner
<1>1. /\ p.beneficiaries \in Seq(Rows) /\ p.settings \in Policies
      /\ p.owner \in Addresses /\ p.recoveryKey \in Addresses /\ p.safeVault \in Addresses
      /\ p.tokens \in Seq(Tokens \cup {None})
  BY DEF Plans
<1>2. \A b \in BOOLEAN :
         /\ LET q == [p EXCEPT !.livenessActive = b] IN q \in Plans /\ q.owner = p.owner
         /\ LET q == [p EXCEPT !.inheritanceExecuted = b] IN q \in Plans /\ q.owner = p.owner
         /\ LET q == [p EXCEPT !.cooling = b] IN q \in Plans /\ q.owner = p.owner
         /\ LET q == [p EXCEPT !.approved = b] IN q \in Plans /\ q.owner = p.owner
  BY DEF Plans
<1>3. \A b \in BOOLEAN :
         /\ LET q == [p EXCEPT !.graceElapsed = b, !.cooling = TRUE] IN
               q \in Plans /\ q.owner = p.owner
         /\ LET q == [p EXCEPT !.graceElapsed = b, !.cooling = FALSE] IN
               q \in Plans /\ q.owner = p.owner
         /\ LET q == [p EXCEPT !.evacuationExecuted = b, !.livenessActive = FALSE] IN
               q \in Plans /\ q.owner = p.owner
  BY DEF Plans
<1>4. \A a \in Addresses : LET q == [p EXCEPT !.recoveryKey = a] IN
         q \in Plans /\ q.owner = p.owner
  BY DEF Plans
<1> QED BY <1>1, <1>2, <1>3, <1>4

LEMMA DraftOfPlanFits ==
    ASSUME NEW p \in Plans, NEW section \in Sections
    PROVE  DraftFits(section, DraftFrom(p, section))
<1>1. CASE section = "beneficiaries"
  <2> DEFINE rows == [i \in DOMAIN p.beneficiaries |-> [p.beneficiaries[i] EXCEPT !.share = 2 * @]]
  <2>1. p.beneficiaries \in Seq(Rows)
    BY PlanFields
  <2>2. \A row \in Rows : [row EXCEPT !.share = 2 * @] \in Rows
    BY DEF Rows
  <2>3. rows \in Seq(Rows)
    BY <2>1, <2>2
  <2>4. DraftFrom(p, section) = [beneficiaries |-> rows]
    BY <1>1 DEF DraftFrom
  <2> HIDE DEF rows
  <2> QED BY <1>1, <2>3, <2>4 DEF DraftFits, BeneficiaryDrafts
<1>2. CASE section = "liveness"
  <2> DEFINE t == [advanced |-> FALSE, timeoutSeconds |-> 0, graceSeconds |-> 0,
                   timeoutDays |-> SecondsToDays(p.settings.timeoutDuration),
                   graceDays |-> SecondsToDays(p.settings.gracePeriod)]
  <2>1. p.settings \in Policies
    BY PlanFields
  <2>2. SecondsToDays(p.settings.timeoutDuration) \in Int /\ SecondsToDays(p.settings.gracePeriod) \in Int
    BY <2>1, WholeDays DEF Policies
  <2>3. t \in Timings
    BY <2>2 DEF Timings
  <2>4. DraftFrom(p, section) = [settings |-> p.settings, timing |-> t]
    BY <1>2 DEF DraftFrom
  <2> HIDE DEF t
  <2> QED BY <1>2, <2>1, <2>3, <2>4 DEF DraftFits, TimingDrafts
<1>3. CASE section = "recovery"
  BY <1>3, PlanFields DEF DraftFrom, DraftFits, RecoverySections
<1>4. CASE section = "trackedTokens"
  BY <1>4, PlanFields DEF DraftFrom, DraftFits, TokenLists
<1> QED BY <1>1, <1>2, <1>3, <1>4 DEF Sections

\* What a validated draft sends, section by section.
LEMMA ValidatedPayload ==
    ASSUME NEW section \in Sections, NEW d, DraftFits(section, d),
           NEW owner, ValidateSection(section, d, owner), NEW s,
           s.section = section, s.owner = owner, s.payload = PayloadFor(section, d),
           section # "recovery" => s.signer = owner
    PROVE  PayloadFor(section, d) \in Payloads /\ PayloadFits(section, s.payload) /\ PayloadHolds(s)
<1>1. CASE section = "beneficiaries"
  <2> DEFINE list == d.beneficiaries
  <2>1. list \in Seq(Rows) /\ SettingsBeneficiaries(list)
    BY <1>1 DEF DraftFits, BeneficiaryDrafts, ValidateSection
  <2>2. s.payload = [wallets |-> Wallets(list), shares |-> Shares(list)]
    BY <1>1 DEF PayloadFor
  <2> HIDE DEF list
  <2>3. /\ ParseBeneficiaries(s.payload.wallets, s.payload.shares)
        /\ ValidAllocation(s.payload.wallets, s.payload.shares)
    BY <2>1, <2>2, SharesAlwaysAgree DEF SharesAgree
  <2>4. s.payload \in Allocations /\ Len(s.payload.wallets) = Len(s.payload.shares)
    BY <2>1, <2>2, ArraysOf DEF Allocations
  <2> QED BY <1>1, <2>3, <2>4 DEF PayloadFits, PayloadHolds, Payloads, ParsePayload, SectionValid
<1>2. CASE section = "liveness"
  <2> DEFINE t == d.timing
             interval == d.settings.heartbeatInterval
  <2>1. t \in Timings /\ interval \in Int /\ SettingsTiming(t)
    BY <1>2 DEF DraftFits, TimingDrafts, Policies, ValidateSection
  <2>2. s.payload = SettingsPayload(t, interval)
    BY <1>2 DEF PayloadFor
  <2> HIDE DEF t, interval
  <2>3. s.payload \in Policies
    BY <2>1, <2>2, PolicyTypes
  <2>5. /\ s.payload.heartbeatInterval > 0 /\ SafePolicy(s.payload) => ParseLiveness(s.payload)
        /\ ParseLiveness(s.payload) => ValidSettings(s.payload)
    BY <2>1, <2>2, <2>3, SettingsPolicy, PolicyValid
  <2> QED BY <1>2, <2>3, <2>5 DEF PayloadFits, PayloadHolds, Payloads, ParsePayload, SectionValid
<1>3. CASE section = "recovery"
  <2>1. d \in RecoverySections /\ RecoveryForm(owner, d)
    BY <1>3 DEF DraftFits, ValidateSection
  <2>2. s.payload = [recoveryKey |-> d.recoveryKey, safeVault |-> d.safeVault,
                     allowSharedRecovery |-> d.allowSharedRecovery]
    BY <1>3 DEF PayloadFor
  <2>3. s.payload \in RecoverySections
    BY <2>1, <2>2 DEF RecoverySections
  <2>4. /\ ParseRecovery(s.payload)
        /\ ValidRecovery(owner, s.payload.recoveryKey, s.payload.safeVault, s.payload.allowSharedRecovery)
    BY <2>1, <2>2 DEF RecoveryForm, ParseRecovery, ValidRecovery
  <2> QED BY <1>3, <2>3, <2>4 DEF PayloadFits, PayloadHolds, Payloads, ParsePayload, SectionValid
<1>4. CASE section = "trackedTokens"
  <2>1. d \in TokenLists /\ SettingsTokens(d.tokens)
    BY <1>4 DEF DraftFits, ValidateSection
  <2>2. s.payload = [tokens |-> d.tokens]
    BY <1>4 DEF PayloadFor
  <2>3. s.payload \in TokenLists
    BY <2>1, <2>2 DEF TokenLists
  <2>4. /\ ParseTokens(s.payload.tokens)
        /\ Len(s.payload.tokens) <= MAX_TRACKED_TOKENS => ValidTokenList(s.payload.tokens)
    BY <2>1, <2>2, TokensAlwaysAgree DEF TokensAgree
  <2> QED BY <1>4, <2>3, <2>4 DEF PayloadFits, PayloadHolds, Payloads, ParsePayload, SectionValid
<1> QED BY <1>1, <1>2, <1>3, <1>4 DEF Sections

LEMMA ChangedPlan ==
    ASSUME NEW p \in Plans, NEW section \in Sections, NEW payload, PayloadFits(section, payload)
    PROVE  WithSection(p, section, payload) \in Plans /\ WithSection(p, section, payload).owner = p.owner
<1>1. CASE section = "beneficiaries"
  <2> DEFINE rows == [i \in DOMAIN payload.wallets |->
                         [address |-> payload.wallets[i], share |-> payload.shares[i]]]
  <2>1. /\ payload.wallets \in Seq(Addresses) /\ payload.shares \in Seq(Int)
        /\ Len(payload.wallets) = Len(payload.shares)
    BY <1>1 DEF PayloadFits, Allocations
  <2> DEFINE n == Len(payload.wallets)
  <2>2. n \in Nat /\ DOMAIN payload.wallets = 1 .. n
    BY <2>1
  <2>3. rows \in Seq(Rows)
    <3>1. \A i \in 1 .. n : payload.wallets[i] \in Addresses /\ payload.shares[i] \in Int
      BY <2>1
    <3>2. \A i \in 1 .. n : [address |-> payload.wallets[i], share |-> payload.shares[i]] \in Rows
      BY <3>1 DEF Rows
    <3> HIDE DEF n
    <3>3. rows \in [1 .. n -> Rows]
      BY <2>2, <3>2
    <3> HIDE DEF rows
    <3> QED BY <2>2, <3>3, SeqDef
  <2>4. WithSection(p, section, payload) = [p EXCEPT !.beneficiaries = rows]
    BY <1>1 DEF WithSection
  <2> HIDE DEF rows
  <2> QED BY <2>3, <2>4 DEF Plans
<1>2. CASE section = "liveness"
  BY <1>2 DEF WithSection, PayloadFits, Plans
<1>3. CASE section = "recovery"
  BY <1>3 DEF WithSection, PayloadFits, RecoverySections, Plans
<1>4. CASE section = "trackedTokens"
  BY <1>4 DEF WithSection, PayloadFits, TokenLists, Plans
<1> QED BY <1>1, <1>2, <1>3, <1>4 DEF Sections

LEMMA OrphanedSaves ==
    ASSUME NEW ss, SoundSaves(ss)
    PROVE  SoundSaves(Orphaned(ss))
<1>1. ASSUME NEW s \in Saves, s.state \in {"sent", "landed"} => SaveHolds(s)
      PROVE  /\ [s EXCEPT !.live = FALSE] \in Saves
             /\ [s EXCEPT !.live = FALSE].state \in {"sent", "landed"} => SaveHolds([s EXCEPT !.live = FALSE])
  <2> DEFINE q == [s EXCEPT !.live = FALSE]
  <2>1. /\ q \in Saves /\ q.state = s.state /\ q.owner = s.owner /\ q.plan = s.plan
        /\ q.section = s.section /\ q.signer = s.signer /\ q.payload = s.payload
    BY DEF Saves
  <2> HIDE DEF q
  <2>2. SaveHolds(s) => SaveHolds(q)
    BY <2>1 DEF SaveHolds, PayloadHolds
  <2> QED BY <1>1, <2>1, <2>2 DEF q
<1>2. Orphaned(ss) = [i \in 1 .. MaxSaves |-> [ss[i] EXCEPT !.live = FALSE]]
  BY DEF SoundSaves, Orphaned
<1>3. \A i \in 1 .. MaxSaves : ss[i] \in Saves /\ (ss[i].state \in {"sent", "landed"} => SaveHolds(ss[i]))
  BY DEF SoundSaves
<1> QED BY <1>1, <1>2, <1>3 DEF SoundSaves

LEMMA SetSave ==
    ASSUME SoundSaves(saves), NEW i \in 1 .. MaxSaves, NEW s \in Saves,
           s.state \in {"sent", "landed"} => SaveHolds(s)
    PROVE  SoundSaves([saves EXCEPT ![i] = s])
BY DEF SoundSaves

LEMMA SaveTypes ==
    /\ IdleSave \in Saves /\ IdleSave.state = "idle"
    /\ OverSave \in Saves /\ OverSave.state = "over"
<1>1. None \in Addresses /\ NoPlan \in PlanNames /\ <<>> \in Payloads
  BY DEF Addresses, PlanNames, Payloads
<1>2. IdleSave \in Saves /\ IdleSave.state = "idle"
  BY <1>1 DEF IdleSave, Saves
<1> QED BY <1>2 DEF OverSave, Saves

LEMMA NoSectionFits ==
    ASSUME NEW d, NEW next \in {"none", "review", "delete"}
    PROVE  DraftFits(next, d)
BY DEF DraftFits

\* The updates in flight become ss, while a registration may be added.
LEMMA SavesBecome ==
    ASSUME NEW ss, SoundSaves(ss), saves' = ss,
           planOf' = planOf \/ \A o \in Owners : planOf[o] # NoPlan => planOf'[o] = planOf[o]
    PROVE  SoundSaves(saves)'
<1>1. ASSUME NEW s, SaveHolds(s)
      PROVE  /\ s.owner \in Owners /\ s.plan = PlanFor(s.owner) /\ planOf'[s.owner] = s.plan
             /\ s.section \in Sections /\ PayloadFits(s.section, s.payload) /\ PayloadHolds(s)
  BY <1>1, PlanNamesDiffer DEF SaveHolds, OwnPlan
<1>2. \A i \in 1 .. MaxSaves : saves'[i].state \in {"sent", "landed"} => SaveHolds(saves[i])'
  BY <1>1 DEF SoundSaves, SaveHolds, OwnPlan
<1> QED BY <1>2 DEF SoundSaves

LEMMA ShownDialog ==
    ASSUME NEW next \in {"none", "review", "delete"} \cup Sections,
           NEW ss, SoundSaves(ss), Show(next, ss), planOf' = planOf, DraftFits(next, sdraft')
    PROVE  SettingsInv'
<1>1. SoundSaves(saves)'
  BY OrphanedSaves, SavesBecome DEF Show
<1>2. DialogInv'
  BY DEF Show, DialogInv
<1> QED BY <1>1, <1>2 DEF SettingsInv

LEMMA SameSaves ==
    ASSUME SettingsInv, DialogInv', UNCHANGED saves,
           planOf' = planOf \/ \A o \in Owners : planOf[o] # NoPlan => planOf'[o] = planOf[o]
    PROVE  SettingsInv'
BY SavesBecome DEF SettingsInv

LEMMA SameSettings ==
    ASSUME SettingsInv, UNCHANGED settings,
           planOf' = planOf \/ \A o \in Owners : planOf[o] # NoPlan => planOf'[o] = planOf[o]
    PROVE  SettingsInv'
BY SameSaves DEF SettingsInv, DialogInv, settings

LEMMA EditedSection ==
    ASSUME DialogInv, SectionEditor
    PROVE  DialogInv'
<1>1. view' = view
  BY DEF SectionEditor
<1>2. CASE view = "beneficiaries" /\ BeneficiaryEditor
  <2>1. sdraft \in BeneficiaryDrafts
    BY <1>2 DEF DialogInv, DraftFits
  <2>2. PICK list \in Seq(Rows) : sdraft' = [sdraft EXCEPT !.beneficiaries = list]
    BY <1>2, <2>1, EditedBeneficiaries DEF BeneficiaryEditor, BeneficiaryDrafts
  <2> QED BY <1>1, <1>2, <2>1, <2>2 DEF DialogInv, DraftFits, BeneficiaryDrafts
<1>3. CASE view = "liveness" /\ TimingEditor
  <2>1. sdraft \in TimingDrafts
    BY <1>3 DEF DialogInv, DraftFits
  <2>2. /\ sdraft.timing \in Timings /\ sdraft.settings.timeoutDuration \in Int
        /\ sdraft.settings.gracePeriod \in Int
    BY <2>1 DEF TimingDrafts, Policies
  <2>3. PICK t \in Timings : sdraft' = [sdraft EXCEPT !.timing = t]
    BY <1>3, <2>2, EditedTiming DEF TimingEditor
  <2> QED BY <1>1, <1>3, <2>1, <2>3 DEF DialogInv, DraftFits, TimingDrafts
<1>4. CASE view = "recovery" /\ RecoveryEditor
  <2>1. sdraft \in RecoverySections
    BY <1>4 DEF DialogInv, DraftFits
  <2>2. sdraft' \in RecoverySections
    BY <1>4, <2>1 DEF RecoveryEditor, RecoverySections
  <2> QED BY <1>1, <1>4, <2>2 DEF DialogInv, DraftFits
<1>5. CASE view = "trackedTokens" /\ AssetEditor
  <2>1. sdraft \in TokenLists
    BY <1>5 DEF DialogInv, DraftFits
  <2>2. PICK list \in Seq(Tokens \cup {None}) : sdraft' = [sdraft EXCEPT !.tokens = list]
    BY <1>5, <2>1, EditedTokens DEF AssetEditor, TokenLists
  <2> QED BY <1>1, <1>5, <2>1, <2>2 DEF DialogInv, DraftFits, TokenLists
<1> QED BY <1>2, <1>3, <1>4, <1>5 DEF SectionEditor

LEMMA DialogsStep ==
    ASSUME SessionInv, PlansInv, SettingsInv, DialogsNext
    PROVE  SessionInv' /\ planOf' = planOf /\ PlansInv' /\ SettingsInv'
<1>1. DialogInv /\ SoundSaves(saves) /\ DraftFits(view, sdraft)
      /\ view \in {"none", "review", "delete"} \cup Sections
  BY DEF SettingsInv, DialogInv
<1>2. CASE SettingsSession \/ SettingsRefetch
  <2>1. SessionInv' /\ planOf' = planOf
    BY <1>2, SessionStep DEF SettingsSession, SettingsRefetch, Refetch
  <2>2. PlansInv'
    BY <1>2, SamePlans, ReadKeeps DEF SettingsSession, SettingsRefetch, Refetch
  <2>3. /\ sdraft' = sdraft
        /\ \/ view' = view /\ saves' = saves
           \/ Show(view, saves)
    BY <1>2 DEF SettingsSession, SettingsRefetch, Open
  <2>4. CASE view' = view /\ saves' = saves
    BY <1>1, <2>1, <2>2, <2>3, <2>4, SameSaves DEF DialogInv
  <2>5. CASE Show(view, saves)
    BY <1>1, <2>1, <2>2, <2>3, <2>5, ShownDialog
  <2> QED BY <2>1, <2>2, <2>3, <2>4, <2>5
<1>3. CASE Launch \/ Review \/ DeletePlan \/ Close
  <2>1. SessionInv' /\ planOf' = planOf
    BY <1>3, SessionStep DEF Launch, Review, DeletePlan, Close, session
  <2>2. PlansInv'
    BY <1>3, SamePlans DEF Launch, Review, DeletePlan, Close
  <2>3. PICK next \in {"none", "review", "delete"} \cup Sections :
            /\ Show(next, saves)
            /\ next \in Sections => sdraft' = DraftFrom(Keeper, next)
    BY <1>3 DEF Launch, Review, DeletePlan, Close, Open, Sections
  <2>4. DraftFits(next, sdraft')
    BY <2>3, KeeperType, DraftOfPlanFits, NoSectionFits
  <2> QED BY <1>1, <2>1, <2>2, <2>3, <2>4, ShownDialog
<1>4. CASE ConfirmDelete
  <2>1. UNCHANGED <<session, planview, view, sdraft, saves>>
    BY <1>4 DEF ConfirmDelete
  <2>2. planOf' = planOf /\ DialogInv'
    BY <1>1, <2>1 DEF session, DialogInv
  <2> QED BY <2>1, <2>2, SessionStep, SamePlans, SameSaves
<1> QED BY <1>2, <1>3, <1>4 DEF DialogsNext

LEMMA SettingsStep ==
    ASSUME SessionInv, PlansInv, SettingsInv, SettingsNext
    PROVE  SessionInv' /\ planOf' = planOf /\ PlansInv' /\ SettingsInv'
<1>1. /\ DialogInv /\ SoundSaves(saves) /\ DOMAIN saves = 1 .. MaxSaves
      /\ \A i \in 1 .. MaxSaves : saves[i] \in Saves
  BY DEF SettingsInv, SoundSaves
<1>2. CASE DialogsNext
  BY <1>2, DialogsStep
<1>3. CASE SectionEditor
  <2>1. UNCHANGED <<session, planview, saves>> /\ planOf' = planOf
    BY <1>3 DEF SectionEditor, session
  <2> QED BY <1>1, <1>3, <2>1, EditedSection, SessionStep, SamePlans, SameSaves
<1>4. CASE Save
  <2> DEFINE s == [state |-> "sent", owner |-> wallet, plan |-> Resolution, section |-> view,
                   signer |-> ExpectedSigner(view), payload |-> PayloadFor(view, sdraft), live |-> TRUE]
  <2>1. PICK i \in 1 .. MaxSaves : saves' = [saves EXCEPT ![i] = s]
    BY <1>1, <1>4 DEF Save
  <2>2. /\ EditorShown /\ view \in Sections /\ ValidateSection(view, sdraft, wallet)
        /\ UNCHANGED <<session, planview, view, sdraft>>
    BY <1>4 DEF Save
  <2>3. OwnPlan(wallet, Resolution)
    BY <2>2, ResolvedIsOwn DEF EditorShown
  <2>4. ExpectedSigner(view) \in Addresses /\ (view # "recovery" => ExpectedSigner(view) = wallet)
    BY KeeperType, PlanFields, PlansAssumption DEF ExpectedSigner, SessionInv, Addresses
  <2>5. /\ s.state = "sent" /\ s.owner = wallet /\ s.plan = Resolution /\ s.section = view
        /\ s.signer = ExpectedSigner(view) /\ s.payload = PayloadFor(view, sdraft) /\ s.live = TRUE
        /\ s = [state |-> s.state, owner |-> s.owner, plan |-> s.plan, section |-> s.section,
                signer |-> s.signer, payload |-> s.payload, live |-> s.live]
    OBVIOUS
  <2> HIDE DEF s
  <2>6. s.payload \in Payloads /\ PayloadFits(view, s.payload) /\ PayloadHolds(s)
    BY <1>1, <2>2, <2>4, <2>5, ValidatedPayload DEF DialogInv
  <2>7. s \in Saves
    <3>1. wallet \in Addresses /\ Resolution \in PlanNames
      BY <2>2, <2>3, PlansAssumption, PlanNamesDiffer DEF SessionInv, Addresses, OwnPlan, PlanNames
    <3> QED BY <2>2, <2>4, <2>5, <2>6, <3>1 DEF Saves
  <2>8. SaveHolds(s)
    BY <2>2, <2>3, <2>5, <2>6 DEF SaveHolds
  <2>9. SoundSaves([saves EXCEPT ![i] = s])
    BY <1>1, <2>7, <2>8, SetSave
  <2>10. planOf' = planOf /\ SessionInv' /\ PlansInv'
    BY <2>2, SessionStep, SamePlans
  <2>11. SoundSaves(saves)' /\ DialogInv'
    BY <1>1, <2>1, <2>2, <2>9, <2>10, SavesBecome DEF DialogInv
  <2> QED BY <2>10, <2>11 DEF SettingsInv
<1>5. ASSUME NEW i \in 1 .. MaxSaves, SaveLands(i)
      PROVE  SessionInv' /\ planOf' = planOf /\ PlansInv' /\ SettingsInv'
  <2> DEFINE s == saves[i]
             after == [saves[i] EXCEPT !.state = "landed"]
             p == WithSection(chain[s.plan], s.section, s.payload)
  <2>1. /\ s \in Saves /\ s.state = "sent" /\ SaveHolds(s)
        /\ Set(s.plan, p)
        /\ saves' = [saves EXCEPT ![i] = after]
        /\ UNCHANGED <<session, read, view, sdraft>>
    BY <1>1, <1>5 DEF SaveLands, SoundSaves, Set
  <2>2. p \in Plans /\ p.owner = chain[s.plan].owner
    <3>1. chain[s.plan] \in Plans /\ s.section \in Sections /\ PayloadFits(s.section, s.payload)
      BY <2>1, PlanNamesDiffer DEF SaveHolds, OwnPlan, PlansInv
    <3> QED BY <3>1, ChangedPlan
  <2>3. PlansInv'
    <3> HIDE DEF s, p, after
    <3> QED BY <2>1, <2>2, SetKeeps
  <2>4. /\ after \in Saves /\ after.state = "landed" /\ after.owner = s.owner /\ after.plan = s.plan
        /\ after.section = s.section /\ after.signer = s.signer /\ after.payload = s.payload
    BY <2>1 DEF Saves
  <2> HIDE DEF s, p, after
  <2>5. SaveHolds(after)
    BY <2>1, <2>4 DEF SaveHolds, PayloadHolds
  <2>6. SoundSaves([saves EXCEPT ![i] = after])
    BY <1>1, <2>4, <2>5, SetSave
  <2>7. planOf' = planOf /\ SessionInv'
    BY <2>1, SessionStep DEF session
  <2>8. SoundSaves(saves)' /\ DialogInv'
    BY <1>1, <2>1, <2>6, <2>7, SavesBecome DEF DialogInv
  <2> QED BY <2>3, <2>7, <2>8 DEF SettingsInv
<1>6. ASSUME NEW i \in 1 .. MaxSaves, SaveVerified(i) \/ SaveFails(i)
      PROVE  SessionInv' /\ planOf' = planOf /\ PlansInv' /\ SettingsInv'
  <2>1. SoundSaves([saves EXCEPT ![i] = OverSave])
    BY <1>1, SaveTypes, SetSave
  <2>2. UNCHANGED <<session, planview>> /\ planOf' = planOf
    BY <1>6 DEF SaveVerified, SaveFails, session
  <2>3. SettingsInv'
    <3>1. CASE SaveVerified(i)
      BY <2>1, <2>2, <3>1, NoSectionFits, ShownDialog DEF SaveVerified
    <3>2. CASE SaveFails(i)
      <4>1. DialogInv' /\ saves' = [saves EXCEPT ![i] = OverSave]
        BY <1>1, <3>2 DEF SaveFails, DialogInv
      <4> QED BY <2>1, <2>2, <4>1, SavesBecome DEF SettingsInv
    <3> QED BY <1>6, <3>1, <3>2
  <2> QED BY <2>2, <2>3, SessionStep, SamePlans
<1> QED BY <1>1, <1>2, <1>3, <1>4, <1>5, <1>6 DEF SettingsNext

LEMMA StopStep ==
    ASSUME SessionInv, PlansInv, SettingsInv, StopNext
    PROVE  SessionInv' /\ planOf' = planOf /\ PlansInv' /\ SettingsInv'
<1>1. DialogInv /\ SoundSaves(saves)
  BY DEF SettingsInv
<1>2. CASE DialogsNext
  BY <1>2, DialogsStep
<1>3. CASE EstateSettles
  <2>1. PICK plan \in PlansOf(Owners) : Set(plan, [chain[plan] EXCEPT !.inheritanceExecuted = TRUE])
    BY <1>3 DEF EstateSettles, Set, PlansInv
  <2>2. UNCHANGED <<session, read, settings>> /\ planOf' = planOf
    BY <1>3 DEF EstateSettles, session
  <2>3. PlansInv'
    BY <2>1, <2>2, PlanFields, SetKeeps DEF PlansInv
  <2> QED BY <2>2, <2>3, SessionStep, SameSettings
<1>4. CASE StopMined
  <2>1. \/ Set(stop.plan, [chain[stop.plan] EXCEPT !.livenessActive = FALSE])
        \/ UNCHANGED chain
    BY <1>4 DEF StopMined, Set
  <2>2. UNCHANGED <<session, read, view, sdraft, saves>> /\ planOf' = planOf
    BY <1>4 DEF StopMined, session
  <2>3. PlansInv'
    <3>1. CASE UNCHANGED chain
      BY <2>2, <3>1 DEF PlansInv
    <3>2. CASE Set(stop.plan, [chain[stop.plan] EXCEPT !.livenessActive = FALSE])
      BY <2>2, <3>2, PlanFields, SetKeeps DEF PlansInv
    <3> QED BY <2>1, <3>1, <3>2
  <2>4. DialogInv'
    BY <1>1, <2>2 DEF DialogInv
  <2> QED BY <2>2, <2>3, <2>4, SessionStep, SameSaves
<1>5. CASE Deleted
  <2>1. /\ Reread /\ Show("none", saves)
        /\ UNCHANGED <<session, chain>> /\ planOf' = planOf
    BY <1>5 DEF Deleted, session
  <2>2. PlansInv'
    BY <2>1, ReadKeeps DEF Reread
  <2> QED BY <1>1, <2>1, <2>2, SessionStep, NoSectionFits, ShownDialog
<1>6. CASE StopPlan \/ StopFails
  <2>1. UNCHANGED <<session, planview, view, sdraft, saves>> /\ planOf' = planOf
    BY <1>6 DEF StopPlan, StopFails, session
  <2>2. DialogInv'
    BY <1>1, <2>1 DEF DialogInv
  <2> QED BY <2>1, <2>2, SessionStep, SamePlans, SameSaves
<1> QED BY <1>2, <1>3, <1>4, <1>5, <1>6 DEF StopNext

LEMMA SavesAlwaysConsistent == SettingsInv => SavesAreConsistent
<1> SUFFICES ASSUME SettingsInv, NEW i \in DOMAIN saves, saves[i].state \in {"sent", "landed"}
             PROVE  saves[i].plan = planOf[saves[i].owner] /\ PayloadHolds(saves[i])
  BY DEF SavesAreConsistent, PayloadHolds
<1>1. SaveHolds(saves[i])
  BY DEF SettingsInv, SoundSaves
<1> QED BY <1>1 DEF SaveHolds, OwnPlan
-----------------------------------------------------------------------------
(* The pages of a plan.                                                    *)

LEMMA SameRequests ==
    ASSUME planOf' = planOf \/ \A o \in Owners : planOf[o] # NoPlan => planOf'[o] = planOf[o]
    PROVE  /\ BeatsInv /\ UNCHANGED beats => BeatsInv'
           /\ ApprovalInv /\ UNCHANGED approval => ApprovalInv'
           /\ PanicInv /\ UNCHANGED panic => PanicInv'
           /\ TriggersInv /\ UNCHANGED <<triggers, inFlight>> => TriggersInv'
<1>1. \A owner, plan : OwnPlan(owner, plan) =>
          owner \in Owners /\ plan = PlanFor(owner) /\ planOf'[owner] = plan
  BY PlanNamesDiffer DEF OwnPlan
<1>2. BeatsInv /\ UNCHANGED beats => BeatsInv'
  BY <1>1 DEF BeatsInv, OwnPlan
<1>3. ApprovalInv /\ UNCHANGED approval => ApprovalInv'
  BY <1>1 DEF ApprovalInv, OwnPlan
<1>4. PanicInv /\ UNCHANGED panic => PanicInv'
  BY <1>1 DEF PanicInv, OwnPlan
<1>5. TriggersInv /\ UNCHANGED <<triggers, inFlight>> => TriggersInv'
  BY <1>1 DEF TriggersInv, OwnPlan
<1> QED BY <1>2, <1>3, <1>4, <1>5

LEMMA SameActions ==
    ASSUME ActionsInv, UNCHANGED actions,
           planOf' = planOf \/ \A o \in Owners : planOf[o] # NoPlan => planOf'[o] = planOf[o]
    PROVE  ActionsInv'
BY SameRequests DEF ActionsInv, actions

LEMMA PageStep ==
    ASSUME SessionInv, PlansInv, PageSession
    PROVE  SessionInv' /\ planOf' = planOf /\ PlansInv'
BY SessionStep, SamePlans, ReadKeeps DEF PageSession, Refetch

LEMMA PlanStep ==
    ASSUME SessionInv, PlansInv, NEW plan,
           Lapse(plan) \/ CooldownPasses(plan) \/ BeatElsewhere(plan) \/ Distributed(plan)
               \/ RecoveryRotates(plan)
    PROVE  SessionInv' /\ planOf' = planOf /\ PlansInv' /\ UNCHANGED actions
<1>1. UNCHANGED <<session, read, actions>> /\ planOf' = planOf
  BY DEF Lapse, CooldownPasses, BeatElsewhere, Distributed, RecoveryRotates, session
<1>2. plan \in PlansOf(Owners) => chain[plan] \in Plans /\ chain[plan].safeVault \in Addresses
  BY PlanFields DEF PlansInv
<1>3. \/ Set(plan, [chain[plan] EXCEPT !.graceElapsed = TRUE, !.cooling = FALSE])
      \/ Set(plan, [chain[plan] EXCEPT !.cooling = FALSE])
      \/ Set(plan, [chain[plan] EXCEPT !.graceElapsed = FALSE, !.cooling = TRUE])
      \/ Set(plan, [chain[plan] EXCEPT !.inheritanceExecuted = TRUE])
      \/ Set(plan, [chain[plan] EXCEPT !.recoveryKey = chain[plan].safeVault])
  BY DEF Lapse, CooldownPasses, BeatElsewhere, Distributed, RecoveryRotates
<1> DEFINE outcomes ==
        {[chain[plan] EXCEPT !.graceElapsed = TRUE, !.cooling = FALSE],
         [chain[plan] EXCEPT !.cooling = FALSE],
         [chain[plan] EXCEPT !.graceElapsed = FALSE, !.cooling = TRUE],
         [chain[plan] EXCEPT !.inheritanceExecuted = TRUE],
         [chain[plan] EXCEPT !.recoveryKey = chain[plan].safeVault]}
<1>4. ASSUME plan \in PlansOf(Owners), NEW p \in outcomes
      PROVE  p \in Plans /\ p.owner = chain[plan].owner
  <2>1. CASE p = [chain[plan] EXCEPT !.graceElapsed = TRUE, !.cooling = FALSE]
    BY <1>2, <1>4, <2>1, PlanFields
  <2>2. CASE p = [chain[plan] EXCEPT !.cooling = FALSE]
    BY <1>2, <1>4, <2>2, PlanFields
  <2>3. CASE p = [chain[plan] EXCEPT !.graceElapsed = FALSE, !.cooling = TRUE]
    BY <1>2, <1>4, <2>3, PlanFields
  <2>4. CASE p = [chain[plan] EXCEPT !.inheritanceExecuted = TRUE]
    BY <1>2, <1>4, <2>4, PlanFields
  <2>5. CASE p = [chain[plan] EXCEPT !.recoveryKey = chain[plan].safeVault]
    BY <1>2, <1>4, <2>5, PlanFields
  <2> QED BY <1>4, <2>1, <2>2, <2>3, <2>4, <2>5
<1>5. PICK p \in outcomes : Set(plan, p)
  BY <1>3
<1>6. PlansInv'
  BY <1>1, <1>4, <1>5, SetKeeps
<1> QED BY <1>1, <1>6, SessionStep

LEMMA EvacuatesStep ==
    ASSUME PlansInv, NEW plan, Evacuates(plan), UNCHANGED read
    PROVE  PlansInv'
<1>1. plan \in PlansOf(Owners) => chain[plan] \in Plans
  BY DEF PlansInv
<1>2. PICK p : Set(plan, p) /\ (plan \in PlansOf(Owners) => p \in Plans /\ p.owner = chain[plan].owner)
  BY <1>1, PlanFields DEF Evacuates
<1> QED BY <1>2, SetKeeps

\* What a page sends of the plan that is shown.
LEMMA ShownRequest ==
    ASSUME SessionInv, Resolved
    PROVE  /\ OwnPlan(wallet, Resolution)
           /\ wallet \in Addresses /\ Resolution \in PlanNames /\ Resolution # NoPlan
BY ResolvedIsOwn, PlansAssumption DEF SessionInv, Addresses, PlanNames, Resolved

LEMMA CheckInStep ==
    ASSUME SessionInv, PlansInv, ActionsInv, CheckInNext
    PROVE  SessionInv' /\ planOf' = planOf /\ PlansInv' /\ ActionsInv'
<1>1. /\ BeatsInv /\ DOMAIN beats = 1 .. MaxRequests
      /\ \A i \in 1 .. MaxRequests : beats[i] \in Beats
  BY DEF ActionsInv, BeatsInv
<1>2. CASE CheckInSession
  <2>1. SessionInv' /\ planOf' = planOf /\ PlansInv'
    BY <1>2, PageStep DEF CheckInSession
  <2>2. CASE UNCHANGED beats
    BY <1>2, <2>1, <2>2, SameRequests DEF CheckInSession, ActionsInv
  <2>3. CASE beats' = [i \in DOMAIN beats |-> [beats[i] EXCEPT !.live = FALSE]]
    <3>1. \A b \in Beats : LET q == [b EXCEPT !.live = FALSE] IN
              q \in Beats /\ q.state = b.state /\ q.owner = b.owner /\ q.plan = b.plan
      BY DEF Beats
    <3>2. /\ beats' \in [1 .. MaxRequests -> Beats]
          /\ \A i \in 1 .. MaxRequests : /\ beats'[i].state = beats[i].state
                                         /\ beats'[i].owner = beats[i].owner
                                         /\ beats'[i].plan = beats[i].plan
      BY <1>1, <2>3, <3>1
    <3>3. BeatsInv'
      BY <1>1, <2>1, <3>2 DEF BeatsInv, OwnPlan
    <3> QED BY <1>2, <2>1, <3>3, SameRequests DEF CheckInSession, ActionsInv
  <2> QED BY <1>2, <2>2, <2>3 DEF CheckInSession
<1>3. CASE CheckIn
  <2> DEFINE b == [state |-> "sent", owner |-> wallet, plan |-> Resolution, live |-> TRUE]
  <2>1. PICK i \in 1 .. MaxRequests : beats' = [beats EXCEPT ![i] = b]
    BY <1>1, <1>3 DEF CheckIn
  <2>2. Resolved /\ UNCHANGED <<session, planview, approval, inFlight, triggers, panic>> /\ planOf' = planOf
    BY <1>3 DEF CheckIn, CheckInAvailability, session
  <2>3. b \in Beats /\ OwnPlan(b.owner, b.plan)
    BY <2>2, ShownRequest DEF Beats
  <2> HIDE DEF b
  <2>4. BeatsInv'
    BY <1>1, <2>1, <2>2, <2>3 DEF BeatsInv, OwnPlan
  <2> QED BY <2>2, <2>4, SessionStep, SamePlans, SameRequests DEF ActionsInv
<1>4. ASSUME NEW i \in 1 .. MaxRequests, CheckInLands(i)
      PROVE  SessionInv' /\ planOf' = planOf /\ PlansInv' /\ ActionsInv'
  <2> DEFINE b == [beats[i] EXCEPT !.state = "landed"]
  <2>1. /\ beats[i].state = "sent" /\ beats' = [beats EXCEPT ![i] = b]
        /\ Set(beats[i].plan, [chain[beats[i].plan] EXCEPT !.graceElapsed = FALSE, !.cooling = TRUE])
        /\ UNCHANGED <<session, read, approval, inFlight, triggers, panic>> /\ planOf' = planOf
    BY <1>4 DEF CheckInLands, session
  <2>2. b \in Beats /\ b.owner = beats[i].owner /\ b.plan = beats[i].plan
    BY <1>1 DEF Beats
  <2>3. OwnPlan(b.owner, b.plan)
    BY <1>1, <2>1, <2>2 DEF BeatsInv
  <2> HIDE DEF b
  <2>4. BeatsInv'
    BY <1>1, <2>1, <2>2, <2>3 DEF BeatsInv, OwnPlan
  <2>5. PlansInv'
    BY <2>1, PlanFields, SetKeeps DEF PlansInv
  <2> QED BY <2>1, <2>4, <2>5, SessionStep, SameRequests DEF ActionsInv
<1>5. ASSUME NEW i \in 1 .. MaxRequests, CheckInEnds(i) \/ CheckInUnverified(i)
      PROVE  SessionInv' /\ planOf' = planOf /\ PlansInv' /\ ActionsInv'
  <2>1. /\ beats' = [beats EXCEPT ![i] = IdleBeat]
        /\ UNCHANGED <<session, planview, approval, inFlight, triggers, panic>> /\ planOf' = planOf
    BY <1>5 DEF CheckInEnds, CheckInUnverified, session
  <2>2. IdleBeat \in Beats /\ IdleBeat.state = "idle"
    BY DEF IdleBeat, Beats, Addresses, PlanNames
  <2>3. BeatsInv'
    BY <1>1, <2>1, <2>2 DEF BeatsInv, OwnPlan
  <2> QED BY <2>1, <2>3, SessionStep, SamePlans, SameRequests DEF ActionsInv
<1>6. ASSUME NEW plan, Lapse(plan) \/ CooldownPasses(plan) \/ Distributed(plan)
      PROVE  SessionInv' /\ planOf' = planOf /\ PlansInv' /\ ActionsInv'
  BY <1>6, PlanStep, SameActions
<1> QED BY <1>1, <1>2, <1>3, <1>4, <1>5, <1>6 DEF CheckInNext

LEMMA ApprovalStep ==
    ASSUME SessionInv, PlansInv, ActionsInv, ApprovalNext
    PROVE  SessionInv' /\ planOf' = planOf /\ PlansInv' /\ ActionsInv'
<1>1. CASE ApprovalSession
  BY <1>1, PageStep, SameActions DEF ApprovalSession
<1>2. CASE Approve
  <2>1. /\ Resolved
        /\ approval' = [state |-> "sent", owner |-> wallet, plan |-> Resolution]
        /\ UNCHANGED <<session, planview, beats, inFlight, triggers, panic>> /\ planOf' = planOf
    BY <1>2 DEF Approve, session
  <2>2. ApprovalInv'
    BY <2>1, ShownRequest DEF ApprovalInv, Approvals, OwnPlan
  <2> QED BY <2>1, <2>2, SessionStep, SamePlans, SameRequests DEF ActionsInv
<1>3. CASE ApprovalMined
  <2>1. /\ \/ Set(approval.plan, [chain[approval.plan] EXCEPT !.approved = TRUE])
           \/ UNCHANGED chain
        /\ approval.state = "sent" /\ approval' = [approval EXCEPT !.state = "mined"]
        /\ UNCHANGED <<session, read, beats, inFlight, triggers, panic>> /\ planOf' = planOf
    BY <1>3 DEF ApprovalMined, session
  <2>2. PlansInv'
    <3>1. CASE UNCHANGED chain
      BY <2>1, <3>1 DEF PlansInv
    <3>2. CASE Set(approval.plan, [chain[approval.plan] EXCEPT !.approved = TRUE])
      BY <2>1, <3>2, PlanFields, SetKeeps DEF PlansInv
    <3> QED BY <2>1, <3>1, <3>2
  <2>3. ApprovalInv'
    BY <2>1 DEF ActionsInv, ApprovalInv, Approvals, OwnPlan
  <2> QED BY <2>1, <2>2, <2>3, SessionStep, SameRequests DEF ActionsInv
<1>4. CASE ApprovalEnds
  <2>1. /\ Reread /\ approval' = IdleApproval
        /\ UNCHANGED <<session, chain, beats, inFlight, triggers, panic>> /\ planOf' = planOf
    BY <1>4 DEF ApprovalEnds, session
  <2>2. PlansInv'
    BY <2>1, ReadKeeps DEF Reread
  <2>3. ApprovalInv'
    BY <2>1 DEF ApprovalInv, Approvals, IdleApproval, Addresses, PlanNames
  <2> QED BY <2>1, <2>2, <2>3, SessionStep, SameRequests DEF ActionsInv
<1> QED BY <1>1, <1>2, <1>3, <1>4 DEF ApprovalNext

LEMMA TriggerStep ==
    ASSUME SessionInv, PlansInv, ActionsInv, TriggerNext
    PROVE  SessionInv' /\ planOf' = planOf /\ PlansInv' /\ ActionsInv'
<1>1. /\ TriggersInv /\ DOMAIN triggers = 1 .. MaxRequests
      /\ \A i \in 1 .. MaxRequests : triggers[i] \in Triggers
  BY DEF ActionsInv, TriggersInv
<1>2. ASSUME NEW owner, NEW plan, owner \in Owners, plan = PlanFor(owner), planOf'[owner] = plan,
             ~inFlight, Execute(owner, plan)
      PROVE  TriggersInv'
  <2> DEFINE request == [state |-> "sent", owner |-> owner, plan |-> plan]
  <2>1. PICK i \in 1 .. MaxRequests : inFlight' /\ triggers' = [triggers EXCEPT ![i] = request]
    BY <1>1, <1>2 DEF Execute
  <2>2. request \in Triggers /\ request.owner = owner /\ request.plan = plan
    BY <1>2, PlansAssumption, PlanNamesDiffer DEF Triggers, Addresses, PlanNames
  <2>3. \A j \in 1 .. MaxRequests : triggers[j].state = "idle"
    BY <1>1, <1>2 DEF TriggersInv
  <2> HIDE DEF request
  <2> QED BY <1>1, <1>2, <2>1, <2>2, <2>3 DEF TriggersInv, OwnPlan
<1>3. CASE TriggerSession
  <2>1. SessionInv' /\ planOf' = planOf /\ PlansInv'
    BY <1>3, PageStep DEF TriggerSession
  <2>2. UNCHANGED <<beats, approval, panic>>
    BY <1>3 DEF TriggerSession
  <2>3. TriggersInv'
    <3>1. CASE UNCHANGED <<inFlight, triggers>>
      BY <1>1, <2>1, <3>1, SameRequests
    <3>2. CASE Ready' /\ ~inFlight /\ Execute(Keeper'.owner, Shown')
      <4>1. Resolved' /\ Keeper'.owner # None
        BY <3>2 DEF Ready
      <4>2. OwnPlan(wallet, Resolution)'
        BY <2>1, <4>1, NextResolvedIsOwn
      <4>3. Keeper'.owner = wallet'
        BY <2>1, <4>1, NextKeeperType
      <4>4. Shown' = Resolution'
        BY <4>1 DEF Shown
      <4> QED BY <1>2, <3>2, <4>2, <4>3, <4>4 DEF OwnPlan
    <3> QED BY <1>3, <3>1, <3>2 DEF TriggerSession
  <2> QED BY <2>1, <2>2, <2>3, SameRequests DEF ActionsInv
<1>4. CASE RetryTrigger
  <2>1. /\ Resolved /\ Keeper.owner # None /\ ~inFlight /\ Execute(Keeper.owner, Shown)
        /\ UNCHANGED <<session, planview, beats, approval, panic>> /\ planOf' = planOf
    BY <1>4 DEF RetryTrigger, Ready, session
  <2>2. /\ Keeper.owner = wallet /\ Shown = Resolution /\ OwnPlan(wallet, Resolution)
    BY <2>1, KeeperType, ShownRequest DEF Shown
  <2>3. TriggersInv'
    BY <1>2, <2>1, <2>2 DEF OwnPlan
  <2> QED BY <2>1, <2>3, SessionStep, SamePlans, SameRequests DEF ActionsInv
<1>5. ASSUME NEW i \in 1 .. MaxRequests, triggers[i].state = "sent", planOf' = planOf,
             triggers' = [triggers EXCEPT ![i].state = "answered"], UNCHANGED inFlight
      PROVE  TriggersInv'
  <2> DEFINE request == [triggers[i] EXCEPT !.state = "answered"]
  <2>1. /\ request \in Triggers /\ request.owner = triggers[i].owner /\ request.plan = triggers[i].plan
        /\ request.state = "answered" /\ triggers' = [triggers EXCEPT ![i] = request]
    BY <1>1, <1>5 DEF Triggers
  <2> HIDE DEF request
  <2> QED BY <1>1, <1>5, <2>1 DEF TriggersInv, OwnPlan
<1>6. ASSUME NEW i \in 1 .. MaxRequests, TriggerSettles(i)
      PROVE  SessionInv' /\ planOf' = planOf /\ PlansInv' /\ ActionsInv'
  <2> DEFINE plan == triggers[i].plan
  <2>1. /\ Set(plan, [chain[plan] EXCEPT !.inheritanceExecuted = TRUE])
        /\ triggers[i].state = "sent" /\ triggers' = [triggers EXCEPT ![i].state = "answered"]
        /\ UNCHANGED <<session, read, beats, approval, inFlight, panic>> /\ planOf' = planOf
    BY <1>6 DEF TriggerSettles, session
  <2> HIDE DEF plan
  <2>2. PlansInv'
    BY <2>1, PlanFields, SetKeeps DEF PlansInv
  <2>3. TriggersInv'
    BY <1>5, <2>1
  <2> QED BY <2>1, <2>2, <2>3, SessionStep, SameRequests DEF ActionsInv
<1>7. ASSUME NEW i \in 1 .. MaxRequests, TriggerRefused(i)
      PROVE  SessionInv' /\ planOf' = planOf /\ PlansInv' /\ ActionsInv'
  <2>1. /\ triggers[i].state = "sent" /\ triggers' = [triggers EXCEPT ![i].state = "answered"]
        /\ UNCHANGED <<session, planview, beats, approval, inFlight, panic>> /\ planOf' = planOf
    BY <1>7 DEF TriggerRefused, session
  <2> QED BY <1>5, <2>1, SessionStep, SamePlans, SameRequests DEF ActionsInv
<1>8. ASSUME NEW i \in 1 .. MaxRequests, TriggerAnswered(i)
      PROVE  SessionInv' /\ planOf' = planOf /\ PlansInv' /\ ActionsInv'
  <2>1. /\ triggers[i].state = "answered" /\ triggers' = [triggers EXCEPT ![i] = IdleTrigger]
        /\ UNCHANGED <<session, planview, beats, approval, panic>> /\ planOf' = planOf
    BY <1>8 DEF TriggerAnswered, session
  <2>2. IdleTrigger \in Triggers /\ IdleTrigger.state = "idle"
    BY DEF IdleTrigger, Triggers, Addresses, PlanNames
  <2>3. \A j \in 1 .. MaxRequests : triggers'[j].state = "idle"
    BY <1>1, <2>1, <2>2 DEF TriggersInv
  <2>4. TriggersInv'
    BY <1>1, <2>1, <2>2, <2>3 DEF TriggersInv
  <2> QED BY <2>1, <2>4, SessionStep, SamePlans, SameRequests DEF ActionsInv
<1>9. ASSUME NEW plan, Lapse(plan) \/ CooldownPasses(plan) \/ BeatElsewhere(plan)
      PROVE  SessionInv' /\ planOf' = planOf /\ PlansInv' /\ ActionsInv'
  BY <1>9, PlanStep, SameActions
<1> QED BY <1>1, <1>3, <1>4, <1>6, <1>7, <1>8, <1>9 DEF TriggerNext

LEMMA PanicStep ==
    ASSUME SessionInv, PlansInv, ActionsInv, PanicNext
    PROVE  SessionInv' /\ planOf' = planOf /\ PlansInv' /\ ActionsInv'
<1>1. panic \in Panics /\ (panic.sent # NoPlan => OwnPlan(panic.owner, panic.plan))
  BY DEF ActionsInv, PanicInv
<1>2. CASE PanicSession
  BY <1>2, PageStep, SameActions DEF PanicSession
<1>3. CASE Prepare \/ SignPayload \/ Cancel
  <2>1. UNCHANGED <<session, planview, beats, approval, inFlight, triggers>> /\ planOf' = planOf
    BY <1>3 DEF Prepare, SignPayload, Cancel, session
  <2>2. Shown \in PlanNames
    BY ShownRequest DEF Shown, PlanNames
  <2>3. /\ panic' \in Panics /\ panic'.sent = panic.sent
        /\ panic'.owner = panic.owner /\ panic'.plan = panic.plan
    <3>1. \/ panic' = [panic EXCEPT !.prepared = TRUE, !.signed = NoPlan]
          \/ panic' = [panic EXCEPT !.signed = Shown]
          \/ panic' = [panic EXCEPT !.prepared = FALSE]
      BY <1>3 DEF Prepare, SignPayload, Cancel
    <3>2. NoPlan \in PlanNames
      BY DEF PlanNames
    <3> QED BY <1>1, <2>2, <3>1, <3>2 DEF Panics
  <2>4. PanicInv'
    BY <1>1, <2>1, <2>3 DEF PanicInv, OwnPlan
  <2> QED BY <2>1, <2>4, SessionStep, SamePlans, SameRequests DEF ActionsInv
<1>4. CASE SubmitEvacuation
  <2>1. /\ Resolved
        /\ panic' = [panic EXCEPT !.sent = panic.signed, !.owner = wallet, !.plan = Resolution]
        /\ UNCHANGED <<session, planview, beats, approval, inFlight, triggers>> /\ planOf' = planOf
    BY <1>4 DEF SubmitEvacuation, session
  <2>2. panic' \in Panics /\ panic'.owner = wallet /\ panic'.plan = Resolution
    BY <1>1, <2>1, ShownRequest DEF Panics
  <2>3. PanicInv'
    BY <2>1, <2>2, ShownRequest DEF PanicInv, OwnPlan
  <2> QED BY <2>1, <2>3, SessionStep, SamePlans, SameRequests DEF ActionsInv
<1>5. CASE EvacuationLands
  <2>1. Evacuates(panic.plan) /\ UNCHANGED <<session, read, actions>> /\ planOf' = planOf
    BY <1>5 DEF EvacuationLands, session
  <2> QED BY <2>1, SessionStep, EvacuatesStep, SameActions
<1>6. CASE EvacuationAnswered
  <2>1. /\ panic' = [panic EXCEPT !.sent = NoPlan, !.owner = None, !.plan = NoPlan]
        /\ UNCHANGED <<session, planview, beats, approval, inFlight, triggers>> /\ planOf' = planOf
    BY <1>6 DEF EvacuationAnswered, session
  <2>2. panic' \in Panics /\ panic'.sent = NoPlan
    BY <1>1, <2>1 DEF Panics, Addresses, PlanNames
  <2>3. PanicInv'
    BY <2>2 DEF PanicInv
  <2> QED BY <2>1, <2>3, SessionStep, SamePlans, SameRequests DEF ActionsInv
<1> QED BY <1>2, <1>3, <1>4, <1>5, <1>6 DEF PanicNext

LEMMA EntryStep ==
    ASSUME SessionInv, PlansInv, ActionsInv, EntryNext
    PROVE  SessionInv' /\ planOf' = planOf /\ PlansInv' /\ ActionsInv'
<1>1. CASE SwitchWallet /\ UNCHANGED <<planview, actions>>
  BY <1>1, SessionStep, SamePlans, SameActions
<1>2. CASE LoadEntry \/ Authorize \/ AuthorizationAnswered
  <2>1. UNCHANGED <<session, planview, beats, approval, inFlight, triggers, panic>> /\ planOf' = planOf
    BY <1>2 DEF LoadEntry, Authorize, AuthorizationAnswered, session
  <2> QED BY <2>1, SessionStep, SamePlans, SameRequests DEF ActionsInv
<1>3. CASE AuthorizationLands
  <2>1. Evacuates(entry.plan) /\ UNCHANGED <<session, read, actions>> /\ planOf' = planOf
    BY <1>3 DEF AuthorizationLands, session
  <2> QED BY <2>1, SessionStep, EvacuatesStep, SameActions
<1>4. ASSUME NEW plan, RecoveryRotates(plan)
      PROVE  SessionInv' /\ planOf' = planOf /\ PlansInv' /\ ActionsInv'
  BY <1>4, PlanStep, SameActions
<1> QED BY <1>1, <1>2, <1>3, <1>4 DEF EntryNext

LEMMA ActionsAlwaysOwn == ActionsInv => ActionsAreOwn
<1> SUFFICES ASSUME ActionsInv PROVE ActionsAreOwn
  OBVIOUS
<1> DEFINE busy == {i \in DOMAIN triggers : triggers[i].state # "idle"}
<1>1. /\ \A i \in DOMAIN beats : beats[i].state # "idle" => beats[i].plan = planOf[beats[i].owner]
      /\ approval.state # "idle" => approval.plan = planOf[approval.owner]
      /\ panic.sent # NoPlan => panic.plan = planOf[panic.owner]
      /\ \A i \in DOMAIN triggers :
             triggers[i].state # "idle" => triggers[i].plan = planOf[triggers[i].owner]
  BY DEF ActionsInv, BeatsInv, ApprovalInv, PanicInv, TriggersInv, OwnPlan
<1>2. Cardinality(busy) <= 1
  <2>1. CASE busy = {}
    <3> HIDE DEF busy
    <3> QED BY <2>1, FS_EmptySet
  <2>2. CASE busy # {}
    <3>1. PICK i \in busy : TRUE
      BY <2>2
    <3>2. busy = {i}
      BY <3>1 DEF ActionsInv, TriggersInv
    <3> HIDE DEF busy
    <3>3. Cardinality({i}) = 1
      BY FS_Singleton
    <3> QED BY <3>2, <3>3
  <2> QED BY <2>1, <2>2
<1> QED BY <1>1, <1>2 DEF ActionsAreOwn
-----------------------------------------------------------------------------
(* The panel of the Telegram link.                                         *)

\* A restore begun anew is the only one whose answer is awaited.
LEMMA RestoreStep ==
    ASSUME restores \in [1 .. MaxRestores -> Restores], NEW owner \in Owners, Restore(owner)
    PROVE  /\ restores' \in [1 .. MaxRestores -> Restores]
           /\ \A i \in 1 .. MaxRestores : restores'[i].current => restores'[i].owner = owner
           /\ panel'.by = "start"
<1> DEFINE rs == Abandon(restores)
           sent == [state |-> "sent", owner |-> owner, current |-> TRUE]
<1>1. \A r \in Restores : LET q == [r EXCEPT !.current = FALSE] IN q \in Restores /\ ~q.current
  BY DEF Restores
<1>2. /\ rs \in [1 .. MaxRestores -> Restores]
      /\ \A i \in 1 .. MaxRestores : ~rs[i].current
  BY <1>1 DEF Abandon
<1>3. sent \in Restores /\ sent.owner = owner
  BY DEF Restores
<1>4. panel'.by = "start"
  BY DEF Restore, Restoring, Panel
<1>5. \E i \in DOMAIN rs : restores' = [rs EXCEPT ![i] = sent]
  BY DEF Restore
<1> HIDE DEF rs, sent
<1> QED BY <1>2, <1>3, <1>4, <1>5

LEMMA TelegramStep ==
    ASSUME SessionInv, TelegramInv, part = "telegram", part' = part, TelegramNext
    PROVE  SessionInv' /\ planOf' = planOf /\ TelegramInv'
<1>1. /\ restores \in [1 .. MaxRestores -> Restores] /\ DOMAIN restores = 1 .. MaxRestores
      /\ panel.by = "restore" => panel.owner = wallet
      /\ \A i \in 1 .. MaxRestores : restores[i].current => restores[i].owner = wallet
  BY DEF TelegramInv, RestoredLinkIsOwn
<1>2. CASE TelegramSession
  <2>1. SessionInv' /\ planOf' = planOf
    BY <1>2, SessionStep DEF TelegramSession
  <2>2. wallet' \in Owners /\ Restore(wallet')
    BY <1>2 DEF TelegramSession, SwitchWallet
  <2>3. /\ restores' \in [1 .. MaxRestores -> Restores]
        /\ \A i \in 1 .. MaxRestores : restores'[i].current => restores'[i].owner = wallet'
        /\ panel'.by = "start"
    BY <1>1, <2>2, RestoreStep
  <2> QED BY <2>1, <2>3 DEF TelegramInv, RestoredLinkIsOwn
<1>3. CASE RetryRestore
  <2>1. SessionInv' /\ planOf' = planOf /\ wallet' = wallet
    BY <1>3, SessionStep DEF RetryRestore, session
  <2>2. wallet \in Owners /\ Restore(wallet)
    BY <1>3 DEF RetryRestore, SessionInv
  <2>3. /\ restores' \in [1 .. MaxRestores -> Restores]
        /\ \A i \in 1 .. MaxRestores : restores'[i].current => restores'[i].owner = wallet
        /\ panel'.by = "start"
    BY <1>1, <2>2, RestoreStep
  <2> QED BY <2>1, <2>3 DEF TelegramInv, RestoredLinkIsOwn
<1>4. ASSUME NEW i \in 1 .. MaxRestores, RestoreAnswered(i)
      PROVE  SessionInv' /\ planOf' = planOf /\ TelegramInv'
  <2>1. SessionInv' /\ planOf' = planOf /\ wallet' = wallet
    BY <1>4, SessionStep DEF RestoreAnswered, session
  <2>2. /\ restores' = [restores EXCEPT ![i] = IdleRestore]
        /\ IdleRestore \in Restores /\ ~IdleRestore.current
    BY <1>4 DEF RestoreAnswered, IdleRestore, Restores
  <2>3. panel'.by = "restore" => panel'.owner = wallet
    <3>1. CASE restores[i].current
      BY <1>1, <1>4, <3>1 DEF RestoreAnswered, Panel, NotConnected
    <3>2. CASE ~restores[i].current
      BY <1>1, <1>4, <3>2 DEF RestoreAnswered
    <3> QED BY <3>1, <3>2
  <2> QED BY <1>1, <2>1, <2>2, <2>3 DEF TelegramInv, RestoredLinkIsOwn
<1>5. CASE \/ ConnectTelegram \/ ManageTelegramLink \/ SignTelegramLink \/ RunTest \/ RunUnlink
           \/ Reset \/ OperationSucceeds \/ OperationFails \/ Poll \/ PollAnswered \/ RevokedElsewhere
  <2>1. UNCHANGED session /\ planOf' = planOf /\ wallet' = wallet /\ restores' = restores
    BY <1>5 DEF ConnectTelegram, ManageTelegramLink, SignTelegramLink, RunTest, RunUnlink, Run, Reset,
                OperationSucceeds, OperationFails, Poll, PollAnswered, RevokedElsewhere, session
  <2>2. panel' = panel \/ panel'.by # "restore"
    <3>1. CASE OperationSucceeds
      BY <3>1 DEF OperationSucceeds, Panel, NotConnected
    <3>2. CASE Reset \/ PollAnswered
      BY <3>2 DEF Reset, PollAnswered, Panel, NotConnected
    <3>3. CASE \/ ConnectTelegram \/ ManageTelegramLink \/ SignTelegramLink \/ RunTest \/ RunUnlink
               \/ OperationFails \/ Poll \/ RevokedElsewhere
      BY <3>3 DEF ConnectTelegram, ManageTelegramLink, SignTelegramLink, RunTest, RunUnlink, Run,
                  OperationFails, Poll, RevokedElsewhere
    <3> QED BY <1>5, <3>1, <3>2, <3>3
  <2> QED BY <1>1, <2>1, <2>2, SessionStep DEF TelegramInv, RestoredLinkIsOwn
<1> QED BY <1>1, <1>2, <1>3, <1>4, <1>5 DEF TelegramNext

\* In another part the panel has not been restored.
LEMMA SameTelegram ==
    ASSUME TelegramInv, UNCHANGED <<telegram, part>>, part = "telegram" => wallet' = wallet
    PROVE  TelegramInv'
BY DEF TelegramInv, RestoredLinkIsOwn, telegram

-----------------------------------------------------------------------------
(* The dashboard.                                                          *)

LEMMA InitDashboard == DashboardInit => DashboardInv
<1> SUFFICES ASSUME DashboardInit PROVE DashboardInv
  OBVIOUS
<1>1. SessionInv
  BY PlanNamesDiffer DEF DashboardInit, SessionInit, SessionInv, PlanNames
<1>2. PlansInv
  <2>1. \A plan \in PlansOf(Owners) : chain[plan] \in Plans
    BY PlanNamesDiffer, PlansAssumption DEF DashboardInit
  <2>2. chain \in [PlansOf(Owners) -> Plans]
    BY <2>1 DEF DashboardInit
  <2>3. \A o \in Owners : chain[PlanFor(o)].owner = o
    BY PlansAssumption DEF DashboardInit
  <2> QED BY <2>2, <2>3, PlanNamesDiffer, EmptyPlanType DEF DashboardInit, PlansInv
<1>3. FormInv
  <2>1. <<>> \in Seq(Rows) /\ <<>> \in Seq(Tokens \cup {None}) /\ DAY \in Int
    BY FormsAssumption
  <2> QED BY <2>1, EmptyTimingType DEF DashboardInit, FormInv, EmptyForm, Forms
<1>4. OnboardingInv
  <2>1. DraftsInv
    BY DraftsAssumption DEF DashboardInit, OnboardingInit, DraftsInv
  <2>2. SoundCreations(creations)
    BY IdleCreationType DEF DashboardInit, OnboardingInit, SoundCreations
  <2> QED BY <2>1, <2>2 DEF OnboardingInv
<1>5. SettingsInv
  <2>1. DialogInv
    BY DEF DashboardInit, SettingsInit, DialogInv, DraftFits
  <2>2. SoundSaves(saves)
    BY SaveTypes DEF DashboardInit, SettingsInit, SoundSaves
  <2> QED BY <2>1, <2>2 DEF SettingsInv
<1>6. ActionsInv
  <2>1. None \in Addresses /\ NoPlan \in PlanNames
    BY DEF Addresses, PlanNames
  <2>2. BeatsInv
    BY <2>1 DEF DashboardInit, ActionsInit, BeatsInv, IdleBeat, Beats
  <2>3. ApprovalInv /\ PanicInv
    BY <2>1 DEF DashboardInit, ActionsInit, ApprovalInv, IdleApproval, Approvals,
                PanicInv, IdlePanic, Panics
  <2>4. TriggersInv
    BY <2>1 DEF DashboardInit, ActionsInit, TriggersInv, IdleTrigger, Triggers
  <2> QED BY <2>2, <2>3, <2>4 DEF ActionsInv
<1>7. TelegramInv
  <2>1. panel.by = "start"
    BY DEF DashboardInit, TelegramInit, Restoring, Panel
  <2>2. [state |-> "sent", owner |-> wallet, current |-> TRUE] \in Restores /\ IdleRestore \in Restores
    BY <1>1 DEF SessionInv, Restores, IdleRestore
  <2>3. restores \in [1 .. MaxRestores -> Restores]
    BY <2>2 DEF DashboardInit, TelegramInit
  <2>4. \A i \in 1 .. MaxRestores : restores[i].current => restores[i].owner = wallet
    BY DEF DashboardInit, TelegramInit, IdleRestore
  <2> QED BY <2>1, <2>3, <2>4 DEF TelegramInv, RestoredLinkIsOwn
<1> QED BY <1>1, <1>2, <1>3, <1>4, <1>5, <1>6, <1>7 DEF DashboardInv

\* The parts another component leaves alone.
LEMMA SameForm ==
    ASSUME FormInv, UNCHANGED form
    PROVE  FormInv'
BY DEF FormInv

LEMMA SameOnboarding ==
    ASSUME OnboardingInv, UNCHANGED onboarding
    PROVE  OnboardingInv'
BY DEF OnboardingInv, DraftsInv, SoundCreations, onboarding

LEMMA StepDashboard ==
    ASSUME DashboardInv, [DashboardNext]_dashboardVars
    PROVE  DashboardInv'
<1>1. /\ SessionInv /\ PlansInv /\ FormInv
      /\ OnboardingInv /\ SettingsInv /\ ActionsInv /\ TelegramInv
  BY DEF DashboardInv
<1>2. CASE FormsPart
  <2>1. /\ TypeForm
        /\ UNCHANGED <<session, planview, onboarding, settings, actions, telegram, part>>
        /\ planOf' = planOf /\ wallet' = wallet
    BY <1>2 DEF FormsPart, session
  <2>2. FormInv'
    BY <1>1, <2>1, FormStep
  <2> QED BY <1>1, <2>1, <2>2, SessionStep, SamePlans, SameOnboarding, SameSettings, SameActions,
             SameTelegram DEF DashboardInv
<1>3. CASE OnboardingPart
  <2>1. /\ OnboardingNext
        /\ UNCHANGED <<planview, settings, actions, telegram, part, form>>
        /\ part # "telegram"
    BY <1>3 DEF OnboardingPart
  <2>2. /\ SessionInv' /\ OnboardingInv'
        /\ \A o \in Owners : planOf[o] # NoPlan => planOf'[o] = planOf[o]
    BY <1>1, <2>1, OnboardingStep
  <2> QED BY <1>1, <2>1, <2>2, SamePlans, SameForm, SameSettings, SameActions, SameTelegram
          DEF DashboardInv
<1>4. CASE SettingsPart("settings", SettingsNext)
  <2>1. SessionInv' /\ planOf' = planOf /\ PlansInv' /\ SettingsInv'
    BY <1>1, <1>4, SettingsStep DEF SettingsPart
  <2>2. UNCHANGED <<onboarding, actions, telegram, part, form>> /\ part # "telegram"
    BY <1>4 DEF SettingsPart
  <2> QED BY <1>1, <2>1, <2>2, SameForm, SameOnboarding, SameActions, SameTelegram DEF DashboardInv
<1>5. CASE SettingsPart("stop", StopNext)
  <2>1. SessionInv' /\ planOf' = planOf /\ PlansInv' /\ SettingsInv'
    BY <1>1, <1>5, StopStep DEF SettingsPart
  <2>2. UNCHANGED <<onboarding, actions, telegram, part, form>> /\ part # "telegram"
    BY <1>5 DEF SettingsPart
  <2> QED BY <1>1, <2>1, <2>2, SameForm, SameOnboarding, SameActions, SameTelegram DEF DashboardInv
<1>6. CASE \/ ActionsPart("checkIn", CheckInNext)
           \/ ActionsPart("approval", ApprovalNext)
           \/ ActionsPart("trigger", TriggerNext)
           \/ ActionsPart("evacuation", PanicNext)
           \/ ActionsPart("entry", EntryNext)
  <2>1. CheckInNext \/ ApprovalNext \/ TriggerNext \/ PanicNext \/ EntryNext
    BY <1>6 DEF ActionsPart
  <2>2. UNCHANGED <<onboarding, settings, telegram, part, form>> /\ part # "telegram"
    BY <1>6 DEF ActionsPart
  <2>3. SessionInv' /\ planOf' = planOf /\ PlansInv' /\ ActionsInv'
    BY <1>1, <2>1, CheckInStep, ApprovalStep, TriggerStep, PanicStep, EntryStep
  <2> QED BY <1>1, <2>2, <2>3, SameForm, SameOnboarding, SameSettings, SameTelegram DEF DashboardInv
<1>7. CASE TelegramPart
  <2>1. /\ part = "telegram" /\ part' = part /\ TelegramNext
        /\ UNCHANGED <<planview, onboarding, settings, actions, form>>
    BY <1>7 DEF TelegramPart
  <2>2. SessionInv' /\ planOf' = planOf /\ TelegramInv'
    BY <1>1, <2>1, TelegramStep
  <2> QED BY <1>1, <2>1, <2>2, SamePlans, SameForm, SameOnboarding, SameSettings, SameActions
          DEF DashboardInv
<1>8. CASE UNCHANGED dashboardVars
  <2>1. /\ UNCHANGED <<session, planview, onboarding, settings, actions, telegram, part, form>>
        /\ planOf' = planOf /\ wallet' = wallet
    BY <1>8 DEF dashboardVars, session
  <2> QED BY <1>1, <2>1, SessionStep, SamePlans, SameForm, SameOnboarding, SameSettings, SameActions,
             SameTelegram DEF DashboardInv
<1> QED BY <1>2, <1>3, <1>4, <1>5, <1>6, <1>7, <1>8 DEF DashboardNext

\* The inductive invariant of the dashboard: every draft, list and payload it
\* keeps is of its section, a request in flight is for the plan the registry
\* holds of its owner, what was reviewed is kept with it, the trigger's guard is
\* up while a request is out, and only the restore of the connected wallet is
\* still awaited.
THEOREM DashboardInvariance == DashboardSpec => []DashboardInv
<1>1. DashboardInit => DashboardInv
  BY InitDashboard
<1>2. DashboardInv /\ [DashboardNext]_dashboardVars => DashboardInv'
  BY StepDashboard
<1> QED BY <1>1, <1>2, PTL DEF DashboardSpec

\* Whatever a user types, the forms of the onboarding and of the settings, the
\* parsers of the routes and the checks of the contract agree on it, but for the
\* shares, heartbeats and lengths the statement names: for lists of any length
\* and every whole number of days, seconds and percent.
THEOREM DashboardFormsAgree == DashboardSpec => []FormsAgree
<1>1. DashboardInv => FormsAgree
  BY FormInvAgrees DEF DashboardInv
<1> QED BY <1>1, DashboardInvariance, PTL

\* However wallets are switched and answers delayed, a creation in flight was
\* reviewed, a save is for the plan of the owner who signs it and holds what the
\* route and the contract accept, and a check-in, an approval, an evacuation or
\* a trigger is for the plan of the wallet that asked, the trigger one at a time.
THEOREM DashboardRequestsAreSound == DashboardSpec => []RequestsAreSound
<1>1. DashboardInv => RequestsAreSound
  BY CreationsAlwaysReviewed, SavesAlwaysConsistent, ActionsAlwaysOwn DEF DashboardInv, RequestsAreSound
<1> QED BY <1>1, DashboardInvariance, PTL

\* The link the panel restored is the connected wallet's, with any number of
\* restores in flight: the answer of one begun for another wallet is dropped.
THEOREM DashboardRestoredLinkIsOwn == DashboardSpec => []RestoredLinkIsOwn
<1>1. DashboardInv => RestoredLinkIsOwn
  BY DEF DashboardInv, TelegramInv, RestoredLinkIsOwn
<1> QED BY <1>1, DashboardInvariance, PTL
=============================================================================
