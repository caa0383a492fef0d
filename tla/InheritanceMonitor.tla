------------------------- MODULE InheritanceMonitor -------------------------
(***************************************************************************)
(* The off-chain code that distributes a due plan through KeeperHub: the   *)
(* native monitor (dashboard/lib/inheritance-monitor.ts), the token        *)
(* monitor (token-inheritance-monitor.ts) and the trigger that runs one    *)
(* after the other.  Workers run it concurrently against one plan:         *)
(*                                                                         *)
(*   "watcher"    an execution step of the durable workflow                *)
(*   "trigger"    POST /api/inheritance of an open dashboard               *)
(*   "nativeScan", "tokenScan"  the two halves of the scheduled scan       *)
(*                                                                         *)
(* KeeperHub is external.  It keeps one execution per idempotency key and  *)
(* replays it, failures included, to whoever submits the key again; its    *)
(* report of success is not trusted, its silence is a timeout.             *)
(*                                                                         *)
(* The plan is reduced to what these workers read: `ready' stands for      *)
(* livenessActive with beneficiaries whose shares make 100%.               *)
(***************************************************************************)
EXTENDS Naturals

CONSTANTS
    Workers,
    Role,                \* worker -> one of the four roles
    Native,              \* the ether of the plan, as a target
    TrackedTokens,       \* the other targets
    MaxEvents            \* bound: what owner and recovery wallet do, runs that
                         \* are killed, reads that throw

ASSUME MonitorAssumption ==
    /\ Role \in [Workers -> {"watcher", "trigger", "nativeScan", "tokenScan"}]
    /\ Native \notin TrackedTokens
    /\ Workers \cap (0 .. MaxEvents) = {}
    /\ MaxEvents \in Nat

Targets == {Native} \cup TrackedTokens

\* An idempotency key: the scope and the target it is used for.  The scope
\* of a watcher is its current step, of anybody else the lastHeartbeat read.
Keys == (Workers \cup (0 .. MaxEvents)) \X Targets

VARIABLES
    beat,                \* lastHeartbeat, counted
    due,                 \* graceElapsed
    ready,               \* active, with a complete allocation
    evacuated,
    done,                \* targets distributed on chain
    pullable,            \* tokens with a pullable amount
    registered,          \* planOf(owner) still names this plan
    job,                 \* key -> state of KeeperHub's execution
    orphans,             \* targets with a pending execution of an earlier step
    at,                  \* worker -> where it stands
    seen,                \* worker -> lastHeartbeat it read, of those whose scope it is
    todo,                \* worker -> tokens it found actionable
    target,              \* worker -> target in hand
    events               \* that happened, of MaxEvents

chainVars  == <<beat, due, ready, evacuated, done, pullable, registered>>
hubVars    == <<job, orphans>>
workerVars == <<at, seen, todo, target>>
vars       == <<chainVars, hubVars, workerVars, events>>

Event == events < MaxEvents /\ events' = events + 1

JobStates == {"none", "pending", "mined", "deferred", "reverted", "dropped"}
Places    == {"idle", "native", "registry", "tokens", "tokenRegistry", "next",
              "submit", "settle", "verify", "executed"}

Init ==
    /\ beat = 0
    /\ due \in BOOLEAN
    /\ ready = TRUE
    /\ evacuated = FALSE
    /\ done = {}
    /\ pullable = TrackedTokens
    /\ registered = TRUE
    /\ job = [k \in Keys |-> "none"]
    /\ orphans = {}
    /\ at = [w \in Workers |-> "idle"]
    /\ seen = [w \in Workers |-> 0]
    /\ todo = [w \in Workers |-> {}]
    /\ target = [w \in Workers |-> Native]
    /\ events = 0
-----------------------------------------------------------------------------
(* The plan and its owner.                                                 *)

PlanDue == due /\ ready /\ ~evacuated

\* What the contract requires of a distribution of x.
Callable(x) ==
    /\ PlanDue
    /\ x \notin done
    /\ x \in TrackedTokens => x \in pullable

GraceElapses ==
    /\ ~due
    /\ due' = TRUE
    /\ UNCHANGED <<beat, ready, evacuated, done, pullable, registered, hubVars, workerVars, events>>

OwnerBeats ==
    /\ Event
    /\ ready
    /\ beat' = beat + 1
    /\ due' = FALSE
    /\ UNCHANGED <<ready, evacuated, done, pullable, registered, hubVars, workerVars>>

OwnerReconfigures ==
    /\ Event
    /\ ready' = ~ready
    /\ UNCHANGED <<beat, due, evacuated, done, pullable, registered, hubVars, workerVars>>

RecoveryEvacuates ==
    /\ Event
    /\ ~evacuated
    /\ evacuated' = TRUE
    /\ ready' = FALSE
    /\ UNCHANGED <<beat, due, done, pullable, registered, hubVars, workerVars>>

OwnerApproves(t) ==
    /\ Event
    /\ pullable' = IF t \in pullable THEN pullable \ {t} ELSE pullable \cup {t}
    /\ UNCHANGED <<beat, due, ready, evacuated, done, registered, hubVars, workerVars>>

\* The owner of a plan of the legacy factory creates one at the current
\* factory, which readRegisteredPlanAcrossFactories asks first.
OwnerSupersedes ==
    /\ Event
    /\ registered
    /\ registered' = FALSE
    /\ UNCHANGED <<beat, due, ready, evacuated, done, pullable, hubVars, workerVars>>

Environment ==
    \/ GraceElapses
    \/ OwnerBeats
    \/ OwnerReconfigures
    \/ RecoveryEvacuates
    \/ \E t \in TrackedTokens : OwnerApproves(t)
    \/ OwnerSupersedes
-----------------------------------------------------------------------------
(* KeeperHub.                                                              *)

Distribute(x) ==
    /\ done' = done \cup {x}
    /\ UNCHANGED <<beat, due, ready, evacuated, pullable, registered>>

\* The call is mined.  A token whose recipients all refuse it is
\* distributed without the InheritanceTransfer event.
Mine(k) ==
    /\ job[k] = "pending"
    /\ Callable(k[2])
    /\ \/ job' = [job EXCEPT ![k] = "mined"]
       \/ k[2] \in TrackedTokens /\ job' = [job EXCEPT ![k] = "deferred"]
    /\ Distribute(k[2])
    /\ UNCHANGED <<orphans, workerVars, events>>

Revert(k) ==
    /\ job[k] = "pending"
    /\ ~Callable(k[2])
    /\ job' = [job EXCEPT ![k] = "reverted"]
    /\ UNCHANGED <<chainVars, orphans, workerVars, events>>

\* KeeperHub gives up without a transaction.
Drop(k) ==
    /\ job[k] = "pending"
    /\ job' = [job EXCEPT ![k] = "dropped"]
    /\ UNCHANGED <<chainVars, orphans, workerVars, events>>

\* An execution nobody awaits any more comes to its end.
MineOrphan(x) ==
    /\ x \in orphans
    /\ orphans' = orphans \ {x}
    /\ \/ Callable(x) /\ Distribute(x)
       \/ UNCHANGED chainVars
    /\ UNCHANGED <<job, workerVars, events>>

KeeperHub ==
    \/ \E k \in Keys : Mine(k) \/ Revert(k) \/ Drop(k)
    \/ \E x \in Targets : MineOrphan(x)
-----------------------------------------------------------------------------
(* The workers.                                                            *)

Goto(w, place) == at' = [at EXCEPT ![w] = place]

AfterNative(w) == IF Role[w] = "nativeScan" THEN "idle" ELSE "tokens"
Resume(w)      == IF target[w] = Native THEN AfterNative(w) ELSE "next"

\* The outcome goes to the activity ledger, or to the log if that fails.
Record(w) ==
    /\ target' = [target EXCEPT ![w] = Native]
    /\ Goto(w, Resume(w))

FirstPlace(w)  == IF Role[w] = "tokenScan" THEN "tokens" ELSE "native"

Key(w) == <<IF Role[w] = "watcher" THEN w ELSE seen[w], target[w]>>

\* Mutant: the executions of a watcher all use one scope.
BeginSameScope(w) ==
    /\ at[w] = "idle"
    /\ Goto(w, FirstPlace(w))
    /\ UNCHANGED <<chainVars, hubVars, seen, todo, target, events>>

\* A run begins.  Every execution step of a watcher has a step id of its
\* own, so KeeperHub knows none of its keys.
Begin(w) ==
    /\ at[w] = "idle"
    /\ Goto(w, FirstPlace(w))
    /\ IF Role[w] = "watcher"
       THEN /\ job' = [k \in Keys |-> IF k[1] = w THEN "none" ELSE job[k]]
            /\ orphans' = orphans \cup {x \in Targets : job[<<w, x>>] = "pending"}
       ELSE UNCHANGED hubVars
    /\ UNCHANGED <<chainVars, seen, todo, target, events>>

Seen(w) == [seen EXCEPT ![w] = IF Role[w] = "watcher" THEN @ ELSE beat]

\* inspectPlan: an ineligible plan is skipped, and a skip is not recorded.
SkipNative(w) ==
    /\ at[w] = "native"
    /\ ~PlanDue \/ Native \in done
    /\ Goto(w, AfterNative(w))
    /\ UNCHANGED <<chainVars, hubVars, seen, todo, target, events>>

SelectNative(w) ==
    /\ at[w] = "native"
    /\ PlanDue /\ Native \notin done
    /\ seen' = Seen(w)
    /\ target' = [target EXCEPT ![w] = Native]
    /\ Goto(w, "registry")
    /\ UNCHANGED <<chainVars, hubVars, todo, events>>

\* A read of the native monitor throws: "execution-error".
NativeReadThrows(w) ==
    /\ Event
    /\ at[w] \in {"native", "registry"}
    /\ Record(w)
    /\ UNCHANGED <<chainVars, hubVars, seen, todo>>

CheckRegistry(w) ==
    /\ at[w] = "registry"
    /\ IF registered THEN Goto(w, "submit") /\ UNCHANGED target ELSE Record(w)
    /\ UNCHANGED <<chainVars, hubVars, seen, todo, events>>

\* Mutant: the ether is listed among the tokens.
ReadTargets(w) ==
    /\ at[w] = "tokens"
    /\ seen' = Seen(w)
    /\ todo' = [todo EXCEPT ![w] = IF PlanDue THEN (pullable \cup {Native}) \ done ELSE {}]
    /\ Goto(w, "tokenRegistry")
    /\ UNCHANGED <<chainVars, hubVars, target, events>>

\* runTokenInheritancePlan reads all tokens once, before the first of them
\* is submitted.  Of a plan that is not registered they all fail.
ReadTokens(w) ==
    /\ at[w] = "tokens"
    /\ seen' = Seen(w)
    /\ todo' = [todo EXCEPT ![w] = IF PlanDue THEN pullable \ done ELSE {}]
    /\ Goto(w, "tokenRegistry")
    /\ UNCHANGED <<chainVars, hubVars, target, events>>

CheckTokenRegistry(w) ==
    /\ at[w] = "tokenRegistry"
    /\ Goto(w, "next")
    /\ todo' = [todo EXCEPT ![w] = IF registered THEN @ ELSE {}]
    /\ UNCHANGED <<chainVars, hubVars, seen, target, events>>

NextToken(w) ==
    /\ at[w] = "next"
    /\ \/ /\ todo[w] = {}
          /\ seen' = [seen EXCEPT ![w] = 0]
          /\ Goto(w, "idle")
          /\ UNCHANGED <<todo, target>>
       \/ \E t \in todo[w] :
             /\ todo' = [todo EXCEPT ![w] = @ \ {t}]
             /\ target' = [target EXCEPT ![w] = t]
             /\ Goto(w, "submit")
             /\ UNCHANGED seen
    /\ UNCHANGED <<chainVars, hubVars, events>>

\* KeeperHub opens an execution for a key it has not met.
Opened(k) == [job EXCEPT ![k] = IF @ = "none" THEN "pending" ELSE @]

SubmitAccepted(w) ==
    /\ at[w] = "submit"
    /\ job' = Opened(Key(w))
    /\ Goto(w, "settle")
    /\ UNCHANGED <<chainVars, orphans, seen, todo, target, events>>

\* The request or its answer is lost: "execution-error".
SubmitUnanswered(w) ==
    /\ at[w] = "submit"
    /\ job' \in {job, Opened(Key(w))}
    /\ Record(w)
    /\ UNCHANGED <<chainVars, orphans, seen, todo, events>>

\* Success is reported of a mined call, and may be of a reverted one.
SettledSuccess(w) ==
    /\ at[w] = "settle"
    /\ job[Key(w)] \in {"mined", "deferred", "reverted"}
    /\ Goto(w, "verify")
    /\ UNCHANGED <<chainVars, hubVars, seen, todo, target, events>>

\* Failure, or no terminal status within the 24 polls.
SettledFailure(w) ==
    /\ at[w] = "settle"
    /\ job[Key(w)] \in {"pending", "reverted", "dropped"}
    /\ Record(w)
    /\ UNCHANGED <<chainVars, hubVars, seen, todo, events>>

\* Mutant: the resulting state is proof enough.
StateProven(w) == target[w] \in done

\* The receipt succeeded, carries the event, and the state has advanced.
Proven(w) == job[Key(w)] = "mined" /\ target[w] \in done

\* What is not proven is recorded as a failure.  The proof of the ether may
\* be missed, as a wait for the receipt that times out and a read that throws
\* are caught; those of a token end the run (TokenRunThrows).
Verify(w) ==
    /\ at[w] = "verify"
    /\ \/ Proven(w) /\ Goto(w, "executed") /\ UNCHANGED target
       \/ (target[w] = Native \/ ~Proven(w)) /\ Record(w)
    /\ UNCHANGED <<chainVars, hubVars, seen, todo, events>>

\* A proven execution is reported as "executed".
Report(w) ==
    /\ at[w] = "executed"
    /\ Record(w)
    /\ UNCHANGED <<chainVars, hubVars, seen, todo, events>>

\* The run of w ends where it is.  The workflow repeats an interrupted step
\* under the same step id; the others come back with their next run.
Abort(w) ==
    /\ Event
    /\ Goto(w, IF Role[w] = "watcher" THEN "native" ELSE "idle")
    /\ seen' = [seen EXCEPT ![w] = 0]
    /\ todo' = [todo EXCEPT ![w] = {}]
    /\ target' = [target EXCEPT ![w] = Native]
    /\ UNCHANGED <<chainVars, hubVars>>

\* A read that nobody catches throws in the token run: of the plan and of its
\* registry before the tokens, and of the proof of one of them, which
\* executeToken returns unawaited past its catch.  The tokens left wait.
TokenRunThrows(w) ==
    /\ \/ at[w] \in {"tokens", "tokenRegistry"}
       \/ at[w] = "verify" /\ target[w] # Native
    /\ Abort(w)

\* The function is killed.
Crash(w) == at[w] # "idle" /\ Abort(w)

Work(w) ==
    \/ SkipNative(w)
    \/ SelectNative(w)
    \/ CheckRegistry(w)
    \/ ReadTokens(w)
    \/ CheckTokenRegistry(w)
    \/ NextToken(w)
    \/ SubmitAccepted(w)
    \/ SubmitUnanswered(w)
    \/ SettledSuccess(w)
    \/ SettledFailure(w)
    \/ Verify(w)
    \/ Report(w)

Next ==
    \/ Environment
    \/ KeeperHub
    \/ \E w \in Workers : Begin(w) \/ Work(w) \/ NativeReadThrows(w) \/ TokenRunThrows(w) \/ Crash(w)

Spec == Init /\ [][Next]_vars

\* The watcher keeps running and finishes what it begins; a request that it
\* sends again and again is answered; KeeperHub does not drop every execution
\* it could have carried out.
FairSpec ==
    /\ Spec
    /\ \A w \in {v \in Workers : Role[v] = "watcher"} :
          /\ WF_vars(Begin(w) \/ Work(w))
          /\ \A x \in Targets : SF_vars(target[w] = x /\ SubmitAccepted(w))
    /\ \A x \in Targets : SF_vars(\E k \in Keys : k[2] = x /\ Mine(k))
-----------------------------------------------------------------------------
TypeOK ==
    /\ beat \in 0 .. MaxEvents
    /\ due \in BOOLEAN /\ ready \in BOOLEAN /\ evacuated \in BOOLEAN
    /\ registered \in BOOLEAN
    /\ done \subseteq Targets
    /\ pullable \subseteq TrackedTokens
    /\ job \in [Keys -> JobStates]
    /\ orphans \subseteq Targets
    /\ at \in [Workers -> Places]
    /\ seen \in [Workers -> 0 .. MaxEvents]
    /\ todo \in [Workers -> SUBSET TrackedTokens]
    /\ target \in [Workers -> Targets]
    /\ events \in 0 .. MaxEvents

\* Workers that race for a target submit it under keys of their own, and
\* KeeperHub may call the reverted duplicate a success.  Those that report the
\* target `executed' still report one and the same execution: it is announced
\* with the transaction that distributed it, and with no other.
ReportsAgree ==
    \A v, w \in Workers :
       at[v] = "executed" /\ at[w] = "executed" /\ target[v] = target[w] => Key(v) = Key(w)

\* "Failed executions retry with outcome-aware idempotency keys": if from
\* some point on a target can be distributed, it eventually is, although
\* KeeperHub may drop executions, workers may be killed and answers lost.
FailureIsRetried ==
    \A x \in Targets :
       <>[](PlanDue /\ registered /\ (x \in TrackedTokens => x \in pullable)) => <>(x \in done)
=============================================================================
