------------------------------- MODULE Agent --------------------------------
(***************************************************************************)
(* The keeper agent: the loop of agent/index.ts, the executor that submits *)
(* through KeeperHub's MCP endpoint (executor/keeperhub.ts, keeperhub/     *)
(* mcp-client.ts), the on-chain verifier and the alerts.                   *)
(*                                                                         *)
(* setInterval starts a tick every minute whether or not earlier ticks are *)
(* still retrying, so evaluations run concurrently; they share the MCP     *)
(* session and the grace-alert latch and nothing else.  Each execution has *)
(* a fresh execution key; its idempotency key is the execution key with    *)
(* idempotencyAttempt, so a job is named by the tick and that number.      *)
(*                                                                         *)
(* KeeperHub is external: it keeps one job per idempotency key, replays it *)
(* to whoever submits the key again, and its word is not trusted.          *)
(***************************************************************************)
EXTENDS Naturals

CONSTANTS
    Ticks,               \* evaluations that may run at the same time
    Calls,               \* calls of runEvacuation that may do so
    MaxAttempts,         \* action -> attempts of one execution
    MaxEvents            \* bound: changes by the owner, calls of runEvacuation,
                         \* restarts of the agent and lapses of its session

Runs      == Ticks \cup Calls
Actions   == {"executeInheritance", "evacuate"}
Action(r) == IF r \in Ticks THEN "executeInheritance" ELSE "evacuate"

ASSUME AgentAssumption ==
    /\ Ticks \cap Calls = {}
    /\ MaxAttempts \in [Actions -> Nat \ {0}]
    /\ MaxEvents \in Nat

AttemptNumbers == UNION {1 .. MaxAttempts[a] : a \in Actions}

VARIABLES
    phase,               \* of the liveness timer: alive, grace or due
    active,
    complete,            \* the shares make 100%
    executed,            \* actions the plan has carried out
    job,                 \* <<run, idempotencyAttempt>> -> state of the job
    orphans,             \* actions with a pending job of an earlier execution
    session,             \* KeeperHub knows the MCP session of the client
    graceAlertSent,      \* the latch of the loop
    at,                  \* run -> where it stands
    attempt,             \* run -> attempt of the execution
    key,                 \* run -> idempotencyAttempt
    announced,           \* actions whose success has been announced
    events               \* that happened, of MaxEvents

chainVars == <<phase, active, complete, executed>>
hubVars   == <<job, orphans>>
runVars   == <<at, attempt, key>>
loopVars  == <<graceAlertSent, announced>>
vars      == <<chainVars, hubVars, session, runVars, loopVars, events>>

Event == events < MaxEvents /\ events' = events + 1

JobStates == {"none", "pending", "mined", "reverted", "dropped"}
Places    == {"idle", "warn", "submit", "poll", "verify", "succeeded", "failed"}

Init ==
    /\ phase = "alive"
    /\ active = TRUE
    /\ complete = TRUE
    /\ executed = {}
    /\ job = [j \in Runs \X AttemptNumbers |-> "none"]
    /\ orphans = {}
    /\ session = TRUE
    /\ graceAlertSent = FALSE
    /\ at = [t \in Runs |-> "idle"]
    /\ attempt = [t \in Runs |-> 1]
    /\ key = [t \in Runs |-> 1]
    /\ announced = {}
    /\ events = 0
-----------------------------------------------------------------------------
(* The plan.                                                               *)

\* What evaluate reads as readyToExecute, and what the contract requires.
ReadyToExecute == phase = "due" /\ active /\ complete /\ executed = {}
Callable(a)    == IF a = "evacuate" THEN a \notin executed ELSE ReadyToExecute

TimePasses ==
    /\ \/ phase = "alive" /\ phase' = "grace"
       \/ phase = "grace" /\ phase' = "due"
    /\ UNCHANGED <<active, complete, executed, hubVars, session, runVars, loopVars, events>>

OwnerChanges ==
    /\ Event
    /\ \/ /\ active
          /\ phase' = "alive"
          /\ UNCHANGED <<active, complete>>
       \/ active' = ~active /\ UNCHANGED <<phase, complete>>
       \/ complete' = ~complete /\ UNCHANGED <<phase, active>>
    /\ UNCHANGED <<executed, hubVars, session, runVars, loopVars>>

Carry(a) ==
    /\ executed' = executed \cup {a}
    /\ active' = (active /\ a # "evacuate")
    /\ UNCHANGED <<phase, complete>>
-----------------------------------------------------------------------------
(* KeeperHub.                                                              *)

Mine(t, k) ==
    /\ job[<<t, k>>] = "pending"
    /\ Callable(Action(t))
    /\ job' = [job EXCEPT ![<<t, k>>] = "mined"]
    /\ Carry(Action(t))
    /\ UNCHANGED <<orphans, session, runVars, loopVars, events>>

Fail(t, k) ==
    /\ job[<<t, k>>] = "pending"
    /\ \/ ~Callable(Action(t)) /\ job' = [job EXCEPT ![<<t, k>>] = "reverted"]
       \/ job' = [job EXCEPT ![<<t, k>>] = "dropped"]
    /\ UNCHANGED <<chainVars, orphans, session, runVars, loopVars, events>>

EndOrphan(a) ==
    /\ a \in orphans
    /\ orphans' = orphans \ {a}
    /\ \/ Callable(a) /\ Carry(a)
       \/ UNCHANGED chainVars
    /\ UNCHANGED <<job, session, runVars, loopVars, events>>

SessionLapses ==
    /\ session
    /\ Event
    /\ session' = FALSE
    /\ UNCHANGED <<chainVars, hubVars, runVars, graceAlertSent, announced>>

Environment ==
    \/ TimePasses
    \/ OwnerChanges
    \/ \E t \in Runs, k \in AttemptNumbers : Mine(t, k) \/ Fail(t, k)
    \/ \E a \in Actions : EndOrphan(a)
    \/ SessionLapses
-----------------------------------------------------------------------------
(* An execution: contractCall.                                             *)

Goto(t, place) == at' = [at EXCEPT ![t] = place]

\* A new execution key, with the first attempt.
Begin(t) ==
    /\ Goto(t, "submit")
    /\ UNCHANGED <<hubVars, attempt, key>>

\* Mutant: one attempt too many.
AttemptFailsLate(t, retryKey) ==
    IF retryKey = "none" \/ attempt[t] > MaxAttempts[Action(t)]
    THEN Goto(t, "failed") /\ UNCHANGED <<attempt, key>>
    ELSE /\ Goto(t, "submit")
         /\ attempt' = [attempt EXCEPT ![t] = @ + 1]
         /\ key' = [key EXCEPT ![t] = IF retryKey = "rotate" THEN @ + 1 ELSE @]

\* The attempt is written to the ledger; the next one follows after a pause.
AttemptFails(t, retryKey) ==
    IF retryKey = "none" \/ attempt[t] = MaxAttempts[Action(t)]
    THEN Goto(t, "failed") /\ UNCHANGED <<attempt, key>>
    ELSE /\ Goto(t, "submit")
         /\ attempt' = [attempt EXCEPT ![t] = @ + 1]
         /\ key' = [key EXCEPT ![t] = IF retryKey = "rotate" THEN @ + 1 ELSE @]

\* Mutant: the next execution has the execution key of the last.
AbandonedKeepingKey(R) ==
    /\ attempt' = [t \in Runs |-> IF t \in R THEN 1 ELSE attempt[t]]
    /\ key' = [t \in Runs |-> IF t \in R THEN 1 ELSE key[t]]
    /\ UNCHANGED hubVars

\* The executions of R are over: their keys are never used again, and what
\* is still under way of them nobody awaits.
Abandoned(R) ==
    /\ job' = [j \in DOMAIN job |-> IF j[1] \in R THEN "none" ELSE job[j]]
    /\ orphans' = orphans \cup
          {Action(t) : t \in {r \in R : \E k \in AttemptNumbers : job[<<r, k>>] = "pending"}}
    /\ attempt' = [t \in Runs |-> IF t \in R THEN 1 ELSE attempt[t]]
    /\ key' = [t \in Runs |-> IF t \in R THEN 1 ELSE key[t]]

Job(t) == job[<<t, key[t]>>]
Opened(t) == [job EXCEPT ![<<t, key[t]>>] = IF @ = "none" THEN "pending" ELSE @]

SubmitAccepted(t) ==
    /\ at[t] = "submit" /\ session
    /\ job' = Opened(t)
    /\ Goto(t, "poll")
    /\ UNCHANGED <<chainVars, orphans, session, attempt, key, loopVars, events>>

\* rpc sends a request up to maxAttempts times, whatever of it arrives; then
\* the tool call fails and the attempt with it.
SendAgainOrFail(t) == UNCHANGED runVars \/ AttemptFails(t, "reuse")

\* A lost request or answer, a timeout, 429, 5xx, an answer that does not
\* parse: rpc sends the request again, and KeeperHub may have the job.
RequestUnanswered(t) ==
    /\ at[t] \in {"submit", "poll"}
    /\ job' \in IF at[t] = "submit" THEN {job, Opened(t)} ELSE {job}
    /\ SendAgainOrFail(t)
    /\ UNCHANGED <<chainVars, orphans, session, loopVars, events>>

\* -32003: the client shakes hands anew and sends the request again.
SessionRefused(t) ==
    /\ at[t] \in {"submit", "poll"}
    /\ ~session
    /\ session' \in BOOLEAN
    /\ SendAgainOrFail(t)
    /\ UNCHANGED <<chainVars, hubVars, loopVars, events>>

\* Another rpc error, 4xx, a tool failure of no known kind, no execution id.
RequestRefused(t) ==
    /\ at[t] \in {"submit", "poll"}
    /\ AttemptFails(t, "none")
    /\ UNCHANGED <<chainVars, hubVars, session, loopVars, events>>

\* The tool, of a call or of a status, answers with an error that says
\* "contract call failed", "reverted" or a cached failure: nothing of this key
\* is under way.
ToolFailed(t) ==
    /\ at[t] \in {"submit", "poll"} /\ session
    /\ Job(t) \in {"none", "reverted", "dropped"}
    /\ job' = [job EXCEPT ![<<t, key[t]>>] = IF @ = "none" THEN "dropped" ELSE @]
    /\ AttemptFails(t, "rotate")
    /\ UNCHANGED <<chainVars, orphans, session, loopVars, events>>

\* Mutant: an execution that has not settled in time is given up for good.
PollTimesOutRotating(t) ==
    /\ at[t] = "poll"
    /\ AttemptFails(t, "rotate")
    /\ UNCHANGED <<chainVars, hubVars, session, loopVars, events>>

\* No terminal status within 180 s.
PollTimesOut(t) ==
    /\ at[t] = "poll"
    /\ AttemptFails(t, "reuse")
    /\ UNCHANGED <<chainVars, hubVars, session, loopVars, events>>

\* settlementFrom: a confirmed failure.
SettledFailure(t) ==
    /\ at[t] = "poll" /\ session
    /\ Job(t) \in {"reverted", "dropped"}
    /\ AttemptFails(t, "rotate")
    /\ UNCHANGED <<chainVars, hubVars, session, loopVars, events>>

\* Success, of which a reverted call may also be reported.
SettledSuccess(t) ==
    /\ at[t] = "poll" /\ session
    /\ Job(t) \in {"mined", "reverted"}
    /\ Goto(t, "verify")
    /\ UNCHANGED <<chainVars, hubVars, session, attempt, key, loopVars, events>>

\* Completed without a success signal, or a success without a hash.
SettledAmbiguously(t) ==
    /\ at[t] = "poll" /\ session
    /\ Job(t) \in {"mined", "reverted", "dropped"}
    /\ AttemptFails(t, "none")
    /\ UNCHANGED <<chainVars, hubVars, session, loopVars, events>>

\* Both sponsored and private: assertRoutesExclusive throws before the
\* outcome is recorded, and the attempt fails with the key of the settlement.
RouteContradicted(t) ==
    /\ at[t] = "poll" /\ session
    /\ Job(t) \in {"mined", "reverted", "dropped"}
    /\ AttemptFails(t, IF Job(t) = "mined" THEN "none" ELSE "rotate")
    /\ UNCHANGED <<chainVars, hubVars, session, loopVars, events>>

\* Mutant: the state of the plan is proof enough.
StateProven(t) == Action(t) \in executed

\* The receipt succeeded, carries the event, and the state has advanced.
Proven(t) == Job(t) = "mined" /\ Action(t) \in executed

\* The proof may be missed: the receipt is late, a read throws.  The settlement
\* of a reverted call may have carried the flag `reverted' and rotates then.
Verify(t) ==
    /\ at[t] = "verify"
    /\ \/ Proven(t) /\ Goto(t, "succeeded") /\ UNCHANGED <<attempt, key>>
       \/ AttemptFails(t, "none")
       \/ Job(t) = "reverted" /\ AttemptFails(t, "rotate")
    /\ UNCHANGED <<chainVars, hubVars, session, loopVars, events>>

\* runInheritance, runEvacuation: an alert whose delivery is not checked.
Announce(t) ==
    /\ at[t] \in {"succeeded", "failed"}
    /\ announced' = IF at[t] = "succeeded" THEN announced \cup {Action(t)} ELSE announced
    /\ Goto(t, "idle")
    /\ Abandoned({t})
    /\ UNCHANGED <<chainVars, session, graceAlertSent, events>>
-----------------------------------------------------------------------------
(* The loop.                                                               *)

\* tick returns at once when the plan is settled or inactive.
EvaluateSettled(t) ==
    /\ at[t] = "idle"
    /\ ~active \/ executed # {}
    /\ UNCHANGED vars

Evaluate(t) ==
    /\ at[t] = "idle"
    /\ active /\ executed = {}
    /\ IF ReadyToExecute
       THEN /\ Begin(t)
            /\ UNCHANGED graceAlertSent
       ELSE /\ IF phase = "grace" /\ ~graceAlertSent THEN Goto(t, "warn") ELSE UNCHANGED at
            /\ graceAlertSent' = (graceAlertSent /\ phase = "grace")
            /\ UNCHANGED <<hubVars, attempt, key>>
    /\ UNCHANGED <<chainVars, session, announced, events>>

\* The latch is set once the alert is out, delivered or not.
Warn(t) ==
    /\ at[t] = "warn"
    /\ graceAlertSent' = TRUE
    /\ Goto(t, "idle")
    /\ UNCHANGED <<chainVars, hubVars, session, attempt, key, announced, events>>

\* runEvacuation, by whoever holds a signature of the recovery key.
RequestEvacuation(t) ==
    /\ at[t] = "idle"
    /\ "evacuate" \notin executed
    /\ Event
    /\ Begin(t)
    /\ UNCHANGED <<phase, active, complete, executed, session, loopVars>>

\* The process dies, of a ledger that cannot be written too: an unhandled
\* rejection.  Everything but the chain and KeeperHub's jobs is lost.
Restart ==
    /\ Event
    /\ at' = [t \in Runs |-> "idle"]
    /\ graceAlertSent' = FALSE
    /\ session' \in BOOLEAN
    /\ Abandoned(Runs)
    /\ UNCHANGED <<chainVars, announced>>

Work(t) ==
    \/ SubmitAccepted(t)
    \/ RequestUnanswered(t)
    \/ SessionRefused(t)
    \/ RequestRefused(t)
    \/ ToolFailed(t)
    \/ PollTimesOut(t)
    \/ SettledFailure(t)
    \/ SettledSuccess(t)
    \/ SettledAmbiguously(t)
    \/ RouteContradicted(t)
    \/ Verify(t)
    \/ Announce(t)
    \/ Warn(t)

Next ==
    \/ Environment
    \/ \E t \in Ticks : EvaluateSettled(t) \/ Evaluate(t)
    \/ \E r \in Calls : RequestEvacuation(r)
    \/ \E r \in Runs : Work(r)
    \/ Restart

Spec == Init /\ [][Next]_vars

\* Ticks come and end; a request that is sent again and again is answered
\* on a session that KeeperHub knows again and again; KeeperHub does not
\* drop every job it could have carried out.
FairSpec ==
    /\ Spec
    /\ \A t \in Ticks : WF_vars(Evaluate(t)) /\ WF_vars(Work(t))
    /\ SF_vars(\E t \in Ticks : SubmitAccepted(t))
    /\ SF_vars(\E t \in Ticks : SessionRefused(t) /\ session')
    /\ SF_vars(\E t \in Ticks, k \in AttemptNumbers : Mine(t, k))
-----------------------------------------------------------------------------
TypeOK ==
    /\ phase \in {"alive", "grace", "due"}
    /\ active \in BOOLEAN /\ complete \in BOOLEAN
    /\ executed \subseteq Actions
    /\ job \in [Runs \X AttemptNumbers -> JobStates]
    /\ orphans \subseteq Actions
    /\ session \in BOOLEAN /\ graceAlertSent \in BOOLEAN
    /\ at \in [Runs -> Places]
    /\ attempt \in [Runs -> AttemptNumbers]
    /\ key \in [Runs -> AttemptNumbers]
    /\ \A t \in Runs : key[t] <= attempt[t] /\ attempt[t] <= MaxAttempts[Action(t)]
    /\ announced \subseteq Actions
    /\ events \in 0 .. MaxEvents

\* "nothing here reports success it did not observe" (agent/index.ts): what the
\* plan carries out once is announced once, by the execution whose transaction
\* it was, although ticks overlap, earlier executions are still under way and
\* KeeperHub takes a reverted duplicate for a success.
SuccessIsReportedOnce ==
    \A t \in Runs : at[t] = "succeeded" =>
       /\ Action(t) \notin announced
       /\ \A r \in Runs : at[r] = "succeeded" /\ Action(r) = Action(t) => r = t

\* "Unknown outcomes reuse the KeeperHub idempotency key; only confirmed
\* terminal failures rotate it": whatever was lost, late or misreported, an
\* execution never has two jobs that could both be mined.
RotationIsSafe ==
    \A t \in Runs : at[t] # "idle" =>
       \A k \in AttemptNumbers :
          /\ k < key[t] => job[<<t, k>>] \in {"reverted", "dropped"}
          /\ k > key[t] /\ at[t] # "warn" => job[<<t, k>>] = "none"

\* An estate that stays due is distributed: a key whose job failed, answers
\* that were lost, a lapsed session and restarts only delay it.
DueEstateIsExecuted ==
    <>[](phase = "due" /\ active /\ complete /\ "evacuate" \notin executed)
       => <>("executeInheritance" \in executed)
=============================================================================
