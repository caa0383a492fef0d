----------------------------- MODULE AgentProofs ------------------------------
(***************************************************************************)
(* Safety of the agent for any number of overlapping ticks and calls, any  *)
(* number of attempts and any number of events.                            *)
(***************************************************************************)
EXTENDS Agent, TLAPS

\* An execution that has not begun has nothing at KeeperHub and its first
\* attempt ahead.
Fresh ==
    \A t \in Runs : at[t] \in {"idle", "warn"} =>
        /\ attempt[t] = 1 /\ key[t] = 1
        /\ \A k \in AttemptNumbers : job[<<t, k>>] = "none"

\* A mined job carried its action out and is not announced yet, no other job
\* carried it out, and only its run succeeds.
MinedIsDone ==
    \A r \in Runs, k \in AttemptNumbers : job[<<r, k>>] = "mined" =>
        Action(r) \in executed /\ Action(r) \notin announced
MinedOnce ==
    \A r, t \in Runs, k, l \in AttemptNumbers :
        job[<<r, k>>] = "mined" /\ job[<<t, l>>] = "mined" /\ Action(r) = Action(t) => r = t /\ k = l
SucceededIsMined == \A r \in Runs : at[r] = "succeeded" => job[<<r, key[r]>>] = "mined"

SuccessInv ==
    /\ MinedIsDone
    /\ MinedOnce
    /\ SucceededIsMined
    /\ announced \subseteq executed

IInv == TypeOK /\ Fresh /\ SuccessInv /\ RotationIsSafe
-----------------------------------------------------------------------------
(* Attempts and keys.                                                      *)

LEMMA ActionType == \A t \in Runs : Action(t) \in Actions
BY DEF Action, Actions

LEMMA AttemptNumbersType ==
    /\ AttemptNumbers \subseteq Nat
    /\ \A t \in Runs : \A n \in Nat : n >= 1 /\ n <= MaxAttempts[Action(t)] => n \in AttemptNumbers
    /\ 1 \in AttemptNumbers
<1>1. \A a \in Actions : MaxAttempts[a] \in Nat /\ MaxAttempts[a] >= 1
  BY AgentAssumption
<1>2. AttemptNumbers \subseteq Nat
  BY <1>1 DEF AttemptNumbers
<1>3. ASSUME NEW t \in Runs, NEW n \in Nat, n >= 1, n <= MaxAttempts[Action(t)]
      PROVE  n \in AttemptNumbers
  <2>1. n \in 1 .. MaxAttempts[Action(t)]
    BY <1>1, <1>3, ActionType
  <2> QED BY <2>1, ActionType DEF AttemptNumbers
<1>4. 1 \in AttemptNumbers
  <2>1. "evacuate" \in Actions
    BY DEF Actions
  <2>2. 1 \in 1 .. MaxAttempts["evacuate"]
    BY <1>1, <2>1
  <2> QED BY <2>1, <2>2 DEF AttemptNumbers
<1> QED BY <1>2, <1>3, <1>4

\* A run that tries again counts the attempt, and moves to the next key only
\* when told to rotate.
LEMMA AttemptFailsMoves ==
    ASSUME TypeOK, NEW t \in Runs, NEW retryKey, AttemptFails(t, retryKey)
    PROVE  /\ at' \in [Runs -> Places]
           /\ at'[t] \in {"failed", "submit"}
           /\ \A r \in Runs \ {t} : at'[r] = at[r] /\ attempt'[r] = attempt[r] /\ key'[r] = key[r]
           /\ attempt' \in [Runs -> AttemptNumbers] /\ key' \in [Runs -> AttemptNumbers]
           /\ key'[t] <= attempt'[t] /\ attempt'[t] <= MaxAttempts[Action(t)]
           /\ key'[t] = key[t] \/ (retryKey = "rotate" /\ key'[t] = key[t] + 1)
<1>1. /\ at \in [Runs -> Places] /\ attempt \in [Runs -> AttemptNumbers]
      /\ key \in [Runs -> AttemptNumbers]
      /\ key[t] <= attempt[t] /\ attempt[t] <= MaxAttempts[Action(t)]
      /\ attempt[t] \in Nat /\ key[t] \in Nat /\ MaxAttempts[Action(t)] \in Nat
      /\ key[t] >= 1
  BY AttemptNumbersType, ActionType, AgentAssumption DEF TypeOK, AttemptNumbers
<1>2. CASE retryKey = "none" \/ attempt[t] = MaxAttempts[Action(t)]
  BY <1>1, <1>2 DEF AttemptFails, Goto, Places
<1>3. CASE ~(retryKey = "none" \/ attempt[t] = MaxAttempts[Action(t)])
  <2>1. attempt[t] + 1 \in AttemptNumbers /\ key[t] + 1 \in AttemptNumbers
    BY <1>1, <1>3, AttemptNumbersType
  <2> QED BY <1>1, <1>3, <2>1 DEF AttemptFails, Goto, Places
<1> QED BY <1>2, <1>3
-----------------------------------------------------------------------------
(* The invariant is preserved.                                             *)

\* A step by which nothing is mined or announced.
LEMMA SuccessKept ==
    ASSUME SuccessInv, executed \subseteq executed', announced' = announced,
           \A r \in Runs, k \in AttemptNumbers : job'[<<r, k>>] = "mined" => job[<<r, k>>] = "mined",
           \A r \in Runs : at'[r] = "succeeded" => job'[<<r, key'[r]>>] = "mined"
    PROVE  SuccessInv'
<1>1. MinedIsDone'
  BY DEF SuccessInv, MinedIsDone, Action
<1>2. MinedOnce'
  BY DEF SuccessInv, MinedOnce, Action
<1>3. SucceededIsMined' /\ announced' \subseteq executed'
  BY DEF SuccessInv, SucceededIsMined
<1> QED BY <1>1, <1>2, <1>3 DEF SuccessInv

\* What a step of one execution may do: move on, touch the job of its current
\* key only, and take the next key when that job has failed.
LEMMA ExecutionStep ==
    ASSUME IInv, NEW t \in Runs, at[t] \in {"submit", "poll", "verify"},
           at' \in [Runs -> Places], key' \in [Runs -> AttemptNumbers],
           attempt' \in [Runs -> AttemptNumbers],
           \A r \in Runs \ {t} : at'[r] = at[r] /\ attempt'[r] = attempt[r] /\ key'[r] = key[r],
           at'[t] \in {"submit", "poll", "verify", "failed"} \/ (at'[t] = "succeeded" /\ Proven(t) /\ job' = job),
           key'[t] = key[t]
              \/ (key'[t] = key[t] + 1 /\ job'[<<t, key[t]>>] \in {"reverted", "dropped"}
                  /\ at'[t] # "succeeded"),
           \A r \in Runs, k \in AttemptNumbers : <<r, k>> # <<t, key[t]>> => job'[<<r, k>>] = job[<<r, k>>],
           job'[<<t, key[t]>>] = "mined" => job[<<t, key[t]>>] = "mined",
           executed' = executed, announced' = announced
    PROVE  Fresh' /\ SuccessInv' /\ RotationIsSafe'
<1>1. key[t] \in Nat /\ AttemptNumbers \subseteq Nat /\ key \in [Runs -> AttemptNumbers]
  BY AttemptNumbersType DEF IInv, TypeOK
<1>2. Fresh'
  BY <1>1 DEF IInv, Fresh
<1>3. SuccessInv'
  <2>1. ASSUME NEW r \in Runs, at'[r] = "succeeded"
        PROVE  job'[<<r, key'[r]>>] = "mined"
    <3>1. CASE r = t
      BY <1>1, <2>1, <3>1 DEF Proven, Job
    <3>2. CASE r # t
      BY <1>1, <2>1, <3>2 DEF IInv, SuccessInv, SucceededIsMined
    <3> QED BY <3>1, <3>2
  <2>2. \A r \in Runs, k \in AttemptNumbers : job'[<<r, k>>] = "mined" => job[<<r, k>>] = "mined"
    OBVIOUS
  <2> QED BY <2>1, <2>2, SuccessKept DEF IInv
<1>4. RotationIsSafe'
  <2> SUFFICES ASSUME NEW r \in Runs, at'[r] # "idle", NEW k \in AttemptNumbers
               PROVE  /\ k < key'[r] => job'[<<r, k>>] \in {"reverted", "dropped"}
                      /\ k > key'[r] /\ at'[r] # "warn" => job'[<<r, k>>] = "none"
    BY DEF RotationIsSafe
  <2>1. CASE r = t
    BY <1>1, <2>1 DEF IInv, RotationIsSafe
  <2>2. CASE r # t
    BY <1>1, <2>2 DEF IInv, RotationIsSafe
  <2> QED BY <2>1, <2>2
<1> QED BY <1>2, <1>3, <1>4

\* Executions that end leave nothing under their keys.
LEMMA AbandonedStep ==
    ASSUME IInv, NEW R \in SUBSET Runs, Abandoned(R), at' = [r \in Runs |-> IF r \in R THEN "idle" ELSE at[r]],
           executed' = executed,
           \/ announced' = announced
           \/ \E t \in R : at[t] = "succeeded" /\ announced' = announced \cup {Action(t)}
    PROVE  /\ job' \in [Runs \X AttemptNumbers -> JobStates] /\ orphans' \subseteq Actions
           /\ at' \in [Runs -> Places]
           /\ attempt' \in [Runs -> AttemptNumbers] /\ key' \in [Runs -> AttemptNumbers]
           /\ \A r \in Runs : key'[r] <= attempt'[r] /\ attempt'[r] <= MaxAttempts[Action(r)]
           /\ announced' \subseteq Actions
           /\ Fresh' /\ SuccessInv' /\ RotationIsSafe'
<1>1. /\ job \in [Runs \X AttemptNumbers -> JobStates] /\ orphans \subseteq Actions
      /\ at \in [Runs -> Places] /\ attempt \in [Runs -> AttemptNumbers]
      /\ key \in [Runs -> AttemptNumbers]
      /\ \A r \in Runs : key[r] <= attempt[r] /\ attempt[r] <= MaxAttempts[Action(r)]
  BY DEF IInv, TypeOK
<1>2. \A r \in Runs : MaxAttempts[Action(r)] \in Nat /\ 1 <= MaxAttempts[Action(r)]
  BY ActionType, AgentAssumption
<1>3. job' = [j \in Runs \X AttemptNumbers |-> IF j[1] \in R THEN "none" ELSE job[j]]
  BY <1>1 DEF Abandoned
<1>4. job' \in [Runs \X AttemptNumbers -> JobStates]
  BY <1>1, <1>3 DEF JobStates
<1>5. \A r \in Runs, k \in AttemptNumbers :
         job'[<<r, k>>] = IF r \in R THEN "none" ELSE job[<<r, k>>]
  BY <1>3
<1>6. orphans' \subseteq Actions
  BY <1>1, ActionType DEF Abandoned
<1>7. at' \in [Runs -> Places]
  BY <1>1 DEF Places
<1>8. /\ attempt' = [r \in Runs |-> IF r \in R THEN 1 ELSE attempt[r]]
      /\ key' = [r \in Runs |-> IF r \in R THEN 1 ELSE key[r]]
  BY DEF Abandoned
<1>9. attempt' \in [Runs -> AttemptNumbers] /\ key' \in [Runs -> AttemptNumbers]
  BY <1>1, <1>8, AttemptNumbersType
<1>10. \A r \in Runs : key'[r] <= attempt'[r] /\ attempt'[r] <= MaxAttempts[Action(r)]
  BY <1>1, <1>2, <1>8
<1>11. Fresh'
  BY <1>5, <1>8 DEF IInv, Fresh
<1>12. SuccessInv'
  <2>1. \A r \in Runs, k \in AttemptNumbers :
           job'[<<r, k>>] = "mined" => r \notin R /\ job[<<r, k>>] = "mined"
    BY <1>5
  <2>2. \A r \in Runs : at'[r] = "succeeded" => job'[<<r, key'[r]>>] = "mined"
    BY <1>1, <1>5, <1>8 DEF IInv, SuccessInv, SucceededIsMined
  <2>3. CASE announced' = announced
    BY <2>1, <2>2, <2>3, SuccessKept DEF IInv
  <2>4. ASSUME NEW t \in R, at[t] = "succeeded", announced' = announced \cup {Action(t)}
        PROVE  SuccessInv'
    <3>1. key[t] \in AttemptNumbers /\ job[<<t, key[t]>>] = "mined" /\ Action(t) \in executed
      BY <1>1, <2>4 DEF IInv, SuccessInv, SucceededIsMined, MinedIsDone
    <3>2. MinedIsDone'
      <4> SUFFICES ASSUME NEW r \in Runs, NEW k \in AttemptNumbers, job'[<<r, k>>] = "mined"
                   PROVE  Action(r) \in executed' /\ Action(r) \notin announced'
        BY DEF MinedIsDone, Action
      <4>1. r \notin R /\ job[<<r, k>>] = "mined"
        BY <2>1
      <4>2. Action(r) # Action(t)
        BY <3>1, <4>1 DEF IInv, SuccessInv, MinedOnce
      <4> QED BY <2>4, <4>1, <4>2 DEF IInv, SuccessInv, MinedIsDone
    <3>3. MinedOnce'
      BY <2>1 DEF IInv, SuccessInv, MinedOnce, Action
    <3> QED BY <2>2, <2>4, <3>1, <3>2, <3>3 DEF IInv, SuccessInv, SucceededIsMined
  <2> QED BY <2>3, <2>4
<1>13. RotationIsSafe'
  BY <1>5, <1>8 DEF IInv, RotationIsSafe
<1>14. announced' \subseteq Actions
  BY ActionType DEF IInv, TypeOK
<1> QED BY <1>4, <1>6, <1>7, <1>9, <1>10, <1>11, <1>12, <1>13, <1>14

\* The plan's own changes: nothing an execution relies on is undone.
LEMMA EnvironmentStep ==
    ASSUME IInv, Environment
    PROVE  IInv'
<1>1. CASE TimePasses
  BY <1>1, SuccessKept DEF TimePasses, hubVars, runVars, loopVars, IInv, TypeOK, Fresh,
     SuccessInv, SucceededIsMined, RotationIsSafe
<1>2. CASE OwnerChanges
  <2>1. events' \in 0 .. MaxEvents
    BY <1>2, AgentAssumption DEF OwnerChanges, Event, IInv, TypeOK
  <2> QED BY <1>2, <2>1, SuccessKept DEF OwnerChanges, hubVars, runVars, loopVars, IInv, TypeOK,
             Fresh, SuccessInv, SucceededIsMined, RotationIsSafe
<1>3. ASSUME NEW t \in Runs, NEW k \in AttemptNumbers, Mine(t, k)
      PROVE  IInv'
  <2>1. /\ job[<<t, k>>] = "pending" /\ job' = [job EXCEPT ![<<t, k>>] = "mined"]
        /\ job \in [Runs \X AttemptNumbers -> JobStates]
        /\ UNCHANGED <<orphans, session, runVars, loopVars, events, phase, complete>>
        /\ executed' = executed \cup {Action(t)} /\ active' \in BOOLEAN
    BY <1>3 DEF Mine, Carry, IInv, TypeOK
  <2>2. /\ job' \in [Runs \X AttemptNumbers -> JobStates]
        /\ \A r \in Runs, n \in AttemptNumbers :
              job'[<<r, n>>] = IF r = t /\ n = k THEN "mined" ELSE job[<<r, n>>]
    BY <2>1 DEF JobStates
  <2>3. /\ at' = at /\ attempt' = attempt /\ key' = key /\ announced' = announced
        /\ graceAlertSent' = graceAlertSent
    BY <2>1 DEF runVars, loopVars
  <2>4. TypeOK'
    BY <2>1, <2>2, <2>3, ActionType DEF IInv, TypeOK
  <2>5. Fresh'
    BY <2>1, <2>2, <2>3 DEF IInv, Fresh
  <2>6. SuccessInv'
    <3>1. Action(t) \notin executed
      BY <1>3 DEF Mine, Callable, ReadyToExecute
    <3>2. Action(t) \notin announced
      BY <3>1 DEF IInv, SuccessInv
    <3>3. MinedIsDone'
      BY <2>1, <2>2, <2>3, <3>2 DEF IInv, SuccessInv, MinedIsDone, Action
    <3>4. \A r \in Runs, n \in AttemptNumbers : job[<<r, n>>] = "mined" => Action(r) # Action(t)
      BY <3>1 DEF IInv, SuccessInv, MinedIsDone
    <3>5. MinedOnce'
      <4> SUFFICES ASSUME NEW q \in Runs, NEW r \in Runs,
                          NEW m \in AttemptNumbers, NEW n \in AttemptNumbers,
                          job'[<<q, m>>] = "mined", job'[<<r, n>>] = "mined", Action(q) = Action(r)
                   PROVE  q = r /\ m = n
        BY DEF MinedOnce, Action
      <4>1. CASE (q = t /\ m = k) \/ (r = t /\ n = k)
        BY <2>2, <3>4, <4>1
      <4>2. CASE ~(q = t /\ m = k) /\ ~(r = t /\ n = k)
        BY <2>2, <4>2 DEF IInv, SuccessInv, MinedOnce
      <4> QED BY <4>1, <4>2
    <3>6. SucceededIsMined'
      BY <2>2, <2>3 DEF IInv, TypeOK, SuccessInv, SucceededIsMined
    <3> QED BY <2>1, <2>3, <3>3, <3>5, <3>6 DEF IInv, SuccessInv
  <2>7. RotationIsSafe'
    BY <2>1, <2>2, <2>3 DEF IInv, RotationIsSafe
  <2> QED BY <2>4, <2>5, <2>6, <2>7 DEF IInv
<1>4. ASSUME NEW t \in Runs, NEW k \in AttemptNumbers, Fail(t, k)
      PROVE  IInv'
  <2>1. /\ job[<<t, k>>] = "pending"
        /\ job \in [Runs \X AttemptNumbers -> JobStates]
        /\ UNCHANGED <<chainVars, orphans, session, runVars, loopVars, events>>
    BY <1>4 DEF Fail, IInv, TypeOK
  <2>2. PICK v \in {"reverted", "dropped"} : job' = [job EXCEPT ![<<t, k>>] = v]
    BY <1>4 DEF Fail
  <2>3. /\ job' \in [Runs \X AttemptNumbers -> JobStates]
        /\ \A r \in Runs, n \in AttemptNumbers :
              job'[<<r, n>>] = IF r = t /\ n = k THEN v ELSE job[<<r, n>>]
    BY <2>1, <2>2 DEF JobStates
  <2>4. /\ at' = at /\ attempt' = attempt /\ key' = key /\ announced' = announced
        /\ graceAlertSent' = graceAlertSent /\ executed' = executed
        /\ phase' = phase /\ active' = active /\ complete' = complete
    BY <2>1 DEF chainVars, runVars, loopVars
  <2>5. TypeOK'
    BY <2>1, <2>3, <2>4 DEF IInv, TypeOK
  <2>6. Fresh'
    BY <2>1, <2>3, <2>4 DEF IInv, Fresh
  <2>7. SuccessInv'
    <3>1. \A r \in Runs, n \in AttemptNumbers : job'[<<r, n>>] = "mined" <=> job[<<r, n>>] = "mined"
      BY <2>1, <2>3
    <3>2. \A r \in Runs : at'[r] = "succeeded" => job'[<<r, key'[r]>>] = "mined"
      BY <2>4, <3>1 DEF IInv, TypeOK, SuccessInv, SucceededIsMined
    <3> QED BY <2>4, <3>1, <3>2, SuccessKept DEF IInv
  <2>8. RotationIsSafe'
    BY <2>1, <2>3, <2>4 DEF IInv, RotationIsSafe
  <2> QED BY <2>5, <2>6, <2>7, <2>8 DEF IInv
<1>5. ASSUME NEW a \in Actions, EndOrphan(a)
      PROVE  IInv'
  <2>1. /\ UNCHANGED <<job, session, at, attempt, key, graceAlertSent, announced, events, phase, complete>>
        /\ orphans' \subseteq orphans
        /\ executed' \in {executed, executed \cup {a}} /\ active' \in BOOLEAN
    BY <1>5 DEF EndOrphan, Carry, chainVars, runVars, loopVars, IInv, TypeOK
  <2>2. TypeOK'
    BY <2>1 DEF IInv, TypeOK
  <2>3. SuccessInv'
    BY <2>1, SuccessKept DEF IInv, SuccessInv, SucceededIsMined
  <2> QED BY <2>1, <2>2, <2>3 DEF IInv, Fresh, RotationIsSafe
<1>6. CASE SessionLapses
  <2>1. events' \in 0 .. MaxEvents
    BY <1>6, AgentAssumption DEF SessionLapses, Event, IInv, TypeOK
  <2> QED BY <1>6, <2>1, SuccessKept DEF SessionLapses, chainVars, hubVars, runVars, IInv,
             TypeOK, Fresh, SuccessInv, SucceededIsMined, RotationIsSafe
<1> QED BY <1>1, <1>2, <1>3, <1>4, <1>5, <1>6 DEF Environment

\* A step of run t that touches no job but the current one of t.
OwnStep(t) ==
    /\ UNCHANGED <<chainVars, orphans, loopVars, events>>
    /\ session' \in BOOLEAN
    /\ job' \in [Runs \X AttemptNumbers -> JobStates]
    /\ \A r \in Runs, k \in AttemptNumbers :
          <<r, k>> # <<t, key[t]>> => job'[<<r, k>>] = job[<<r, k>>]
    /\ job'[<<t, key[t]>>] = "mined" => job[<<t, key[t]>>] = "mined"

LEMMA OwnStepKeeps ==
    ASSUME IInv, NEW t \in Runs, OwnStep(t),
           at[t] \in {"submit", "poll", "verify"},
           at' \in [Runs -> Places], key' \in [Runs -> AttemptNumbers],
           attempt' \in [Runs -> AttemptNumbers],
           \A r \in Runs \ {t} : at'[r] = at[r] /\ attempt'[r] = attempt[r] /\ key'[r] = key[r],
           key'[t] <= attempt'[t], attempt'[t] <= MaxAttempts[Action(t)],
           at'[t] \in {"submit", "poll", "verify", "failed"} \/ (at'[t] = "succeeded" /\ Proven(t) /\ job' = job),
           key'[t] = key[t]
              \/ (key'[t] = key[t] + 1 /\ job'[<<t, key[t]>>] \in {"reverted", "dropped"}
                  /\ at'[t] # "succeeded")
    PROVE  IInv'
<1>1. executed' = executed /\ announced' = announced
  BY DEF OwnStep, chainVars, loopVars
<1>2. Fresh' /\ SuccessInv' /\ RotationIsSafe'
  BY <1>1, ExecutionStep DEF OwnStep
<1>3. \A r \in Runs : key'[r] <= attempt'[r] /\ attempt'[r] <= MaxAttempts[Action(r)]
  BY DEF IInv, TypeOK
<1>4. TypeOK'
  BY <1>3 DEF OwnStep, IInv, TypeOK, chainVars, loopVars, Action
<1> QED BY <1>2, <1>4 DEF IInv

LEMMA AttemptStep ==
    ASSUME IInv, NEW t \in Runs, OwnStep(t),
           at[t] \in {"submit", "poll", "verify"},
           NEW retryKey, AttemptFails(t, retryKey),
           retryKey = "rotate" => job'[<<t, key[t]>>] \in {"reverted", "dropped"}
    PROVE  IInv'
<1>1. TypeOK
  BY DEF IInv
<1>2. /\ at' \in [Runs -> Places]
      /\ at'[t] \in {"failed", "submit"}
      /\ \A r \in Runs \ {t} : at'[r] = at[r] /\ attempt'[r] = attempt[r] /\ key'[r] = key[r]
      /\ attempt' \in [Runs -> AttemptNumbers] /\ key' \in [Runs -> AttemptNumbers]
      /\ key'[t] <= attempt'[t] /\ attempt'[t] <= MaxAttempts[Action(t)]
      /\ key'[t] = key[t] \/ (retryKey = "rotate" /\ key'[t] = key[t] + 1)
  BY <1>1, AttemptFailsMoves
<1> QED BY <1>2, OwnStepKeeps

\* A run that stays with its attempt and moves on.
LEMMA MoveStep ==
    ASSUME IInv, NEW t \in Runs, OwnStep(t),
           at[t] \in {"submit", "poll", "verify"},
           UNCHANGED <<attempt, key>>, NEW place \in Places, Goto(t, place),
           place \in {"submit", "poll", "verify", "failed"} \/ (place = "succeeded" /\ Proven(t) /\ job' = job)
    PROVE  IInv'
<1>1. /\ at \in [Runs -> Places] /\ attempt \in [Runs -> AttemptNumbers]
      /\ key \in [Runs -> AttemptNumbers]
      /\ key[t] <= attempt[t] /\ attempt[t] <= MaxAttempts[Action(t)]
  BY DEF IInv, TypeOK
<1>2. at' \in [Runs -> Places] /\ at'[t] = place /\ \A r \in Runs \ {t} : at'[r] = at[r]
  BY <1>1 DEF Goto
<1> QED BY <1>1, <1>2, OwnStepKeeps

\* A submission that arrives opens the job of the current key, or finds it.
LEMMA OpenedType ==
    ASSUME IInv, NEW t \in Runs
    PROVE  /\ Opened(t) \in [Runs \X AttemptNumbers -> JobStates]
           /\ \A r \in Runs, k \in AttemptNumbers :
                 <<r, k>> # <<t, key[t]>> => Opened(t)[<<r, k>>] = job[<<r, k>>]
           /\ Opened(t)[<<t, key[t]>>] = "mined" => job[<<t, key[t]>>] = "mined"
<1>1. /\ job \in [Runs \X AttemptNumbers -> JobStates]
      /\ <<t, key[t]>> \in Runs \X AttemptNumbers
  BY DEF IInv, TypeOK
<1> QED BY <1>1 DEF Opened, JobStates

LEMMA WorkStep ==
    ASSUME IInv, NEW t \in Runs, Work(t)
    PROVE  IInv'
<1>1. /\ job \in [Runs \X AttemptNumbers -> JobStates] /\ session \in BOOLEAN
      /\ <<t, key[t]>> \in Runs \X AttemptNumbers
      /\ at \in [Runs -> Places]
  BY DEF IInv, TypeOK
<1>2. {"submit", "poll", "verify", "failed", "succeeded"} \subseteq Places
  BY DEF Places
<1>3. CASE SubmitAccepted(t)
  <2>1. OwnStep(t)
    BY <1>1, <1>3, OpenedType DEF SubmitAccepted, OwnStep
  <2> QED BY <1>2, <1>3, <2>1, MoveStep DEF SubmitAccepted
<1>4. CASE RequestUnanswered(t)
  <2>1. job' = job \/ job' = Opened(t)
    BY <1>4 DEF RequestUnanswered
  <2>2. OwnStep(t)
    BY <1>1, <1>4, <2>1, OpenedType DEF RequestUnanswered, OwnStep
  <2>3. at[t] \in {"submit", "poll"}
    BY <1>4 DEF RequestUnanswered
  <2>4. CASE AttemptFails(t, "reuse")
    BY <2>2, <2>3, <2>4, AttemptStep
  <2>5. CASE UNCHANGED runVars
    <3>1. Goto(t, at[t]) /\ UNCHANGED <<attempt, key>>
      BY <1>1, <2>5 DEF Goto, runVars
    <3> QED BY <1>2, <2>2, <2>3, <3>1, MoveStep
  <2> QED BY <1>4, <2>4, <2>5 DEF RequestUnanswered, SendAgainOrFail
<1>5. CASE SessionRefused(t)
  <2>1. OwnStep(t) /\ at[t] \in {"submit", "poll"}
    BY <1>1, <1>5 DEF SessionRefused, OwnStep, hubVars
  <2>2. CASE AttemptFails(t, "reuse")
    BY <2>1, <2>2, AttemptStep
  <2>3. CASE UNCHANGED runVars
    <3>1. Goto(t, at[t]) /\ UNCHANGED <<attempt, key>>
      BY <1>1, <2>3 DEF Goto, runVars
    <3> QED BY <1>2, <2>1, <3>1, MoveStep
  <2> QED BY <1>5, <2>2, <2>3 DEF SessionRefused, SendAgainOrFail
<1>6. CASE RequestRefused(t)
  <2>1. OwnStep(t) /\ at[t] \in {"submit", "poll"}
    BY <1>1, <1>6 DEF RequestRefused, OwnStep, hubVars
  <2> QED BY <1>6, <2>1, AttemptStep DEF RequestRefused
<1>7. CASE ToolFailed(t)
  <2>1. /\ job' \in [Runs \X AttemptNumbers -> JobStates]
        /\ \A r \in Runs, k \in AttemptNumbers :
              <<r, k>> # <<t, key[t]>> => job'[<<r, k>>] = job[<<r, k>>]
        /\ job'[<<t, key[t]>>] \in {"reverted", "dropped"}
    BY <1>1, <1>7 DEF ToolFailed, Job, JobStates
  <2>2. OwnStep(t)
    BY <1>1, <1>7, <2>1 DEF ToolFailed, OwnStep
  <2> QED BY <1>7, <2>1, <2>2, AttemptStep DEF ToolFailed
<1>8. CASE PollTimesOut(t)
  <2>1. OwnStep(t)
    BY <1>1, <1>8 DEF PollTimesOut, OwnStep, hubVars
  <2> QED BY <1>8, <2>1, AttemptStep DEF PollTimesOut
<1>9. CASE SettledFailure(t)
  <2>1. OwnStep(t) /\ job' = job
    BY <1>1, <1>9 DEF SettledFailure, OwnStep, hubVars
  <2> QED BY <1>9, <2>1, AttemptStep DEF SettledFailure, Job
<1>10. CASE SettledSuccess(t)
  <2>1. OwnStep(t)
    BY <1>1, <1>10 DEF SettledSuccess, OwnStep, hubVars
  <2> QED BY <1>2, <1>10, <2>1, MoveStep DEF SettledSuccess
<1>11. CASE SettledAmbiguously(t)
  <2>1. OwnStep(t)
    BY <1>1, <1>11 DEF SettledAmbiguously, OwnStep, hubVars
  <2> QED BY <1>11, <2>1, AttemptStep DEF SettledAmbiguously
<1>12. CASE RouteContradicted(t)
  <2>1. OwnStep(t) /\ job' = job
    BY <1>1, <1>12 DEF RouteContradicted, OwnStep, hubVars
  <2>2. CASE Job(t) = "mined"
    BY <1>12, <2>1, <2>2, AttemptStep DEF RouteContradicted
  <2>3. CASE Job(t) # "mined"
    BY <1>12, <2>1, <2>3, AttemptStep DEF RouteContradicted, Job
  <2> QED BY <2>2, <2>3
<1>13. CASE Verify(t)
  <2>1. OwnStep(t) /\ job' = job /\ at[t] = "verify"
    BY <1>1, <1>13 DEF Verify, OwnStep, hubVars
  <2>2. CASE Proven(t) /\ Goto(t, "succeeded") /\ UNCHANGED <<attempt, key>>
    BY <1>2, <2>1, <2>2, MoveStep
  <2>3. CASE AttemptFails(t, "none")
    BY <2>1, <2>3, AttemptStep
  <2>4. CASE Job(t) = "reverted" /\ AttemptFails(t, "rotate")
    BY <2>1, <2>4, AttemptStep DEF Job
  <2> QED BY <1>13, <2>2, <2>3, <2>4 DEF Verify
<1>14. CASE Announce(t)
  <2>1. at' = [r \in Runs |-> IF r \in {t} THEN "idle" ELSE at[r]]
    BY <1>1, <1>14 DEF Announce, Goto
  <2>2. /\ executed' = executed /\ Abandoned({t})
        /\ \/ announced' = announced
           \/ \E r \in {t} : at[r] = "succeeded" /\ announced' = announced \cup {Action(r)}
    BY <1>14 DEF Announce, chainVars
  <2>3. {t} \in SUBSET Runs
    OBVIOUS
  <2>4. /\ job' \in [Runs \X AttemptNumbers -> JobStates] /\ orphans' \subseteq Actions
        /\ at' \in [Runs -> Places]
        /\ attempt' \in [Runs -> AttemptNumbers] /\ key' \in [Runs -> AttemptNumbers]
        /\ \A r \in Runs : key'[r] <= attempt'[r] /\ attempt'[r] <= MaxAttempts[Action(r)]
        /\ announced' \subseteq Actions
        /\ Fresh' /\ SuccessInv' /\ RotationIsSafe'
    BY <2>1, <2>2, <2>3, AbandonedStep
  <2>5. TypeOK'
    BY <1>14, <2>2, <2>4 DEF Announce, chainVars, IInv, TypeOK, Action
  <2> QED BY <2>4, <2>5 DEF IInv
<1>15. CASE Warn(t)
  <2>1. /\ UNCHANGED <<chainVars, hubVars, session, attempt, key, announced, events>>
        /\ graceAlertSent' \in BOOLEAN /\ at[t] = "warn"
    BY <1>15 DEF Warn
  <2>2. /\ at'[t] = "idle" /\ \A r \in Runs \ {t} : at'[r] = at[r]
        /\ at' \in [Runs -> Places]
    BY <1>1, <1>15 DEF Warn, Goto, Places
  <2>3. TypeOK'
    BY <2>1, <2>2 DEF chainVars, hubVars, IInv, TypeOK, Action
  <2>4. Fresh'
    BY <2>1, <2>2 DEF hubVars, IInv, Fresh
  <2>5. SuccessInv'
    BY <2>1, <2>2, SuccessKept DEF chainVars, hubVars, IInv, SuccessInv, SucceededIsMined
  <2>6. RotationIsSafe'
    BY <2>1, <2>2 DEF hubVars, IInv, RotationIsSafe
  <2> QED BY <2>3, <2>4, <2>5, <2>6 DEF IInv
<1> QED BY <1>3, <1>4, <1>5, <1>6, <1>7, <1>8, <1>9, <1>10, <1>11, <1>12, <1>13, <1>14, <1>15
        DEF Work

\* An idle run that begins an execution, or an alert.
LEMMA LeaveIdle ==
    ASSUME IInv, NEW t \in Runs, at[t] = "idle",
           at' = at \/ \E place \in {"submit", "warn"} : Goto(t, place),
           UNCHANGED <<chainVars, hubVars, session, attempt, key, announced>>,
           graceAlertSent' \in BOOLEAN, events' \in 0 .. MaxEvents
    PROVE  IInv'
<1>1. at \in [Runs -> Places]
  BY DEF IInv, TypeOK
<1>2. /\ at' \in [Runs -> Places] /\ at'[t] \in {"idle", "submit", "warn"}
      /\ \A r \in Runs \ {t} : at'[r] = at[r]
  BY <1>1 DEF Goto, Places
<1>3. TypeOK'
  BY <1>2 DEF chainVars, hubVars, IInv, TypeOK, Action
<1>4. Fresh'
  BY <1>2 DEF hubVars, IInv, Fresh
<1>5. SuccessInv'
  BY <1>2, SuccessKept DEF chainVars, hubVars, IInv, SuccessInv, SucceededIsMined
<1>6. RotationIsSafe'
  <2>1. AttemptNumbers \subseteq Nat /\ \A k \in AttemptNumbers : k >= 1
    BY AttemptNumbersType DEF AttemptNumbers
  <2>2. \A k \in AttemptNumbers : job[<<t, k>>] = "none" /\ ~(k < key[t])
    <3>1. key[t] = 1 /\ \A k \in AttemptNumbers : job[<<t, k>>] = "none"
      BY DEF IInv, Fresh
    <3> QED BY <2>1, <3>1
  <2>3. SUFFICES ASSUME NEW r \in Runs, at'[r] # "idle", NEW k \in AttemptNumbers
                 PROVE  /\ k < key'[r] => job'[<<r, k>>] \in {"reverted", "dropped"}
                        /\ k > key'[r] /\ at'[r] # "warn" => job'[<<r, k>>] = "none"
    BY DEF RotationIsSafe
  <2>4. CASE r = t
    BY <2>2, <2>4 DEF hubVars
  <2>5. CASE r # t
    BY <1>2, <2>3, <2>5 DEF hubVars, IInv, RotationIsSafe
  <2> QED BY <2>4, <2>5
<1> QED BY <1>3, <1>4, <1>5, <1>6 DEF IInv

LEMMA RestartStep ==
    ASSUME IInv, Restart
    PROVE  IInv'
<1>1. at' = [r \in Runs |-> IF r \in Runs THEN "idle" ELSE at[r]]
  BY DEF Restart
<1>2. executed' = executed /\ announced' = announced /\ Abandoned(Runs)
  BY DEF Restart, chainVars
<1>3. Runs \in SUBSET Runs
  OBVIOUS
<1>4. /\ job' \in [Runs \X AttemptNumbers -> JobStates] /\ orphans' \subseteq Actions
      /\ at' \in [Runs -> Places]
      /\ attempt' \in [Runs -> AttemptNumbers] /\ key' \in [Runs -> AttemptNumbers]
      /\ \A r \in Runs : key'[r] <= attempt'[r] /\ attempt'[r] <= MaxAttempts[Action(r)]
      /\ announced' \subseteq Actions
      /\ Fresh' /\ SuccessInv' /\ RotationIsSafe'
  BY <1>1, <1>2, <1>3, AbandonedStep
<1>5. events' \in 0 .. MaxEvents
  BY AgentAssumption DEF Restart, Event, IInv, TypeOK
<1>6. TypeOK'
  BY <1>2, <1>4, <1>5 DEF Restart, chainVars, IInv, TypeOK, Action
<1> QED BY <1>4, <1>6 DEF IInv

\* The invariant of the agent: types, fresh executions, one transaction of an
\* action and keys that rotate only after a confirmed failure.
LEMMA Invariance == Spec => []IInv
<1>1. Init => IInv
  <2> SUFFICES ASSUME Init PROVE IInv
    OBVIOUS
  <2>1. \A r \in Runs : MaxAttempts[Action(r)] \in Nat /\ 1 <= MaxAttempts[Action(r)]
    BY ActionType, AgentAssumption
  <2>2. TypeOK
    <3>1. job \in [Runs \X AttemptNumbers -> JobStates] /\ at \in [Runs -> Places]
      BY DEF Init, JobStates, Places
    <3>2. /\ attempt \in [Runs -> AttemptNumbers] /\ key \in [Runs -> AttemptNumbers]
          /\ \A r \in Runs : key[r] <= attempt[r] /\ attempt[r] <= MaxAttempts[Action(r)]
      BY <2>1, AttemptNumbersType DEF Init
    <3>3. /\ phase \in {"alive", "grace", "due"} /\ active \in BOOLEAN /\ complete \in BOOLEAN
          /\ session \in BOOLEAN /\ graceAlertSent \in BOOLEAN
      BY DEF Init
    <3>5. events \in 0 .. MaxEvents
      <4>1. MaxEvents \in Nat
        BY AgentAssumption
      <4> QED BY <4>1 DEF Init
    <3>4. executed \subseteq Actions /\ orphans \subseteq Actions /\ announced \subseteq Actions
      BY DEF Init
    <3> QED BY <3>1, <3>2, <3>3, <3>4, <3>5 DEF TypeOK
  <2>3. Fresh
    BY DEF Init, Fresh
  <2>4. SuccessInv /\ RotationIsSafe
    BY DEF Init, SuccessInv, MinedIsDone, MinedOnce, SucceededIsMined, RotationIsSafe
  <2> QED BY <2>2, <2>3, <2>4 DEF IInv
<1>2. IInv /\ [Next]_vars => IInv'
  <2> SUFFICES ASSUME IInv, [Next]_vars PROVE IInv'
    OBVIOUS
  <2>1. CASE Environment
    BY <2>1, EnvironmentStep
  <2>2. ASSUME UNCHANGED vars PROVE IInv'
    BY <2>2 DEF vars, chainVars, hubVars, runVars, loopVars, IInv, TypeOK, Fresh, SuccessInv,
       MinedIsDone, MinedOnce, SucceededIsMined, Action, RotationIsSafe
  <2>3. ASSUME NEW t \in Ticks, EvaluateSettled(t) PROVE IInv'
    BY <2>2, <2>3 DEF EvaluateSettled
  <2>4. ASSUME NEW t \in Ticks, Evaluate(t) PROVE IInv'
    <3>1. t \in Runs
      BY DEF Runs
    <3>2. graceAlertSent' \in BOOLEAN /\ events' \in 0 .. MaxEvents
      BY <2>4 DEF Evaluate, IInv, TypeOK
    <3> QED BY <2>4, <3>1, <3>2, LeaveIdle DEF Evaluate, Begin, hubVars
  <2>5. ASSUME NEW t \in Calls, RequestEvacuation(t) PROVE IInv'
    <3>1. t \in Runs
      BY DEF Runs
    <3>2. graceAlertSent' \in BOOLEAN /\ events' \in 0 .. MaxEvents
      BY <2>5, AgentAssumption DEF RequestEvacuation, Event, loopVars, IInv, TypeOK
    <3> QED BY <2>5, <3>1, <3>2, LeaveIdle DEF RequestEvacuation, Begin, chainVars, hubVars, loopVars
  <2>6. ASSUME NEW t \in Runs, Work(t) PROVE IInv'
    BY <2>6, WorkStep
  <2>7. CASE Restart
    BY <2>7, RestartStep
  <2> QED BY <2>1, <2>2, <2>3, <2>4, <2>5, <2>6, <2>7 DEF Next
<1> QED BY <1>1, <1>2, PTL DEF Spec
-----------------------------------------------------------------------------
\* Every variable keeps its type, and no execution tries more often than its
\* action allows, however many ticks and calls overlap.
THEOREM AgentTypeCorrect == Spec => []TypeOK
<1>1. IInv => TypeOK
  BY DEF IInv
<1> QED BY <1>1, Invariance, PTL

\* The agent announces what the plan carried out once, by the execution whose
\* transaction it was, whatever overlapping ticks, replays and restarts do.
THEOREM AgentSuccessIsReportedOnce == Spec => []SuccessIsReportedOnce
<1>1. IInv => SuccessIsReportedOnce
  <2> SUFFICES ASSUME IInv, NEW t \in Runs, at[t] = "succeeded"
               PROVE  /\ Action(t) \notin announced
                      /\ \A r \in Runs : at[r] = "succeeded" /\ Action(r) = Action(t) => r = t
    BY DEF SuccessIsReportedOnce
  <2>1. \A r \in Runs : at[r] = "succeeded" => key[r] \in AttemptNumbers /\ job[<<r, key[r]>>] = "mined"
    BY DEF IInv, TypeOK, SuccessInv, SucceededIsMined
  <2> QED BY <2>1 DEF IInv, SuccessInv, MinedIsDone, MinedOnce
<1> QED BY <1>1, Invariance, PTL

\* An idempotency key is given up only for a job that has failed for good: two
\* jobs of one execution are never both open.
THEOREM AgentRotationIsSafe == Spec => []RotationIsSafe
<1>1. IInv => RotationIsSafe
  BY DEF IInv
<1> QED BY <1>1, Invariance, PTL
=============================================================================
