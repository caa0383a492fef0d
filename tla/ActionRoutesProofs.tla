-------------------------- MODULE ActionRoutesProofs ---------------------------
(***************************************************************************)
(* Safety of the action routes and of the activity ledger for any number   *)
(* of concurrent posts, any intents and any bounds.                        *)
(***************************************************************************)
EXTENDS ActionRoutes, FiniteSetTheorems, TLAPS

\* An execution belongs to a post that has submitted it; once mined it has
\* consumed the nonce of its intent, so that no other of that intent is mined.
MinedIsUsed ==
    \A p \in Posts :
       /\ execution[p] # "none" => p \in 1 .. posts /\ at[p] \notin {"check", "submit"}
       /\ execution[p] = "mined" =>
             /\ intent[p] \in used
             /\ \A q \in Posts : execution[q] = "mined" /\ intent[q] = intent[p] => q = p

\* A verified post has seen the receipt of a mined transaction.
VerifiedIsMined ==
    \A p \in 1 .. posts : result[p].outcome = "verified" => execution[hash[p]] = "mined"

\* A post about to be recorded carries what the server knows of its execution.
ResultIsKnown ==
    \A p \in 1 .. posts :
       /\ at[p] \in {"announce", "record", "insert"} => result[p].evidence = known[p]
       /\ at[p] = "verify" => known[p] = "hash"

\* A post that has not settled has no result yet.
UnsettledIsOpen ==
    \A p \in 1 .. posts :
       at[p] \in {"check", "submit", "await", "verify"} => result[p].outcome = "none"

\* What is recorded stays true: the post of an entry has been answered.
EntriesAreFinal ==
    \A e \in entries : at[e.post] = "answered" /\ e.evidence = known[e.post]

\* One open append transaction per intent holds the next number.
AppendsExclude ==
    \A p \in 1 .. posts : at[p] = "insert" =>
       /\ attempt[p] = counter[intent[p]] + 1
       /\ \A q \in 1 .. posts : q # p /\ intent[q] = intent[p] => at[q] # "insert"

\* A post writes at most one entry.
OneEntryPerPost ==
    /\ IsFiniteSet(entries)
    /\ \A e, f \in entries : e.post = f.post => e = f

IInv ==
    /\ TypeOK /\ MinedIsUsed /\ VerifiedIsMined /\ ResultIsKnown
    /\ UnsettledIsOpen /\ EntriesAreFinal
    /\ AppendsExclude /\ OneEntryPerPost /\ AttemptsAreContiguous
-----------------------------------------------------------------------------
(* Numbers.                                                                *)

LEMMA BoundsType ==
    ASSUME TypeOK
    PROVE  /\ {HeartbeatInterval, SigningWindow, MaxPolls, MaxPosts, MaxTime, MaxDirect, MaxKills} \subseteq Nat
           /\ posts \in Nat /\ posts <= MaxPosts /\ 1 .. posts \subseteq Posts
           /\ \A p \in 1 .. posts : p \in Nat /\ intent[p] \in Intents
BY RoutesAssumption DEF TypeOK, Posts

\* The entries of an intent come from different posts, all answered: a post
\* that is not leaves room for another attempt.
LEMMA AttemptIsBounded ==
    ASSUME IInv, NEW p \in 1 .. posts, at[p] # "answered"
    PROVE  /\ counter[intent[p]] \in Nat
           /\ counter[intent[p]] + 1 <= posts
<1>1. TypeOK /\ intent[p] \in Intents /\ posts \in Nat /\ posts \in Int
  BY BoundsType DEF IInv
<1> DEFINE mine == {e \in entries : e.key = intent[p]}
           others == (1 .. posts) \ {p}
           post == [e \in mine |-> e.post]
<1>2. IsFiniteSet(mine) /\ Cardinality(mine) = counter[intent[p]]
  <2>1. IsFiniteSet(mine)
    BY FS_Subset DEF IInv, OneEntryPerPost
  <2> QED BY <1>1, <2>1 DEF IInv, AttemptsAreContiguous
<1>3. IsFiniteSet(others) /\ Cardinality(others) = posts - 1
  <2>1. IsFiniteSet(1 .. posts) /\ Cardinality(1 .. posts) = posts
    BY <1>1, FS_Interval
  <2> QED BY <2>1, FS_RemoveElement
<1>4. post \in Injection(mine, others)
  <2>1. ASSUME NEW e \in mine PROVE e.post \in others
    BY DEF IInv, TypeOK, EntriesAreFinal
  <2>2. post \in [mine -> others]
    BY <2>1
  <2>3. \A e, f \in mine : post[e] = post[f] => e = f
    BY DEF IInv, OneEntryPerPost
  <2> QED BY <2>2, <2>3 DEF Injection, IsInjective
<1>5. Cardinality(mine) <= Cardinality(others)
  BY <1>3, <1>4, FS_Injection
<1> QED BY <1>1, <1>2, <1>3, <1>5, FS_CardinalityType
-----------------------------------------------------------------------------
(* The ledger.                                                             *)

\* Whatever leaves the counters and the entries alone and opens no append
\* transaction keeps the ledger right.
LEMMA LedgerKept ==
    ASSUME IInv, UNCHANGED <<counter, entries>>,
           \A q \in 1 .. posts : intent'[q] = intent[q]
              /\ (at[q] = "answered" => at'[q] = "answered" /\ known'[q] = known[q]),
           \A q \in 1 .. posts' : at'[q] = "insert" =>
              q \in 1 .. posts /\ at[q] = "insert" /\ attempt'[q] = attempt[q]
    PROVE  EntriesAreFinal' /\ AppendsExclude' /\ OneEntryPerPost' /\ AttemptsAreContiguous'
<1>1. EntriesAreFinal'
  <2> SUFFICES ASSUME NEW e \in entries
               PROVE  at'[e.post] = "answered" /\ e.evidence = known'[e.post]
    BY DEF EntriesAreFinal
  <2>1. e.post \in 1 .. posts
    BY DEF IInv, TypeOK
  <2> QED BY <2>1 DEF IInv, EntriesAreFinal
<1>2. AppendsExclude'
  BY DEF IInv, AppendsExclude
<1>3. OneEntryPerPost' /\ AttemptsAreContiguous'
  BY DEF IInv, OneEntryPerPost, AttemptsAreContiguous
<1> QED BY <1>1, <1>2, <1>3

\* A step of a post that leaves the ledger and the chain alone.
LEMMA PostMoves ==
    ASSUME IInv, NEW p \in 1 .. posts, Open(p),
           NEW place \in Places \ {"insert"}, Goto(p, place),
           UNCHANGED <<chain, posts, intent, counter, entries>>,
           attempt' \in [1 .. posts -> 0 .. MaxPosts],
           previous' \in [1 .. posts -> 0 .. MaxTime],
           polls' \in [1 .. posts -> 0 .. MaxPolls],
           announced' \in [1 .. posts -> SUBSET {"telegram", "watcher"}],
           known' \in [1 .. posts -> Evidence],
           hash' \in [1 .. posts -> 1 .. posts],
           result' \in [1 .. posts -> [outcome : {"none", "verified", "failed"}, evidence : Evidence]],
           \A q \in 1 .. posts : q # p =>
              attempt'[q] = attempt[q] /\ known'[q] = known[q] /\ result'[q] = result[q]
                 /\ hash'[q] = hash[q],
           result'[p].outcome = "verified" => execution[hash'[p]] = "mined",
           place \in {"check", "submit", "await", "verify"} =>
              at[p] \in {"check", "submit", "await", "verify"} /\ result'[p] = result[p],
           place \in {"announce", "record"} => result'[p].evidence = known'[p],
           place = "verify" => known'[p] = "hash",
           execution' \in [Posts -> {"none", "pending", "mined", "reverted"}],
           \A q \in Posts : execution'[q] = execution[q]
              \/ (q = p /\ execution[q] = "none" /\ execution'[q] = "pending" /\ at[p] = "submit"),
           place \in {"check", "submit"} => at[p] \in {"check", "submit"} /\ execution'[p] = execution[p],
           direct' \in 0 .. MaxDirect, kills' \in 0 .. MaxKills
    PROVE  IInv'
<1>1. /\ at' \in [1 .. posts -> Places] /\ at'[p] = place
      /\ \A q \in 1 .. posts : q # p => at'[q] = at[q]
  BY DEF Goto, IInv, TypeOK
<1>2. TypeOK'
  BY <1>1 DEF IInv, TypeOK, chain
<1>3. MinedIsUsed'
  <2>1. ASSUME NEW q \in Posts, execution'[q] # "none"
        PROVE  q \in 1 .. posts /\ at'[q] \notin {"check", "submit"}
    <3>1. CASE q = p
      BY <1>1, <2>1, <3>1 DEF IInv, MinedIsUsed
    <3>2. CASE q # p
      BY <1>1, <2>1, <3>2 DEF IInv, MinedIsUsed
    <3> QED BY <3>1, <3>2
  <2>2. \A q \in Posts : execution'[q] = "mined" => execution[q] = "mined"
    OBVIOUS
  <2>3. UNCHANGED <<used, intent, posts>>
    BY DEF chain
  <2> QED BY <2>1, <2>2, <2>3 DEF IInv, MinedIsUsed
<1>7. VerifiedIsMined'
  <2> SUFFICES ASSUME NEW q \in 1 .. posts, result'[q].outcome = "verified"
               PROVE  execution'[hash'[q]] = "mined"
    BY DEF VerifiedIsMined
  <2>1. hash'[q] \in Posts
    BY BoundsType DEF IInv
  <2>2. execution[hash'[q]] = "mined"
    <3>1. CASE q = p
      BY <3>1
    <3>2. CASE q # p
      <4>1. result'[q] = result[q] /\ hash'[q] = hash[q]
        BY <3>2
      <4> QED BY <4>1 DEF IInv, VerifiedIsMined
    <3> QED BY <3>1, <3>2
  <2> QED BY <2>1, <2>2
<1>4. ResultIsKnown'
  <2> SUFFICES ASSUME NEW q \in 1 .. posts
               PROVE  /\ at'[q] \in {"announce", "record", "insert"} => result'[q].evidence = known'[q]
                      /\ at'[q] = "verify" => known'[q] = "hash"
    BY DEF ResultIsKnown
  <2>1. CASE q = p
    BY <1>1, <2>1
  <2>2. CASE q # p
    <3>1. at'[q] = at[q] /\ known'[q] = known[q] /\ result'[q] = result[q]
      BY <1>1, <2>2
    <3> QED BY <3>1 DEF IInv, ResultIsKnown
  <2> QED BY <2>1, <2>2
<1>8. UnsettledIsOpen'
  <2> SUFFICES ASSUME NEW q \in 1 .. posts, at'[q] \in {"check", "submit", "await", "verify"}
               PROVE  result'[q].outcome = "none"
    BY DEF UnsettledIsOpen
  <2>1. at[q] \in {"check", "submit", "await", "verify"} /\ result'[q] = result[q]
    BY <1>1
  <2> QED BY <2>1 DEF IInv, UnsettledIsOpen
<1>5. at[p] # "answered"
  BY DEF Open
<1>6. EntriesAreFinal' /\ AppendsExclude' /\ OneEntryPerPost' /\ AttemptsAreContiguous'
  BY <1>1, <1>5, LedgerKept
<1> QED BY <1>2, <1>3, <1>4, <1>6, <1>7, <1>8 DEF IInv

LEMMA BeginAppendStep ==
    ASSUME IInv, NEW p \in 1 .. posts, BeginAppend(p)
    PROVE  IInv'
<1>1. /\ at[p] = "record" /\ at' = [at EXCEPT ![p] = "insert"]
      /\ \A q \in 1 .. posts : intent[q] = intent[p] => at[q] # "insert"
      /\ attempt' = [attempt EXCEPT ![p] = counter[intent[p]] + 1]
      /\ UNCHANGED <<chain, posts, intent, previous, polls, execution, known, hash, result, announced,
                     counter, entries, direct, kills>>
  BY DEF BeginAppend, AllocateAttempt, Goto
<1>2. counter[intent[p]] \in Nat /\ counter[intent[p]] + 1 <= posts
  BY <1>1, AttemptIsBounded
<1>3. counter[intent[p]] + 1 \in 0 .. MaxPosts
  BY <1>2, BoundsType DEF IInv
<1>4. /\ at' \in [1 .. posts -> Places] /\ at'[p] = "insert"
      /\ \A q \in 1 .. posts : q # p => at'[q] = at[q]
  BY <1>1 DEF IInv, TypeOK, Places
<1>5. /\ attempt' \in [1 .. posts -> 0 .. MaxPosts] /\ attempt'[p] = counter[intent[p]] + 1
      /\ \A q \in 1 .. posts : q # p => attempt'[q] = attempt[q]
  BY <1>1, <1>3 DEF IInv, TypeOK
<1>6. TypeOK'
  BY <1>1, <1>4, <1>5 DEF IInv, TypeOK, chain
<1>7. MinedIsUsed' /\ VerifiedIsMined'
  BY <1>1, <1>4 DEF IInv, MinedIsUsed, VerifiedIsMined, chain
<1>8. ResultIsKnown' /\ UnsettledIsOpen'
  BY <1>1, <1>4 DEF IInv, ResultIsKnown, UnsettledIsOpen
<1>9. EntriesAreFinal'
  <2> SUFFICES ASSUME NEW e \in entries
               PROVE  at'[e.post] = "answered" /\ e.evidence = known'[e.post]
    BY <1>1 DEF EntriesAreFinal
  <2>1. e.post \in 1 .. posts /\ at[e.post] = "answered" /\ e.evidence = known[e.post]
    BY DEF IInv, TypeOK, EntriesAreFinal
  <2> QED BY <1>1, <1>4, <2>1
<1>10. AppendsExclude'
  BY <1>1, <1>4, <1>5 DEF IInv, AppendsExclude
<1>11. OneEntryPerPost' /\ AttemptsAreContiguous'
  BY <1>1 DEF IInv, OneEntryPerPost, AttemptsAreContiguous
<1> QED BY <1>6, <1>7, <1>8, <1>9, <1>10, <1>11 DEF IInv

\* The entry of an append takes the number after the last, and nobody else's.
LEMMA InsertEntryStep ==
    ASSUME IInv, NEW p \in 1 .. posts, InsertEntry(p)
    PROVE  IInv'
<1> DEFINE i == intent[p]
           entry == [key |-> intent[p], attempt |-> attempt[p], post |-> p,
                     outcome |-> result[p].outcome, evidence |-> result[p].evidence]
<1>1. /\ at[p] = "insert" /\ at' = [at EXCEPT ![p] = "answered"]
      /\ counter' = [counter EXCEPT ![i] = attempt[p]]
      /\ entries' = entries \cup {entry}
      /\ attempt' = [attempt EXCEPT ![p] = 0]
      /\ UNCHANGED <<chain, posts, intent, previous, polls, execution, known, hash, result, announced,
                     direct, kills>>
  BY DEF InsertEntry, Goto
<1>2. /\ i \in Intents /\ counter[i] \in Nat /\ counter[i] + 1 <= posts
      /\ posts \in Nat /\ MaxPosts \in Nat /\ posts <= MaxPosts
  BY <1>1, AttemptIsBounded, BoundsType DEF IInv
<1>3. attempt[p] = counter[i] + 1 /\ \A q \in 1 .. posts : q # p /\ intent[q] = i => at[q] # "insert"
  BY <1>1 DEF IInv, AppendsExclude
<1>4. /\ at' \in [1 .. posts -> Places] /\ at'[p] = "answered"
      /\ \A q \in 1 .. posts : q # p => at'[q] = at[q]
  BY <1>1 DEF IInv, TypeOK, Places
<1>5. /\ counter' \in [Intents -> 0 .. posts] /\ counter'[i] = counter[i] + 1
      /\ \A j \in Intents : j # i => counter'[j] = counter[j]
  BY <1>1, <1>2, <1>3 DEF IInv, TypeOK
<1>6. /\ attempt' \in [1 .. posts -> 0 .. MaxPosts]
      /\ \A q \in 1 .. posts : q # p => attempt'[q] = attempt[q]
  <2>1. attempt \in [1 .. posts -> 0 .. MaxPosts] /\ attempt' = [attempt EXCEPT ![p] = 0]
    BY <1>1 DEF IInv, TypeOK
  <2>2. 0 \in 0 .. MaxPosts
    BY <1>2
  <2> QED BY <2>1, <2>2
<1>7. entry.key = i /\ entry.attempt = counter[i] + 1 /\ entry.post = p /\ entry.evidence = result[p].evidence
  BY <1>3
<1> HIDE DEF entry
<1>8. TypeOK'
  <2>1. ASSUME NEW e \in entries'
        PROVE  e.key \in Intents /\ e.attempt \in 1 .. counter'[e.key] /\ e.post \in 1 .. posts
    <3>1. CASE e = entry
      BY <1>2, <1>5, <1>7, <3>1
    <3>2. CASE e \in entries
      <4>1. e.key \in Intents /\ e.attempt \in 1 .. counter[e.key] /\ e.post \in 1 .. posts
        BY <3>2 DEF IInv, TypeOK
      <4>2. counter[e.key] \in Nat /\ counter'[e.key] \in Nat /\ counter[e.key] <= counter'[e.key]
        <5>1. counter \in [Intents -> 0 .. posts]
          BY DEF IInv, TypeOK
        <5>2. counter[e.key] \in 0 .. posts /\ counter'[e.key] \in 0 .. posts
          BY <1>5, <4>1, <5>1
        <5> QED BY <1>2, <1>5, <4>1, <5>2
      <4> QED BY <4>1, <4>2
    <3> QED BY <1>1, <2>1, <3>1, <3>2
  <2> QED BY <1>1, <1>4, <1>5, <1>6, <2>1 DEF IInv, TypeOK, chain
<1>9. MinedIsUsed' /\ VerifiedIsMined'
  BY <1>1, <1>4 DEF IInv, MinedIsUsed, VerifiedIsMined, chain
<1>10. ResultIsKnown' /\ UnsettledIsOpen'
  BY <1>1, <1>4 DEF IInv, ResultIsKnown, UnsettledIsOpen
<1>11. EntriesAreFinal'
  <2> SUFFICES ASSUME NEW e \in entries'
               PROVE  at'[e.post] = "answered" /\ e.evidence = known'[e.post]
    BY DEF EntriesAreFinal
  <2>1. CASE e = entry
    BY <1>1, <1>4, <1>7, <2>1 DEF IInv, ResultIsKnown
  <2>2. CASE e \in entries
    <3>1. e.post \in 1 .. posts /\ at[e.post] = "answered" /\ e.evidence = known[e.post]
      BY <2>2 DEF IInv, TypeOK, EntriesAreFinal
    <3> QED BY <1>1, <1>4, <3>1
  <2> QED BY <1>1, <2>1, <2>2
<1>12. AppendsExclude'
  <2> SUFFICES ASSUME NEW q \in 1 .. posts, at'[q] = "insert"
               PROVE  /\ attempt'[q] = counter'[intent[q]] + 1
                      /\ \A r \in 1 .. posts : r # q /\ intent[r] = intent[q] => at'[r] # "insert"
    BY <1>1 DEF AppendsExclude
  <2>1. q # p /\ at[q] = "insert"
    BY <1>4
  <2>2. intent[q] # i /\ intent[q] \in Intents
    BY <1>3, <2>1, BoundsType DEF IInv
  <2>3. /\ attempt[q] = counter[intent[q]] + 1
        /\ \A r \in 1 .. posts : r # q /\ intent[r] = intent[q] => at[r] # "insert"
    BY <2>1 DEF IInv, AppendsExclude
  <2> QED BY <1>4, <1>5, <1>6, <2>1, <2>2, <2>3
<1>13. OneEntryPerPost'
  <2>1. IsFiniteSet(entries')
    BY <1>1, FS_AddElement DEF IInv, OneEntryPerPost
  <2>2. \A e \in entries : e.post # p
    BY <1>1 DEF IInv, EntriesAreFinal
  <2> QED BY <1>1, <1>7, <2>1, <2>2 DEF IInv, OneEntryPerPost
<1>14. AttemptsAreContiguous'
  <2> DEFINE Of(E, j) == {e \in E : e.key = j}
  <2>1. \A j \in Intents : /\ {e.attempt : e \in Of(entries, j)} = 1 .. counter[j]
                           /\ Cardinality(Of(entries, j)) = counter[j]
    BY DEF IInv, AttemptsAreContiguous
  <2>2. ASSUME NEW j \in Intents
        PROVE  /\ {e.attempt : e \in Of(entries', j)} = 1 .. counter'[j]
               /\ Cardinality(Of(entries', j)) = counter'[j]
    <3>1. CASE j # i
      <4>1. Of(entries', j) = Of(entries, j)
        BY <1>1, <1>7, <3>1
      <4> HIDE DEF Of
      <4> QED BY <1>5, <2>1, <3>1, <4>1
    <3>2. CASE j = i
      <4>1. Of(entries', i) = Of(entries, i) \cup {entry}
        BY <1>1, <1>7
      <4>2. IsFiniteSet(Of(entries, i))
        BY FS_Subset DEF IInv, OneEntryPerPost
      <4>3. entry \notin Of(entries, i)
        BY <1>1, <1>7 DEF IInv, EntriesAreFinal
      <4>4. Cardinality(Of(entries', i)) = counter[i] + 1
        <5> DEFINE before == Of(entries, i)
        <5>1. Cardinality(before) = counter[i]
          BY <1>2, <2>1
        <5>2. /\ IsFiniteSet(before) /\ entry \notin before
              /\ Of(entries', i) = before \cup {entry}
          BY <4>1, <4>2, <4>3
        <5> HIDE DEF Of, before, entry
        <5> QED BY <5>1, <5>2, FS_AddElement
      <4>5. {e.attempt : e \in Of(entries', i)} = {e.attempt : e \in Of(entries, i)} \cup {counter[i] + 1}
        <5> HIDE DEF Of
        <5> QED BY <1>7, <4>1
      <4>6. 1 .. (counter[i] + 1) = (1 .. counter[i]) \cup {counter[i] + 1}
        BY <1>2
      <4> HIDE DEF Of
      <4> QED BY <1>2, <1>5, <2>1, <3>2, <4>4, <4>5, <4>6
    <3> QED BY <3>1, <3>2
  <2> QED BY <2>2 DEF AttemptsAreContiguous
<1> QED BY <1>8, <1>9, <1>10, <1>11, <1>12, <1>13, <1>14 DEF IInv
-----------------------------------------------------------------------------
(* A post, step by step.                                                   *)

\* What a post knows and what becomes of it.
LEMMA SettleType ==
    ASSUME TypeOK, NEW p \in 1 .. posts,
           NEW outcome \in {"verified", "failed"}, NEW evidence \in Evidence,
           Settle(p, outcome, evidence)
    PROVE  /\ result' \in [1 .. posts -> [outcome : {"none", "verified", "failed"}, evidence : Evidence]]
           /\ result'[p].outcome = outcome /\ result'[p].evidence = evidence
           /\ \A q \in 1 .. posts : q # p => result'[q] = result[q]
BY DEF TypeOK, Settle

LEMMA FailType ==
    ASSUME TypeOK, NEW p \in 1 .. posts, Fail(p)
    PROVE  /\ result' \in [1 .. posts -> [outcome : {"none", "verified", "failed"}, evidence : Evidence]]
           /\ result'[p].outcome = "failed" /\ result'[p].evidence = known[p]
           /\ \A q \in 1 .. posts : q # p => result'[q] = result[q]
           /\ Goto(p, "record")
<1>1. known[p] \in Evidence
  BY DEF TypeOK
<1> QED BY <1>1, SettleType DEF Fail

LEMMA ServeStep ==
    ASSUME IInv, NEW p \in 1 .. posts, Serve(p) \/ Kill(p)
    PROVE  IInv'
<1>1. /\ TypeOK
      /\ attempt \in [1 .. posts -> 0 .. MaxPosts]
      /\ previous \in [1 .. posts -> 0 .. MaxTime]
      /\ polls \in [1 .. posts -> 0 .. MaxPolls]
      /\ announced \in [1 .. posts -> SUBSET {"telegram", "watcher"}]
      /\ known \in [1 .. posts -> Evidence] /\ hash \in [1 .. posts -> 1 .. posts]
      /\ result \in [1 .. posts -> [outcome : {"none", "verified", "failed"}, evidence : Evidence]]
      /\ result[p].outcome = "verified" => execution[hash[p]] = "mined"
      /\ execution \in [Posts -> {"none", "pending", "mined", "reverted"}]
      /\ direct \in 0 .. MaxDirect /\ kills \in 0 .. MaxKills
      /\ at \in [1 .. posts -> Places]
  BY DEF IInv, TypeOK, VerifiedIsMined
<1>2. /\ {"check", "submit", "await", "verify", "announce", "record", "answered", "dead"} \subseteq Places \ {"insert"}
      /\ "hash" \in Evidence /\ "id" \in Evidence /\ "nothing" \in Evidence
  BY DEF Places, Evidence
<1>3. /\ p \in Posts /\ 0 \in 0 .. MaxTime /\ 0 \in 0 .. MaxPolls /\ 0 \in 0 .. MaxPosts
      /\ MaxPolls \in Nat /\ MaxKills \in Nat
  BY BoundsType DEF IInv
<1>4. CASE Check(p)
  <2>1. /\ at[p] = "check" /\ Open(p)
        /\ UNCHANGED <<chain, posts, intent, polls, execution, known, hash, announced, ledger, direct, kills>>
    BY <1>4 DEF Check, Open
  <2>2. CASE Fail(p) /\ UNCHANGED previous
    BY <1>1, <1>2, <2>1, <2>2, FailType, PostMoves DEF ledger
  <2>3. CASE Goto(p, "submit") /\ previous' = [previous EXCEPT ![p] = plan.heartbeat] /\ UNCHANGED result
    <3>1. plan.heartbeat \in 0 .. MaxTime
      BY <1>1 DEF TypeOK
    <3>2. previous' \in [1 .. posts -> 0 .. MaxTime]
      BY <1>1, <2>3, <3>1
    <3> QED BY <1>1, <1>2, <2>1, <2>3, <3>2, PostMoves DEF ledger
  <2> QED BY <1>4, <2>2, <2>3 DEF Check
<1>5. CASE Submit(p)
  <2>1. /\ at[p] = "submit" /\ Open(p)
        /\ UNCHANGED <<chain, posts, intent, previous, polls, hash, announced, ledger, direct, kills>>
    BY <1>5 DEF Submit, Open
  <2>2. ASSUME execution' = [execution EXCEPT ![p] = "pending"] \/ execution' = execution
        PROVE  /\ execution' \in [Posts -> {"none", "pending", "mined", "reverted"}]
               /\ \A q \in Posts : execution'[q] = execution[q]
                     \/ (q = p /\ execution[q] = "none" /\ execution'[q] = "pending" /\ at[p] = "submit")
    <3>1. execution[p] = "none"
      BY <1>3, <2>1 DEF IInv, MinedIsUsed
    <3> QED BY <1>1, <1>3, <2>1, <2>2, <3>1
  <2>3. CASE /\ execution' = [execution EXCEPT ![p] = "pending"]
             /\ known' = [known EXCEPT ![p] = "id"] /\ Goto(p, "await") /\ UNCHANGED result
    <3>1. known' \in [1 .. posts -> Evidence] /\ \A q \in 1 .. posts : q # p => known'[q] = known[q]
      BY <1>1, <1>2, <2>3
    <3> QED BY <1>1, <1>2, <2>1, <2>2, <2>3, <3>1, PostMoves DEF ledger
  <2>4. CASE /\ execution' = [execution EXCEPT ![p] = "pending"] \/ execution' = execution
             /\ Fail(p) /\ UNCHANGED known
    BY <1>1, <1>2, <2>1, <2>2, <2>4, FailType, PostMoves DEF ledger
  <2> QED BY <1>5, <2>3, <2>4 DEF Submit
<1>6. CASE Await(p)
  <2>1. /\ at[p] = "await" /\ Open(p)
        /\ UNCHANGED <<chain, posts, intent, previous, execution, announced, ledger, direct, kills>>
    BY <1>6 DEF Await, Open
  <2>2. CASE PollAgain(p)
    <3>1. Goto(p, "await") /\ UNCHANGED <<known, hash, result>>
      BY <1>1, <2>1, <2>2 DEF PollAgain, Goto
    <3>2. polls' \in [1 .. posts -> 0 .. MaxPolls]
      BY <1>1, <1>3, <2>2 DEF PollAgain
    <3> QED BY <1>1, <1>2, <2>1, <3>1, <3>2, PostMoves DEF ledger
  <2>3. CASE PollSettles(p)
    <3>1. polls' \in [1 .. posts -> 0 .. MaxPolls]
      BY <1>1, <1>3, <2>3 DEF PollSettles
    <3>2. /\ known' \in [1 .. posts -> Evidence] /\ known'[p] = "hash"
          /\ \A q \in 1 .. posts : q # p => known'[q] = known[q]
      BY <1>1, <1>2, <2>3 DEF PollSettles
    <3>3. Goto(p, "verify") /\ UNCHANGED result
      BY <2>3 DEF PollSettles
    <3>4. /\ hash' \in [1 .. posts -> 1 .. posts]
          /\ \A q \in 1 .. posts : q # p => hash'[q] = hash[q]
      BY <1>1, <2>3 DEF PollSettles
    <3>5. result[p].outcome # "verified"
      BY <2>1 DEF IInv, UnsettledIsOpen
    <3> QED BY <1>1, <1>2, <2>1, <3>1, <3>2, <3>3, <3>4, <3>5, PostMoves DEF ledger
  <2>4. CASE PollFails(p)
    <3>1. polls' \in [1 .. posts -> 0 .. MaxPolls] /\ Fail(p) /\ UNCHANGED <<known, hash>>
      BY <1>1, <1>3, <2>4 DEF PollFails
    <3> QED BY <1>1, <1>2, <2>1, <3>1, FailType, PostMoves DEF ledger
  <2> QED BY <1>6, <2>2, <2>3, <2>4 DEF Await
<1>7. CASE Verify(p)
  <2>1. /\ at[p] = "verify" /\ Open(p)
        /\ UNCHANGED <<chain, posts, intent, polls, execution, known, announced, ledger, direct, kills>>
    BY <1>7 DEF Verify, Open
  <2>2. previous' \in [1 .. posts -> 0 .. MaxTime]
    BY <1>1, <1>3, <1>7 DEF Verify
  <2>3. CASE Proven(p) /\ Settle(p, "verified", "hash") /\ Goto(p, "announce") /\ UNCHANGED hash
    <3>1. known[p] = "hash"
      BY <2>1 DEF IInv, ResultIsKnown
    <3>2. execution[hash[p]] = "mined"
      BY <2>3 DEF Proven, EventFound
    <3> QED BY <1>1, <1>2, <2>1, <2>2, <2>3, <3>1, <3>2, SettleType, PostMoves DEF ledger
  <2>4. CASE Fail(p) /\ hash' = [hash EXCEPT ![p] = p]
    <3>1. /\ hash' \in [1 .. posts -> 1 .. posts]
          /\ \A q \in 1 .. posts : q # p => hash'[q] = hash[q]
      BY <1>1, <2>4
    <3>2. /\ result' \in [1 .. posts -> [outcome : {"none", "verified", "failed"}, evidence : Evidence]]
          /\ result'[p].outcome = "failed" /\ result'[p].evidence = known[p] /\ Goto(p, "record")
          /\ \A q \in 1 .. posts : q # p => result'[q] = result[q]
      BY <1>1, <2>4, FailType
    <3>3. /\ UNCHANGED <<chain, posts, intent, polls, execution, known, announced, direct, kills>>
          /\ UNCHANGED <<counter, entries, attempt>>
      BY <2>1 DEF ledger
    <3>4. "record" \in Places \ {"insert"} /\ execution' = execution /\ Open(p)
      BY <1>2, <2>1, <3>3
    <3>5. /\ attempt' \in [1 .. posts -> 0 .. MaxPosts] /\ polls' \in [1 .. posts -> 0 .. MaxPolls]
          /\ announced' \in [1 .. posts -> SUBSET {"telegram", "watcher"}]
          /\ known' \in [1 .. posts -> Evidence]
          /\ execution' \in [Posts -> {"none", "pending", "mined", "reverted"}]
          /\ direct' \in 0 .. MaxDirect /\ kills' \in 0 .. MaxKills
      BY <1>1, <3>3
    <3>6. \A q \in 1 .. posts : q # p => attempt'[q] = attempt[q] /\ known'[q] = known[q]
      BY <3>3
    <3> QED BY SMTT(30), <2>2, <3>1, <3>2, <3>3, <3>4, <3>5, <3>6, PostMoves
  <2> QED BY <1>7, <2>3, <2>4 DEF Verify
<1>8. CASE Announce(p)
  <2>1. /\ at[p] = "announce" /\ Open(p)
        /\ UNCHANGED <<chain, posts, intent, previous, polls, execution, known, hash, result, ledger, direct, kills>>
    BY <1>8 DEF Announce, Open
  <2>2. PICK a \in Audience(intent[p]) \ announced[p] : announced' = [announced EXCEPT ![p] = @ \cup {a}]
    BY <1>8 DEF Announce
  <2>3. announced' \in [1 .. posts -> SUBSET {"telegram", "watcher"}]
    <3>1. a \in {"telegram", "watcher"}
      BY <2>2 DEF Audience
    <3> QED BY <1>1, <2>2, <3>1
  <2>4. PICK place \in {"record", "announce"} : Goto(p, place)
    BY <1>1, <1>8, <2>1 DEF Announce, Goto
  <2>5. result[p].evidence = known[p]
    BY <2>1 DEF IInv, ResultIsKnown
  <2> QED BY <1>1, <1>2, <2>1, <2>3, <2>4, <2>5, PostMoves DEF ledger
<1>9. CASE AppendFails(p)
  <2>1. /\ Open(p) /\ Goto(p, "answered")
        /\ UNCHANGED <<chain, posts, intent, previous, polls, execution, known, hash, result, announced,
                       counter, entries, direct, kills>>
    BY <1>9 DEF AppendFails, Open
  <2>2. /\ attempt' \in [1 .. posts -> 0 .. MaxPosts]
        /\ \A q \in 1 .. posts : q # p => attempt'[q] = attempt[q]
    BY <1>1, <1>3, <1>9 DEF AppendFails
  <2> QED BY <1>1, <1>2, <2>1, <2>2, PostMoves
<1>10. CASE Kill(p)
  <2>1. /\ Open(p) /\ Goto(p, "dead")
        /\ UNCHANGED <<chain, posts, intent, execution, counter, entries, direct>>
    BY <1>10 DEF Kill
  <2>2. kills' \in 0 .. MaxKills
    BY <1>1, <1>3, <1>10 DEF Kill
  <2>3. /\ attempt' \in [1 .. posts -> 0 .. MaxPosts]
        /\ previous' \in [1 .. posts -> 0 .. MaxTime]
        /\ polls' \in [1 .. posts -> 0 .. MaxPolls]
        /\ announced' \in [1 .. posts -> SUBSET {"telegram", "watcher"}]
    BY <1>1, <1>3, <1>10 DEF Kill
  <2>4. /\ known' \in [1 .. posts -> Evidence]
        /\ result' \in [1 .. posts -> [outcome : {"none", "verified", "failed"}, evidence : Evidence]]
        /\ \A q \in 1 .. posts : q # p =>
              attempt'[q] = attempt[q] /\ known'[q] = known[q] /\ result'[q] = result[q]
                 /\ hash'[q] = hash[q]
        /\ hash' \in [1 .. posts -> 1 .. posts] /\ result'[p].outcome = "none"
    BY <1>1, <1>2, <1>10 DEF Kill, NoResult
  <2> QED BY <1>1, <1>2, <2>1, <2>2, <2>3, <2>4, PostMoves
<1> QED BY <1>4, <1>5, <1>6, <1>7, <1>8, <1>9, <1>10, BeginAppendStep, InsertEntryStep DEF Serve
-----------------------------------------------------------------------------
(* The plan, time and new posts.                                           *)

Plans == [created : BOOLEAN, policy : Policies, key : Keys, heartbeat : 0 .. MaxTime,
          active : BOOLEAN, evacuated : BOOLEAN]

\* What a signed intent does leaves a plan.
LEMMA AppliedType ==
    ASSUME TypeOK, NEW i \in Intents
    PROVE  Applied(i) \in Plans
<1>1. plan \in Plans /\ time \in 0 .. MaxTime
  BY DEF TypeOK, Plans
<1>2. /\ i.action \in Actions
      /\ i.action = "configurePlan" => i.value \in Policies
      /\ i.action \in {"createPlan", "recovery"} => i.value \in Keys
  BY RoutesAssumption
<1>3. CASE i.action = "createPlan"
  BY <1>1, <1>2, <1>3 DEF Applied, Plans
<1>4. CASE i.action = "configurePlan"
  BY <1>1, <1>2, <1>4 DEF Applied, Plans
<1>5. CASE i.action = "recovery"
  BY <1>1, <1>2, <1>5 DEF Applied, Plans
<1>6. CASE i.action = "heartbeatBySig"
  BY <1>1, <1>6 DEF Applied, Plans
<1>7. CASE i.action = "evacuate"
  BY <1>1, <1>7 DEF Applied, Plans
<1> QED BY <1>2, <1>3, <1>4, <1>5, <1>6, <1>7 DEF Actions

\* The chain moves beneath the posts.
LEMMA ChainMoves ==
    ASSUME IInv, plan' \in Plans, used \subseteq used', used' \subseteq Intents,
           time' \in 0 .. MaxTime, direct' \in 0 .. MaxDirect,
           UNCHANGED <<posts, intent, at, previous, polls, known, hash, result, announced, ledger, kills>>,
           execution' \in [Posts -> {"none", "pending", "mined", "reverted"}],
           \A q \in Posts : execution'[q] = execution[q]
              \/ (execution[q] = "pending" /\ execution'[q] = "reverted")
              \/ /\ execution[q] = "pending" /\ execution'[q] = "mined"
                 /\ intent[q] \notin used /\ intent[q] \in used'
                 /\ \A r \in Posts : r # q => execution'[r] = execution[r]
    PROVE  IInv'
<1>1. TypeOK'
  BY DEF IInv, TypeOK, ledger, Plans
<1>2. MinedIsUsed'
  BY DEF IInv, MinedIsUsed
<1>5. VerifiedIsMined'
  <2>1. \A q \in 1 .. posts : hash[q] \in Posts
    BY BoundsType DEF IInv, TypeOK
  <2> QED BY <2>1 DEF IInv, VerifiedIsMined
<1>3. ResultIsKnown' /\ UnsettledIsOpen'
  BY DEF IInv, ResultIsKnown, UnsettledIsOpen
<1>4. EntriesAreFinal' /\ AppendsExclude' /\ OneEntryPerPost' /\ AttemptsAreContiguous'
  BY LedgerKept DEF ledger
<1> QED BY <1>1, <1>2, <1>3, <1>4, <1>5 DEF IInv

LEMMA MineStep ==
    ASSUME IInv, NEW p \in 1 .. posts, Mine(p)
    PROVE  IInv'
<1>1. /\ TypeOK /\ intent[p] \in Intents /\ p \in Posts
      /\ execution \in [Posts -> {"none", "pending", "mined", "reverted"}]
      /\ plan \in Plans /\ used \subseteq Intents /\ time \in 0 .. MaxTime /\ direct \in 0 .. MaxDirect
  BY BoundsType DEF IInv, TypeOK, Plans
<1>2. UNCHANGED <<time, posts, intent, at, previous, polls, known, hash, result, announced, ledger, direct, kills>>
  BY DEF Mine
<1>3. CASE Executable(intent[p])
  <2>1. /\ plan' = Applied(intent[p]) /\ used' = used \cup {intent[p]}
        /\ execution' = [execution EXCEPT ![p] = "mined"]
    BY <1>3 DEF Mine
  <2>2. plan' \in Plans
    BY <1>1, <2>1, AppliedType
  <2>3. execution[p] = "pending" /\ intent[p] \notin used
    BY <1>3 DEF Mine, Executable
  <2> QED BY <1>1, <1>2, <2>1, <2>2, <2>3, ChainMoves
<1>4. CASE ~Executable(intent[p])
  <2>1. execution' = [execution EXCEPT ![p] = "reverted"] /\ UNCHANGED <<plan, used>>
    BY <1>4 DEF Mine
  <2>2. execution[p] = "pending"
    BY DEF Mine
  <2> QED BY <1>1, <1>2, <2>1, <2>2, ChainMoves
<1> QED BY <1>3, <1>4

LEMMA OwnerActsStep ==
    ASSUME IInv, OwnerActs
    PROVE  IInv'
<1>1. plan \in Plans /\ time \in 0 .. MaxTime
  BY DEF IInv, TypeOK, Plans
<1>2. plan' \in Plans
  BY <1>1 DEF OwnerActs, Plans
<1>3. direct' \in 0 .. MaxDirect
  BY RoutesAssumption DEF OwnerActs, IInv, TypeOK
<1> QED BY <1>2, <1>3, ChainMoves DEF OwnerActs, IInv, TypeOK

LEMMA TickStep ==
    ASSUME IInv, Tick
    PROVE  IInv'
<1>1. time' \in 0 .. MaxTime
  BY RoutesAssumption DEF Tick, IInv, TypeOK
<1> QED BY <1>1, ChainMoves DEF Tick, IInv, TypeOK, Plans

\* A new post knows nothing and disturbs nobody.
LEMMA ReceiveStep ==
    ASSUME IInv, Receive
    PROVE  IInv'
<1>1. /\ posts \in Nat /\ MaxPosts \in Nat /\ posts < MaxPosts /\ posts' = posts + 1
      /\ UNCHANGED <<chain, execution, counter, entries, direct, kills>>
  BY BoundsType DEF IInv, Receive
<1>2. posts' \in 0 .. MaxPosts /\ 1 .. posts' = (1 .. posts) \cup {posts'} /\ posts' \notin 1 .. posts
  BY <1>1
<1>3. PICK i \in Intents : intent' = [p \in 1 .. posts' |-> IF p = posts' THEN i ELSE intent[p]]
  BY DEF Receive
<1>4. /\ intent' \in [1 .. posts' -> Intents] /\ \A p \in 1 .. posts : intent'[p] = intent[p]
  BY <1>2, <1>3 DEF IInv, TypeOK
<1>5. /\ at' \in [1 .. posts' -> Places] /\ at'[posts'] = "check"
      /\ \A p \in 1 .. posts : at'[p] = at[p]
  <2>1. "check" \in Places
    BY DEF Places
  <2>2. at' = [p \in 1 .. posts' |-> IF p = posts' THEN "check" ELSE at[p]]
    BY DEF Receive
  <2> QED BY <1>2, <2>1, <2>2 DEF IInv, TypeOK
<1>6. /\ 0 \in 0 .. MaxTime /\ 0 \in 0 .. MaxPolls /\ 0 \in 0 .. MaxPosts
  BY RoutesAssumption
<1>7. /\ previous' \in [1 .. posts' -> 0 .. MaxTime] /\ polls' \in [1 .. posts' -> 0 .. MaxPolls]
  <2>1. /\ previous' = [p \in 1 .. posts' |-> IF p = posts' THEN 0 ELSE previous[p]]
        /\ polls' = [p \in 1 .. posts' |-> IF p = posts' THEN 0 ELSE polls[p]]
    BY DEF Receive
  <2> QED BY <1>2, <1>6, <2>1 DEF IInv, TypeOK
<1>8. /\ attempt' \in [1 .. posts' -> 0 .. MaxPosts] /\ \A p \in 1 .. posts : attempt'[p] = attempt[p]
  <2>1. attempt' = [p \in 1 .. posts' |-> IF p = posts' THEN 0 ELSE attempt[p]]
    BY DEF Receive
  <2> QED BY <1>2, <1>6, <2>1 DEF IInv, TypeOK
<1>9. /\ known' \in [1 .. posts' -> Evidence] /\ \A p \in 1 .. posts : known'[p] = known[p]
  <2>1. known' = [p \in 1 .. posts' |-> IF p = posts' THEN "nothing" ELSE known[p]]
    BY DEF Receive
  <2>2. "nothing" \in Evidence
    BY DEF Evidence
  <2> QED BY <1>2, <2>1, <2>2 DEF IInv, TypeOK
<1>10. /\ result' \in [1 .. posts' -> [outcome : {"none", "verified", "failed"}, evidence : Evidence]]
       /\ \A p \in 1 .. posts : result'[p] = result[p]
  <2>1. result' = [p \in 1 .. posts' |-> IF p = posts' THEN NoResult ELSE result[p]]
    BY DEF Receive
  <2>2. NoResult \in [outcome : {"none", "verified", "failed"}, evidence : Evidence]
    BY DEF NoResult, Evidence
  <2> QED BY <1>2, <2>1, <2>2 DEF IInv, TypeOK
<1>11. announced' \in [1 .. posts' -> SUBSET {"telegram", "watcher"}]
  <2>1. announced' = [p \in 1 .. posts' |-> IF p = posts' THEN {} ELSE announced[p]]
    BY DEF Receive
  <2> QED BY <1>2, <2>1 DEF IInv, TypeOK
<1>12. counter' \in [Intents -> 0 .. posts']
  <2>1. counter \in [Intents -> 0 .. posts] /\ 0 .. posts \subseteq 0 .. posts'
    BY <1>1 DEF IInv, TypeOK
  <2> QED BY <1>1, <2>1
<1>13. \A e \in entries' : e.key \in Intents /\ e.attempt \in 1 .. counter'[e.key] /\ e.post \in 1 .. posts'
  BY <1>1, <1>2 DEF IInv, TypeOK
<1>18. /\ hash' \in [1 .. posts' -> 1 .. posts'] /\ \A p \in 1 .. posts : hash'[p] = hash[p]
  <2>1. hash' = [p \in 1 .. posts' |-> IF p = posts' THEN p ELSE hash[p]]
    BY DEF Receive
  <2> QED BY <1>2, <2>1 DEF IInv, TypeOK
<1>14. TypeOK'
  BY <1>1, <1>2, <1>4, <1>5, <1>7, <1>8, <1>9, <1>10, <1>11, <1>12, <1>13, <1>18 DEF IInv, TypeOK, chain
<1>19. /\ result'[posts'] = NoResult /\ execution[posts'] = "none"
  <2>1. result'[posts'] = NoResult
    BY <1>2 DEF Receive
  <2>2. posts' \in Posts
    BY <1>1 DEF Posts
  <2> QED BY <1>2, <2>1, <2>2 DEF IInv, MinedIsUsed
<1>15. MinedIsUsed'
  BY <1>1, <1>2, <1>4, <1>5 DEF IInv, MinedIsUsed, chain
<1>20. VerifiedIsMined'
  <2> SUFFICES ASSUME NEW p \in 1 .. posts', result'[p].outcome = "verified"
               PROVE  execution'[hash'[p]] = "mined"
    BY DEF VerifiedIsMined
  <2>1. p \in 1 .. posts
    <3>1. p # posts'
      BY <1>19 DEF NoResult
    <3> QED BY <1>2, <3>1
  <2>2. result'[p] = result[p] /\ hash'[p] = hash[p]
    BY <1>10, <1>18, <2>1
  <2> QED BY <1>1, <2>1, <2>2 DEF IInv, VerifiedIsMined
<1>16. ResultIsKnown'
  BY <1>2, <1>5, <1>9, <1>10 DEF IInv, ResultIsKnown
<1>21. UnsettledIsOpen'
  BY <1>2, <1>5, <1>10, <1>19 DEF IInv, UnsettledIsOpen, NoResult
<1>17. EntriesAreFinal' /\ AppendsExclude' /\ OneEntryPerPost' /\ AttemptsAreContiguous'
  BY <1>1, <1>2, <1>4, <1>5, <1>8, <1>9, LedgerKept
<1> QED BY <1>14, <1>15, <1>16, <1>17, <1>20, <1>21 DEF IInv

\* The invariant of the routes: types, one mined transaction per signature,
\* verified posts that have seen one, entries that tell what was known, and gapless numbers.
LEMMA Invariance == Spec => []IInv
<1>1. Init => IInv
  <2> SUFFICES ASSUME Init PROVE IInv
    OBVIOUS
  <2>1. /\ 0 \in 0 .. MaxTime /\ 0 \in 0 .. MaxPosts /\ 0 \in 0 .. MaxDirect /\ 0 \in 0 .. MaxKills
        /\ 1 .. 0 = {} /\ posts = 0
    BY RoutesAssumption DEF Init
  <2>2. plan \in Plans
    BY <2>1, RoutesAssumption DEF Init, Plans
  <2>3. \A S : << >> \in [1 .. 0 -> S]
    BY <2>1
  <2>4. entries = {} /\ counter = [i \in Intents |-> 0] /\ execution = [p \in Posts |-> "none"]
    BY DEF Init
  <2>5. TypeOK
    <3>1. /\ intent \in [1 .. posts -> Intents] /\ at \in [1 .. posts -> Places]
          /\ previous \in [1 .. posts -> 0 .. MaxTime] /\ polls \in [1 .. posts -> 0 .. MaxPolls]
          /\ known \in [1 .. posts -> Evidence] /\ hash \in [1 .. posts -> 1 .. posts]
          /\ result \in [1 .. posts -> [outcome : {"none", "verified", "failed"}, evidence : Evidence]]
          /\ announced \in [1 .. posts -> SUBSET {"telegram", "watcher"}]
          /\ attempt \in [1 .. posts -> 0 .. MaxPosts]
      BY <2>3 DEF Init
    <3>2. /\ counter \in [Intents -> 0 .. posts]
          /\ execution \in [Posts -> {"none", "pending", "mined", "reverted"}]
      BY <2>1, <2>4
    <3>3. \A e \in entries : e.key \in Intents /\ e.attempt \in 1 .. counter[e.key] /\ e.post \in 1 .. posts
      BY <2>4
    <3>4. /\ used \subseteq Intents /\ time \in 0 .. MaxTime /\ posts \in 0 .. MaxPosts
          /\ direct \in 0 .. MaxDirect /\ kills \in 0 .. MaxKills
      BY <2>1 DEF Init
    <3> QED BY <2>2, <3>1, <3>2, <3>3, <3>4 DEF TypeOK, Plans
  <2>6. MinedIsUsed
    BY <2>4 DEF MinedIsUsed
  <2>7. /\ VerifiedIsMined /\ ResultIsKnown /\ UnsettledIsOpen
        /\ EntriesAreFinal /\ AppendsExclude
    BY <2>1, <2>4 DEF VerifiedIsMined, ResultIsKnown, UnsettledIsOpen, EntriesAreFinal, AppendsExclude
  <2>8. OneEntryPerPost
    BY <2>4, FS_EmptySet DEF OneEntryPerPost
  <2>9. AttemptsAreContiguous
    <3> SUFFICES ASSUME NEW i \in Intents
                 PROVE  /\ {e.attempt : e \in {f \in entries : f.key = i}} = 1 .. counter[i]
                        /\ Cardinality({e \in entries : e.key = i}) = counter[i]
      BY DEF AttemptsAreContiguous
    <3>1. counter[i] = 0 /\ {e \in entries : e.key = i} = {}
      BY <2>4
    <3>2. {e.attempt : e \in {f \in entries : f.key = i}} = {}
      BY <2>4
    <3> QED BY <2>1, <3>1, <3>2, FS_EmptySet
  <2> QED BY <2>5, <2>6, <2>7, <2>8, <2>9 DEF IInv
<1>2. IInv /\ [Next]_vars => IInv'
  <2> SUFFICES ASSUME IInv, [Next]_vars PROVE IInv'
    OBVIOUS
  <2>1. CASE UNCHANGED vars
    <3> USE <2>1 DEF vars, chain, ledger, IInv
    <3>1. TypeOK'
      BY DEF TypeOK
    <3>2. MinedIsUsed' /\ VerifiedIsMined' /\ ResultIsKnown' /\ UnsettledIsOpen'
      BY DEF MinedIsUsed, VerifiedIsMined, ResultIsKnown, UnsettledIsOpen
    <3>3. EntriesAreFinal' /\ AppendsExclude'
      BY DEF EntriesAreFinal, AppendsExclude
    <3>4. OneEntryPerPost' /\ AttemptsAreContiguous'
      BY DEF OneEntryPerPost, AttemptsAreContiguous
    <3> QED BY <3>1, <3>2, <3>3, <3>4
  <2> QED BY <2>1, ReceiveStep, OwnerActsStep, TickStep, MineStep, ServeStep DEF Next
<1> QED BY <1>1, <1>2, PTL DEF Spec
-----------------------------------------------------------------------------
\* Every variable keeps its type; no counter runs ahead of the posts.
THEOREM RoutesTypeCorrect == Spec => []TypeOK
<1>1. IInv => TypeOK
  BY DEF IInv
<1> QED BY <1>1, Invariance, PTL

\* A post that changed the chain can be traced from its ledger entry, however
\* it failed afterwards.
THEOREM RoutesFailuresAreTraceable == Spec => []FailuresAreTraceable
<1>1. IInv => FailuresAreTraceable
  BY DEF IInv, EntriesAreFinal, FailuresAreTraceable
<1> QED BY <1>1, Invariance, PTL

\* The attempts of an intent are numbered without gap or repetition, however
\* many posts append at once and whichever of them fail or are killed.
THEOREM RoutesAttemptsAreContiguous == Spec => []AttemptsAreContiguous
<1>1. IInv => AttemptsAreContiguous
  BY DEF IInv
<1> QED BY <1>1, Invariance, PTL

\* The verified answers of one signature name one transaction of it, however
\* many posts carry it and whatever KeeperHub reports: a verified post has seen
\* a mined transaction, and the nonce lets one of a signature be mined.
THEOREM RoutesSignatureVouchedOnce == Spec => []SignatureVouchedOnce
<1>1. IInv => SignatureVouchedOnce
  <2> SUFFICES ASSUME IInv, NEW i \in Intents, NEW p \in 1 .. posts, NEW q \in 1 .. posts,
                      result[p].outcome = "verified", intent[hash[p]] = i,
                      result[q].outcome = "verified", intent[hash[q]] = i
               PROVE  hash[p] = hash[q]
    BY DEF SignatureVouchedOnce
  <2>1. hash[p] \in Posts /\ hash[q] \in Posts
    BY BoundsType DEF IInv, TypeOK
  <2>2. execution[hash[p]] = "mined" /\ execution[hash[q]] = "mined"
    BY DEF IInv, VerifiedIsMined
  <2> QED BY <2>1, <2>2 DEF IInv, MinedIsUsed
<1> QED BY <1>1, Invariance, PTL
=============================================================================
