-------------------------- MODULE IngestQueueProofs --------------------------
(***************************************************************************)
(* What IngestQueue promises for any keys, budget and number of requests   *)
(* in flight: its types, that a flush waits for the pause a failure asked  *)
(* for, and that requests sent in turn push nothing aside that the queue   *)
(* was given later.                                                        *)
(***************************************************************************)
EXTENDS IngestQueue, TLAPS

\* The first failure pauses a second, the sixth and later ones 32.
LEMMA BackoffType ==
  ASSUME NEW count \in Nat \ {0}
  PROVE  Backoff(count) \in Times
  BY DEF Backoff, Times

LEMMA LargerType ==
  ASSUME NEW a \in Times, NEW b \in Times
  PROVE  /\ Larger(a, b) \in Times
         /\ Larger(a, b) >= a
         /\ Larger(a, b) >= b
  BY DEF Larger, Times

LEMMA EarlierType ==
  ASSUME NEW a \in Times
  PROVE  Earlier(a) \in Times
  BY DEF Earlier, Times

\* The new state of an action in which a request ends.
LEMMA FinishType ==
  ASSUME TypeOK, NEW q \in Requests, Finish(q)
  PROVE  /\ request' \in [Requests -> Versions]
         /\ settled' \subseteq Keys \X (1..MaxVersion)
  BY VersionAssumption DEF TypeOK, Finish, Versions, NoItems

LEMMA TypeStep ==
  ASSUME TypeOK, [Next]_vars
  PROVE  TypeOK'
  <1>. USE BudgetAssumption, VersionAssumption
  <1>1. ASSUME NEW ks \in SUBSET Keys, Read(ks)
        PROVE  TypeOK'
    <2>1. version' \in Versions /\ coming' \subseteq Versions
      BY <1>1 DEF TypeOK, Read, Versions
    <2>. QED  BY <1>1, <2>1 DEF TypeOK, Read
  <1>2. ASSUME NEW items \in coming, Sync(items)
        PROVE  TypeOK'
    <2>1. items \in Versions
      BY DEF TypeOK
    <2>2. data' \in Versions /\ given' \in Versions
      BY <1>2, <2>1 DEF TypeOK, Sync, Overwrite, Versions
    <2>3. /\ Window \in Times
          /\ retry.until \in Times
          /\ due \in Times
      BY DEF TypeOK, Window, Times
    <2>4. due' \in Times
      BY <1>2, <2>3, LargerType DEF Sync, Overwrite, Schedule
    <2>. QED  BY <1>2, <2>2, <2>4 DEF TypeOK, Sync
  <1>3. ASSUME NEW items \in coming, Skip(items)
        PROVE  TypeOK'
    BY <1>3 DEF TypeOK, Skip
  <1>4. ASSUME NEW q \in Requests, Flush(q)
        PROVE  TypeOK'
    BY <1>4 DEF TypeOK, Flush, Versions, NoItems
  <1>5. ASSUME NEW q \in Requests, Unsent(q)
        PROVE  TypeOK'
    BY <1>5, FinishType DEF TypeOK, Unsent
  <1>6. ASSUME NEW q \in Requests, Answered(q)
        PROVE  TypeOK'
    <2>1. NoRetry \in [count : 0..Budget, until : Times]
      BY DEF NoRetry, Times
    <2>. QED  BY <1>6, <2>1, FinishType DEF TypeOK, Answered
  <1>7. ASSUME NEW q \in Requests, Failed(q)
        PROVE  TypeOK'
    <2>. DEFINE count == retry.count + 1
    <2>1. count \in Nat \ {0} /\ Backoff(count) \in Times
      BY BackoffType DEF TypeOK
    <2>2. CASE count > Budget
      <3>1. NoRetry \in [count : 0..Budget, until : Times]
        BY DEF NoRetry, Times
      <3>. QED  BY <1>7, <2>2, <3>1, FinishType DEF TypeOK, Failed
    <2>3. CASE ~(count > Budget)
      <3>1. retry' = [count |-> count, until |-> Backoff(count)]
        BY <1>7, <2>3 DEF Failed
      <3>2. retry' \in [count : 0..Budget, until : Times]
        BY <2>1, <2>3, <3>1 DEF TypeOK
      <3>3. due' \in Times
        BY <1>7, <2>1, <2>3, LargerType DEF TypeOK, Failed, Fill, Schedule
      <3>4. data' \in Versions
        <4>1. data \in Versions /\ request[q] \in Versions
          BY DEF TypeOK
        <4>2. data' = [k \in Keys |-> IF data[k] # 0 THEN data[k] ELSE request[q][k]]
          BY <1>7, <2>3 DEF Failed, Fill
        <4>. QED  BY <4>1, <4>2 DEF Versions
      <3>5. request' \in [Requests -> Versions]
        <4>1. NoItems \in Versions
          BY DEF NoItems, Versions
        <4>2. request' = [request EXCEPT ![q] = NoItems]
          BY <1>7, <2>3 DEF Failed
        <4>. QED  BY <4>1, <4>2 DEF TypeOK
      <3>. QED  BY <1>7, <2>3, <3>2, <3>3, <3>4, <3>5 DEF TypeOK, Failed
    <2>. QED  BY <2>2, <2>3
  <1>8. CASE Tick
    <2>1. due' \in Times
      BY <1>8, EarlierType DEF Tick, TypeOK
    <2>2. retry' \in [count : 0..Budget, until : Times]
      BY <1>8, EarlierType DEF Tick, TypeOK
    <2>. QED  BY <1>8, <2>1, <2>2 DEF Tick, TypeOK
  <1>9. CASE UNCHANGED vars
    BY <1>9 DEF TypeOK, vars
  <1>. QED  BY <1>1, <1>2, <1>3, <1>4, <1>5, <1>6, <1>7, <1>8, <1>9 DEF Next, Ends

\* The queue, the retry state and the requests keep the types they are
\* declared with.
THEOREM IngestType == Spec => []TypeOK
  <1>1. Init => TypeOK
    <2>1. NoItems \in Versions
      BY VersionAssumption DEF NoItems, Versions
    <2>2. NoRetry \in [count : 0..Budget, until : Times]
      BY BudgetAssumption DEF NoRetry, Times
    <2>3. 0 \in Times
      BY DEF Times
    <2>. QED  BY <2>1, <2>2, <2>3 DEF Init, TypeOK
  <1>2. TypeOK /\ [Next]_vars => TypeOK'
    BY TypeStep
  <1>. QED  BY <1>1, <1>2, PTL DEF Spec

-----------------------------------------------------------------------------
\* A flush of queued items is not due before the pause is over.
LEMMA BackoffStep ==
  ASSUME TypeOK, DueRespectsBackoff, [Next]_vars
  PROVE  DueRespectsBackoff'
  <1>. USE DEF DueRespectsBackoff
  <1>1. ASSUME NEW items \in coming, Sync(items)
        PROVE  DueRespectsBackoff'
    <2>. DEFINE time == Larger(IF Queued THEN due ELSE Window, retry.until)
    <2>1. retry.until \in Times /\ due \in Times /\ Window \in Times
      BY DEF TypeOK, Times, Window
    <2>2. time \in Times /\ time >= retry.until
      BY <2>1, LargerType
    <2>3. due' = (IF Queued THEN Larger(due, time) ELSE time)
      BY <1>1 DEF Sync, Overwrite, Schedule
    <2>4. Larger(due, time) \in Times /\ Larger(due, time) >= time
      BY <2>1, <2>2, LargerType
    <2>5. due' >= retry.until
      <3>. HIDE DEF time
      <3>. QED  BY <2>1, <2>2, <2>3, <2>4 DEF Times
    <2>. QED  BY <1>1, <2>5 DEF Sync
  <1>2. ASSUME NEW ks \in SUBSET Keys, Read(ks)
        PROVE  DueRespectsBackoff'
    BY <1>2 DEF Read, Queued
  <1>3. ASSUME NEW items \in coming, Skip(items)
        PROVE  DueRespectsBackoff'
    BY <1>3 DEF Skip, Queued
  <1>4. ASSUME NEW q \in Requests, Flush(q)
        PROVE  DueRespectsBackoff'
    BY <1>4 DEF Flush, Queued
  <1>5. ASSUME NEW q \in Requests, Unsent(q)
        PROVE  DueRespectsBackoff'
    BY <1>5 DEF Unsent, Queued
  <1>6. ASSUME NEW q \in Requests, Answered(q)
        PROVE  DueRespectsBackoff'
    BY <1>6 DEF Answered, NoRetry, TypeOK, Times
  <1>7. ASSUME NEW q \in Requests, Failed(q)
        PROVE  DueRespectsBackoff'
    <2>. DEFINE count == retry.count + 1
                pause == Backoff(count)
    <2>1. CASE count > Budget
      <3>1. retry' = NoRetry
        BY <1>7, <2>1 DEF Failed
      <3>2. due' \in Times
        BY <1>7, <2>1 DEF Failed, TypeOK
      <3>. QED  BY <3>1, <3>2 DEF NoRetry, Times
    <2>2. CASE ~(count > Budget)
      <3>1. pause \in Times
        BY BackoffType, BudgetAssumption DEF TypeOK
      <3>2. retry'.until = pause
        BY <1>7, <2>2 DEF Failed
      <3>3. due' = (IF Queued THEN Larger(due, pause) ELSE pause)
        BY <1>7, <2>2 DEF Failed, Fill, Schedule
      <3>4. due \in Times
        BY DEF TypeOK
      <3>5. Larger(due, pause) \in Times /\ Larger(due, pause) >= pause
        BY <3>1, <3>4, LargerType
      <3>. HIDE DEF pause
      <3>. QED  BY <3>1, <3>2, <3>3, <3>5 DEF Times
    <2>. QED  BY <2>1, <2>2
  <1>8. CASE Tick
    <2>1. due \in Times /\ retry.until \in Times
      BY DEF TypeOK
    <2>2. due' = Earlier(due) /\ retry'.until = Earlier(retry.until)
      BY <1>8 DEF Tick, TypeOK
    <2>3. Queued' <=> Queued
      BY <1>8 DEF Tick, Queued
    <2>4. CASE Queued
      <3>1. due >= retry.until
        BY <2>4
      <3>2. Earlier(due) >= Earlier(retry.until)
        BY <2>1, <3>1 DEF Earlier, Times
      <3>. QED  BY <2>2, <3>2
    <2>. QED  BY <2>3, <2>4
  <1>9. CASE UNCHANGED vars
    BY <1>9 DEF vars, Queued
  <1>. QED  BY <1>1, <1>2, <1>3, <1>4, <1>5, <1>6, <1>7, <1>8, <1>9 DEF Next, Ends

\* Whatever updates and failures come in, a flush waits until the pause that
\* the last failure asked for is over.
THEOREM FlushWaitsForBackoff == Spec => []DueRespectsBackoff
  <1>1. Init => DueRespectsBackoff
    BY DEF Init, DueRespectsBackoff, Queued
  <1>2. TypeOK /\ DueRespectsBackoff /\ [Next]_vars => DueRespectsBackoff'
    BY BackoffStep
  <1>. QED  BY <1>1, <1>2, IngestType, PTL DEF Spec

-----------------------------------------------------------------------------
(***************************************************************************)
(* One request at a time.  What is queued is then what was given last, and *)
(* so is what is in flight unless something given later is queued.         *)
(***************************************************************************)
InTurn ==
  ~overlapped =>
    /\ \A p, q \in Requests : Flying(p) /\ Flying(q) => p = q
    /\ \A k \in Keys : data[k] # 0 => data[k] = given[k]
    /\ \A k \in Keys, q \in Requests :
         request[q][k] # 0 /\ data[k] = 0 => request[q][k] = given[k]
    /\ LastGivenIsKept

LEMMA InTurnStep ==
  ASSUME TypeOK, InTurn, [Next]_vars
  PROVE  InTurn'
  <1>1. overlapped => overlapped'
    BY DEF TypeOK, Next, vars, Read, Sync, Skip, Flush, Ends, Unsent, Answered, Failed, Tick
  <1>2. SUFFICES ASSUME ~overlapped, ~overlapped'
                 PROVE  InTurn'
    BY <1>1 DEF InTurn
  <1>3. /\ \A p, q \in Requests : Flying(p) /\ Flying(q) => p = q
        /\ \A k \in Keys : data[k] # 0 => data[k] = given[k]
        /\ \A k \in Keys, q \in Requests :
             request[q][k] # 0 /\ data[k] = 0 => request[q][k] = given[k]
        /\ LastGivenIsKept
    BY <1>2 DEF InTurn
  <1>4. /\ \A k \in Keys : data[k] \in Nat /\ given[k] \in Nat
        /\ \A q \in Requests : request[q] \in [Keys -> Nat]
        /\ data \in [Keys -> Nat]
    BY VersionAssumption DEF TypeOK, Versions
  <1>5. ASSUME NEW items \in coming, Sync(items)
        PROVE  InTurn'
    <2>1. \A k \in Keys :
            /\ data'[k] = IF items[k] # 0 THEN items[k] ELSE data[k]
            /\ given'[k] = IF items[k] # 0 THEN items[k] ELSE given[k]
      BY <1>4, <1>5 DEF Sync, Overwrite
    <2>2. request' = request /\ settled' = settled
      BY <1>5 DEF Sync
    <2>3. \A k \in Keys : data'[k] # 0 => data'[k] = given'[k]
      BY <1>3, <2>1
    <2>4. \A k \in Keys, q \in Requests :
            request'[q][k] # 0 /\ data'[k] = 0 => request'[q][k] = given'[k]
      BY <1>3, <1>4, <2>1, <2>2
    <2>5. LastGivenIsKept'
      BY <1>3, <2>1, <2>2 DEF LastGivenIsKept
    <2>. QED  BY <1>3, <2>2, <2>3, <2>4, <2>5 DEF InTurn, Flying
  <1>6. ASSUME NEW q \in Requests, Flush(q)
        PROVE  InTurn'
    <2>1. \A p \in Requests : ~Flying(p)
      BY <1>2, <1>6 DEF Flush, TypeOK
    <2>2. /\ request'[q] = data
          /\ \A p \in Requests \ {q} : request'[p] = NoItems
          /\ data' = NoItems /\ given' = given /\ settled' = settled
      BY <1>6, <2>1 DEF Flush, Flying, TypeOK
    <2>3. \A k \in Keys : \A p \in Requests :
            request'[p][k] # 0 => request'[p][k] = given[k]
      BY <1>3, <2>2 DEF NoItems
    <2>4. LastGivenIsKept'
      BY <1>3, <2>1, <2>2 DEF LastGivenIsKept, Flying, NoItems
    <2>. QED  BY <2>2, <2>3, <2>4 DEF InTurn, Flying, NoItems
  <1>7. ASSUME NEW q \in Requests, Finish(q), given' = given, data' = data
        PROVE  InTurn'
    <2>1. /\ request'[q] = NoItems
          /\ \A p \in Requests \ {q} : request'[p] = request[p]
      BY <1>7 DEF Finish, TypeOK
    <2>2. \A k \in Keys : request[q][k] # 0 => <<k, request[q][k]>> \in settled'
      BY <1>7 DEF Finish
    <2>3. settled \subseteq settled'
      BY <1>7 DEF Finish
    <2>4. LastGivenIsKept'
      BY <1>3, <1>7, <2>1, <2>2, <2>3 DEF LastGivenIsKept
    <2>5. \A k \in Keys, p \in Requests :
            request'[p][k] # 0 /\ data'[k] = 0 => request'[p][k] = given'[k]
      BY <1>3, <1>7, <2>1 DEF NoItems
    <2>. QED  BY <1>3, <1>7, <2>1, <2>4, <2>5 DEF InTurn, Flying
  <1>8. ASSUME NEW q \in Requests, Failed(q)
        PROVE  InTurn'
    <2>1. CASE retry.count + 1 > Budget
      BY <1>7, <1>8, <2>1 DEF Failed
    <2>2. CASE ~(retry.count + 1 > Budget)
      <3>1. /\ request'[q] = NoItems
            /\ \A p \in Requests \ {q} : request'[p] = request[p]
            /\ given' = given /\ settled' = settled
        BY <1>8, <2>2 DEF Failed, TypeOK
      <3>2. \A k \in Keys : data'[k] = IF data[k] # 0 THEN data[k] ELSE request[q][k]
        BY <1>8, <2>2 DEF Failed, Fill
      <3>3. \A p \in Requests \ {q} : request[p] = NoItems
        BY <1>3, <1>8 DEF Failed, Flying
      <3>4. \A k \in Keys : data'[k] # 0 => data'[k] = given'[k]
        BY <1>3, <3>1, <3>2
      <3>5. \A k \in Keys, p \in Requests : request'[p][k] = 0
        BY <3>1, <3>3 DEF NoItems
      <3>6. LastGivenIsKept'
        BY <1>3, <3>1, <3>2, <3>3 DEF LastGivenIsKept, NoItems
      <3>. QED  BY <1>3, <3>1, <3>3, <3>4, <3>5, <3>6 DEF InTurn, Flying
    <2>. QED  BY <2>1, <2>2
  <1>9. CASE Tick \/ (\E ks \in SUBSET Keys : Read(ks)) \/ \E items \in coming : Skip(items)
    BY <1>3, <1>9 DEF Tick, Read, Skip, InTurn, LastGivenIsKept, Flying
  <1>10. CASE UNCHANGED vars
    BY <1>3, <1>10 DEF vars, InTurn, LastGivenIsKept, Flying
  <1>. QED
    BY <1>5, <1>6, <1>7, <1>8, <1>9, <1>10 DEF Next, Ends, Unsent, Answered

\* While one request at a time is in flight, the version of each entity that the
\* queue was given last is queued or on its way until it is answered for or given
\* up, in whatever order the readings of the entity came to the queue.
THEOREM LastGivenKeptInTurn == Spec => []LastGivenIsKeptInTurn
  <1>1. Init => InTurn
    BY DEF Init, InTurn, Flying, NoItems, LastGivenIsKept
  <1>2. TypeOK /\ InTurn /\ [Next]_vars => InTurn'
    BY InTurnStep
  <1>3. InTurn => LastGivenIsKeptInTurn
    BY DEF InTurn, LastGivenIsKeptInTurn
  <1>. QED  BY <1>1, <1>2, <1>3, IngestType, PTL DEF Spec

\* Only a flush puts something in flight, and it sends what is queued.
LEMMA FlushSends ==
  ASSUME TypeOK, [Next]_vars, NEW q \in Requests, NEW k \in Keys,
         request'[q] # request[q], request'[q][k] # 0
  PROVE  Flush(q) /\ request'[q] = data
  <1>1. ASSUME NEW p \in Requests, Flush(p)
        PROVE  Flush(q) /\ request'[q] = data
    BY <1>1 DEF Flush, TypeOK
  <1>2. ASSUME NEW p \in Requests, Ends(p)
        PROVE  FALSE
    <2>1. request' = [request EXCEPT ![p] = NoItems]
      BY <1>2 DEF Ends, Unsent, Answered, Failed, Finish
    <2>. QED  BY <2>1 DEF TypeOK, NoItems
  <1>3. CASE \/ Tick \/ UNCHANGED vars \/ \E ks \in SUBSET Keys : Read(ks)
             \/ \E items \in coming : Sync(items) \/ Skip(items)
    BY <1>3 DEF Tick, vars, Read, Sync, Skip
  <1>. QED  BY <1>1, <1>2, <1>3 DEF Next

\* While one request at a time is in flight, each carries the versions that the
\* queue was given last, however often items failed, were put back and met later
\* ones in the queue.
THEOREM RetriesSendLastGiven == Spec => SendsLastGivenInTurn
  <1>1. Init => InTurn
    BY DEF Init, InTurn, Flying, NoItems, LastGivenIsKept
  <1>2. TypeOK /\ InTurn /\ [Next]_vars => InTurn'
    BY InTurnStep
  <1>3. TypeOK /\ InTurn /\ [Next]_vars =>
          [\A q \in Requests, k \in Keys :
             ~overlapped' /\ request'[q] # request[q] /\ request'[q][k] # 0 =>
               request'[q][k] = given[k]]_vars
    <2>1. SUFFICES ASSUME TypeOK, InTurn, [Next]_vars, NEW q \in Requests, NEW k \in Keys,
                          ~overlapped', request'[q] # request[q], request'[q][k] # 0
                   PROVE  request'[q][k] = given[k]
      OBVIOUS
    <2>2. Flush(q) /\ request'[q] = data
      BY <2>1, FlushSends
    <2>3. ~overlapped
      BY <2>1, <2>2 DEF Flush, TypeOK
    <2>. QED  BY <2>1, <2>2, <2>3 DEF InTurn
  <1>. QED  BY <1>1, <1>2, <1>3, IngestType, PTL DEF Spec, SendsLastGivenInTurn
=============================================================================
