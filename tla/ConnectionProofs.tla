--------------------------- MODULE ConnectionProofs ---------------------------
(***************************************************************************)
(* What Connection promises however often the extension connects: one      *)
(* server and one loop, the state of the adapter there is, and nothing left *)
(* behind by a disposal.                                                    *)
(***************************************************************************)
EXTENDS Connection, TLAPS

\* The run of doConnect that awaits its server, and no other, has a process
\* that starts; runs to come have left nothing yet.
RunsInTurn ==
  /\ \A k \in Ids : proc[k] = "up" <=> instance = k
  /\ \A k \in Ids : proc[k] = "starting" <=> promise /\ k = tries
  /\ promise => tries # 0 /\ instance = 0
  /\ \A k \in Ids : k > tries => proc[k] = "none"

\* Handlers are those of the adapter there is, and its loop is the one that runs.
OneIsHeard ==
  /\ \A k \in heard : k = client /\ k \notin stopped
  /\ \A k \in Ids : Runs(k) => k \in heard
  /\ \A k \in Ids : k > tries \/ (promise /\ k = tries) => k \notin stopped /\ loop[k] = "off"
  /\ promise => heard = {}
  /\ client <= tries
  /\ promise => client < tries

\* The state is what the adapter there is said last.
SaidByAdapter ==
  /\ state = "connected" => client \in heard
  /\ \A k \in heard :
       ~disposed \/ caught =>
         /\ loop[k] # "off"
         /\ state = "connected" <=> loop[k] \in {"asked", "open"}
         /\ state = "connecting" <=> loop[k] = "delay"

\* What a disposal that met no start leaves.
DisposedAll ==
  disposed /\ ~caught =>
    /\ instance = 0 /\ poll = 0 /\ client = 0 /\ ~promise
    /\ heard = {}

ConnInv == TypeOK /\ RunsInTurn /\ OneIsHeard /\ SaidByAdapter /\ DisposedAll

USE MaxConnectsAssumption DEF Ids

LEMMA InitConn == Init => ConnInv
  <1>. SUFFICES ASSUME Init PROVE ConnInv
    OBVIOUS
  <1>1. TypeOK
    <2>1. tries \in 0..MaxConnects
      BY DEF Init
    <2>2. /\ state \in {"connecting", "connected", "disconnected", "error"}
          /\ {promise, disposed, caught} \subseteq BOOLEAN
          /\ {instance, client, poll} \subseteq {0} \cup Ids
          /\ stopped \subseteq Ids /\ heard \subseteq Ids /\ checks \subseteq Ids
      BY DEF Init
    <2>3. /\ proc \in [Ids -> {"none", "starting", "up", "gone"}]
          /\ loop \in [Ids -> {"off", "asked", "open", "delay"}]
          /\ to \in [Ids -> {0} \cup Ids]
      BY DEF Init
    <2>. QED  BY <2>1, <2>2, <2>3 DEF TypeOK
  <1>2. RunsInTurn /\ OneIsHeard
    BY DEF Init, RunsInTurn, OneIsHeard, Runs
  <1>3. SaidByAdapter /\ DisposedAll
    BY DEF Init, SaidByAdapter, DisposedAll
  <1>. QED  BY <1>1, <1>2, <1>3 DEF ConnInv

LEMMA TypeStep == TypeOK /\ [Next]_vars => TypeOK'
  <1>. SUFFICES ASSUME TypeOK, [Next]_vars PROVE TypeOK'
    OBVIOUS
  <1>. USE DEF TypeOK
  <1>1. CASE StartServer
    BY <1>1 DEF StartServer, Silenced, Stopped
  <1>2. CASE ConnectAgain
    <2>1. tries + 1 \in Ids
      BY <1>2 DEF ConnectAgain
    <2>2. /\ stopped' \subseteq Ids /\ heard' \subseteq Ids
          /\ client' \in Ids /\ tries' \in 0..MaxConnects
      BY <2>1, <1>2 DEF ConnectAgain, Attach, Silenced, Stopped
    <2>3. /\ loop' \in [Ids -> {"off", "asked", "open", "delay"}]
          /\ to' \in [Ids -> {0} \cup Ids]
      BY <2>1, <1>2 DEF ConnectAgain, Attach
    <2>. QED  BY <2>2, <2>3, <1>2 DEF ConnectAgain, Attach, server
  <1>3. CASE Poll
    BY <1>3 DEF Poll, server, adapters
  <1>4. CASE Dispose
    BY <1>4 DEF Dispose, StopPoll, Silenced, Stopped
  <1>5. ASSUME NEW k \in Ids, Started(k) PROVE TypeOK'
    BY <1>5 DEF Started, Attach
  <1>6. ASSUME NEW k \in Ids, StartFails(k) \/ Exit(k) PROVE TypeOK'
    BY <1>6 DEF StartFails, Exit, Exited, adapters, health
  <1>7. ASSUME NEW k \in Ids, Healthy(k) PROVE TypeOK'
    BY <1>7 DEF Healthy, server, adapters
  <1>8. ASSUME NEW k \in Ids, Unhealthy(k) PROVE TypeOK'
    BY <1>8 DEF Unhealthy, Reconnect, Tell, server
  <1>9. ASSUME NEW k \in Ids, StreamOpens(k) PROVE TypeOK'
    BY <1>9 DEF StreamOpens, server, health
  <1>10. ASSUME NEW k \in Ids, StreamEnds(k) PROVE TypeOK'
    BY <1>10 DEF StreamEnds, Tell, server, health
  <1>11. ASSUME NEW k \in Ids, Again(k) PROVE TypeOK'
    BY <1>11 DEF Again, Tell, server, health
  <1>12. ASSUME NEW k \in Ids, LoopEnds(k) PROVE TypeOK'
    BY <1>12 DEF LoopEnds, Tell, server, health
  <1>13. CASE UNCHANGED vars
    BY <1>13 DEF vars
  <1>. QED  BY <1>1, <1>2, <1>3, <1>4, <1>5, <1>6, <1>7, <1>8, <1>9, <1>10, <1>11, <1>12, <1>13
            DEF Next

LEMMA RunsStep == ConnInv /\ [Next]_vars => RunsInTurn'
  <1>. SUFFICES ASSUME ConnInv, [Next]_vars PROVE RunsInTurn'
    OBVIOUS
  <1>. USE DEF ConnInv, RunsInTurn, TypeOK
  <1>1. CASE StartServer
    BY <1>1 DEF StartServer, MayConnect
  <1>2. CASE ConnectAgain
    BY <1>2 DEF ConnectAgain, Attach, MayConnect, server
  <1>3. CASE Dispose
    BY <1>3 DEF Dispose, adapters
  <1>4. ASSUME NEW k \in Ids, Started(k) PROVE RunsInTurn'
    BY <1>4 DEF Started, Attach
  <1>5. ASSUME NEW k \in Ids, StartFails(k) PROVE RunsInTurn'
    BY <1>5 DEF StartFails, adapters, health
  <1>6. ASSUME NEW k \in Ids, Exit(k) PROVE RunsInTurn'
    BY <1>6 DEF Exit, Exited, adapters, health
  <1>7. CASE UNCHANGED <<tries, promise, server>>
    BY <1>7 DEF server
  <1>. QED  BY <1>1, <1>2, <1>3, <1>4, <1>5, <1>6, <1>7
            DEF Next, Poll, Healthy, Unhealthy, StreamOpens, StreamEnds, Again, LoopEnds, vars, server

LEMMA HeardStep == ConnInv /\ TypeOK' /\ [Next]_vars => OneIsHeard'
  <1>. SUFFICES ASSUME ConnInv, TypeOK', [Next]_vars PROVE OneIsHeard'
    OBVIOUS
  <1>. USE DEF ConnInv, RunsInTurn, OneIsHeard, TypeOK, Runs
  <1>1. CASE StartServer
    <2>1. heard \ {client} = {} /\ (client = 0 \/ client \in 1..tries) /\ ~promise
      BY <1>1 DEF StartServer, MayConnect
    <2>2. /\ heard' = {} /\ tries' = tries + 1 /\ client' = client /\ loop' = loop
          /\ stopped' = stopped \cup ({client} \ {0})
      BY <2>1, <1>1 DEF StartServer, Silenced, Stopped
    <2>. QED  BY <2>1, <2>2
  <1>2. CASE ConnectAgain
    <2>1. heard \ {client} = {} /\ (client = 0 \/ client \in 1..tries) /\ ~promise
      BY <1>2 DEF ConnectAgain, MayConnect
    <2>2. /\ tries' = tries + 1 /\ client' = tries + 1 /\ ~promise'
          /\ stopped' = stopped \cup ({client} \ {0})
      BY <1>2 DEF ConnectAgain, Attach, Stopped
    <2>3. heard' = {tries + 1}
      BY <2>1, <1>2 DEF ConnectAgain, Attach, Silenced
    <2>4. tries + 1 \in Ids /\ loop' = [loop EXCEPT ![tries + 1] = "asked"]
      BY <1>2 DEF ConnectAgain, Attach
    <2>5. tries + 1 \notin stopped'
      BY <2>1, <2>2, <2>4
    <2>6. \A k \in Ids : k # tries + 1 => ~Runs(k)'
      BY <2>1, <2>2, <2>4
    <2>7. \A k \in Ids : k > tries' => k \notin stopped' /\ loop'[k] = "off"
      BY <2>1, <2>2, <2>4
    <2>. QED  BY <2>2, <2>3, <2>5, <2>6, <2>7
  <1>3. CASE Dispose
    BY <1>3 DEF Dispose, Silenced, Stopped
  <1>4. ASSUME NEW k \in Ids, Started(k) PROVE OneIsHeard'
    BY <1>4 DEF Started, Attach
  <1>5. ASSUME NEW k \in Ids, StartFails(k) PROVE OneIsHeard'
    BY <1>5 DEF StartFails, adapters, health
  <1>6. ASSUME NEW k \in Ids, Unhealthy(k) PROVE OneIsHeard'
    BY <1>6 DEF Unhealthy, Reconnect, Tell, server
  <1>7. ASSUME NEW k \in Ids, StreamOpens(k) \/ StreamEnds(k) \/ Again(k) \/ LoopEnds(k)
        PROVE  OneIsHeard'
    BY <1>7 DEF StreamOpens, StreamEnds, Again, LoopEnds, server, health
  <1>8. CASE UNCHANGED <<tries, promise, loop, stopped, heard, client>>
    BY <1>8
  <1>. QED  BY <1>1, <1>2, <1>3, <1>4, <1>5, <1>6, <1>7, <1>8
            DEF Next, Poll, Healthy, Exit, vars, adapters

LEMMA SaidStep == ConnInv /\ TypeOK' /\ [Next]_vars => SaidByAdapter'
  <1>. SUFFICES ASSUME ConnInv, TypeOK', [Next]_vars PROVE SaidByAdapter'
    OBVIOUS
  <1>. USE DEF ConnInv, RunsInTurn, OneIsHeard, SaidByAdapter, DisposedAll, TypeOK, Runs
  <1>1. CASE StartServer
    BY <1>1 DEF StartServer, Silenced, MayConnect
  <1>2. CASE ConnectAgain
    BY <1>2 DEF ConnectAgain, Attach, Silenced, MayConnect
  <1>3. CASE Dispose
    BY <1>3 DEF Dispose, Silenced
  <1>4. ASSUME NEW k \in Ids, Started(k) PROVE SaidByAdapter'
    BY <1>4 DEF Started, Attach
  <1>5. ASSUME NEW k \in Ids, StartFails(k) PROVE SaidByAdapter'
    BY <1>5 DEF StartFails, adapters, health
  <1>6. ASSUME NEW k \in Ids, Unhealthy(k) PROVE SaidByAdapter'
    BY <1>6 DEF Unhealthy, Reconnect, Tell, server
  <1>7. ASSUME NEW k \in Ids, StreamOpens(k) PROVE SaidByAdapter'
    BY <1>7 DEF StreamOpens, server, health
  <1>8. ASSUME NEW k \in Ids, StreamEnds(k) PROVE SaidByAdapter'
    BY <1>8 DEF StreamEnds, Tell, server, health
  <1>9. ASSUME NEW k \in Ids, Again(k) PROVE SaidByAdapter'
    BY <1>9 DEF Again, Tell, server, health
  <1>10. ASSUME NEW k \in Ids, LoopEnds(k) PROVE SaidByAdapter'
    BY <1>10 DEF LoopEnds, Tell, server, health
  <1>11. CASE UNCHANGED <<state, loop, heard, client, disposed, caught>>
    BY <1>11
  <1>. QED  BY <1>1, <1>2, <1>3, <1>4, <1>5, <1>6, <1>7, <1>8, <1>9, <1>10, <1>11
            DEF Next, Poll, Healthy, Exit, vars, adapters

LEMMA DisposedStep == ConnInv /\ [Next]_vars => DisposedAll'
  <1>. SUFFICES ASSUME ConnInv, [Next]_vars PROVE DisposedAll'
    OBVIOUS
  <1>. USE DEF ConnInv, RunsInTurn, OneIsHeard, DisposedAll, TypeOK
  <1>1. CASE Dispose
    BY <1>1 DEF Dispose, StopPoll, Silenced
  <1>2. CASE StartServer \/ ConnectAgain
    BY <1>2 DEF StartServer, ConnectAgain
  <1>3. ASSUME NEW k \in Ids, Started(k) \/ StartFails(k) \/ Exit(k) PROVE DisposedAll'
    BY <1>3 DEF Started, StartFails, Exit, Exited, Attach, adapters, health
  <1>4. CASE UNCHANGED <<instance, poll, client, promise, heard, disposed, caught>>
    BY <1>4
  <1>. QED  BY <1>1, <1>2, <1>3, <1>4
            DEF Next, Poll, Healthy, Unhealthy, StreamOpens, StreamEnds, Again, LoopEnds, vars,
                server, adapters, health

LEMMA ConnInvariant == Spec => []ConnInv
  <1>1. Init => ConnInv
    BY InitConn
  <1>2. ConnInv /\ [Next]_vars => ConnInv'
    BY TypeStep, RunsStep, HeardStep, SaidStep, DisposedStep DEF ConnInv
  <1>. QED  BY <1>1, <1>2, PTL DEF Spec

\* However the calls of connect, the deaths of servers and the ends of starts
\* interleave, there is one server and one loop (server-manager.ts:27-102,
\* connection-service.ts:55-76).
THEOREM OneOfEach == Spec => []OneServerOneLoop
  <1>1. ConnInv => OneServerOneLoop
    BY DEF ConnInv, RunsInTurn, OneIsHeard, OneServerOneLoop
  <1>. QED  BY <1>1, ConnInvariant, PTL

\* The views are told the state of the adapter there is (sdk-sse-adapter.ts:131-207).
THEOREM StateIsTold == Spec => []StateIsOfTheAdapter
  <1>1. ConnInv => StateIsOfTheAdapter
    BY DEF ConnInv, TypeOK, OneIsHeard, SaidByAdapter, StateIsOfTheAdapter
  <1>. QED  BY <1>1, ConnInvariant, PTL

\* A disposal that meets no start leaves nothing behind (connection-service.ts:244-259).
THEOREM DisposalIsWhole == Spec => []NothingOutlivesDispose
  <1>1. ConnInv => NothingOutlivesDispose
    BY DEF ConnInv, TypeOK, RunsInTurn, OneIsHeard, DisposedAll, NothingOutlivesDispose
  <1>. QED  BY <1>1, ConnInvariant, PTL

\* All state keeps its type for any number of connects.
THEOREM ConnectionType == Spec => []TypeOK
  <1>1. ConnInv => TypeOK
    BY DEF ConnInv
  <1>. QED  BY <1>1, ConnInvariant, PTL
=============================================================================
