------------------------------ MODULE Connection ------------------------------
(***************************************************************************)
(* The extension's connection to the server it starts: the shared connect,  *)
(* the server process, the adapters that read its event stream again and    *)
(* again, and the health poll (packages/kilo-vscode/src/services/           *)
(* cli-backend: connection-service.ts, server-manager.ts,                   *)
(* sdk-sse-adapter.ts).                                                     *)
(*                                                                         *)
(* Each run of doConnect has a number, and so have the adapter it makes and *)
(* the process it may start.                                                *)
(***************************************************************************)
EXTENDS Naturals, FiniteSets

CONSTANT MaxConnects   \* bound: how often doConnect runs

ASSUME MaxConnectsAssumption == MaxConnects \in Nat

Ids == 1..MaxConnects

VARIABLES
  state,     \* the connection state all views are told
  tries,     \* how often doConnect ran
  promise,   \* connectPromise is set: doConnect awaits the server
  proc,      \* the process a run started
  instance,  \* ServerManager.instance, 0 if none
  loop,      \* where the consumeLoop of an adapter stands
  to,        \* the process the client of an adapter talks to
  stopped,   \* the adapters whose outer signal is aborted
  heard,     \* the adapters that have their handlers
  client,    \* sseClient, and with it client, config and info; 0 if none
  poll,      \* the process the health timer asks, 0 if no timer is set
  checks,    \* the processes a health request is under way to
  disposed,  \* the service was disposed
  caught     \* history: it was disposed while doConnect awaited the server

vars == <<state, tries, promise, proc, instance, loop, to, stopped, heard,
          client, poll, checks, disposed, caught>>

server == <<proc, instance>>
adapters == <<loop, to, stopped, heard, client>>
health == <<poll, checks>>

Init ==
  /\ state = "disconnected"
  /\ tries = 0
  /\ promise = FALSE
  /\ proc = [k \in Ids |-> "none"]
  /\ instance = 0
  /\ loop = [k \in Ids |-> "off"]
  /\ to = [k \in Ids |-> 0]
  /\ stopped = {}
  /\ heard = {}
  /\ client = 0
  /\ poll = 0
  /\ checks = {}
  /\ disposed = FALSE
  /\ caught = FALSE

(***************************************************************************)
(* SdkSSEAdapter.dispose: the loop ends at its next look at the signal, and *)
(* nobody hears its last words.                                             *)
(***************************************************************************)
\* Mutant: the handlers stay.
MutSilenced(k) == heard

Silenced(k) == heard \ {k}

Stopped(k) == stopped \cup ({k} \ {0})

\* The adapter tells the service its state, if it still has handlers.
Tell(k, s) == state' = IF k \in heard THEN s ELSE state

(***************************************************************************)
(* connect.  Whoever calls it while doConnect runs waits for its promise,   *)
(* whoever calls it when connected returns.  doConnect disposes the adapter *)
(* there was and awaits the server; then it makes a client, an adapter and  *)
(* a timer for it.  The adapter reports that it is connected before its     *)
(* first request is out.                                                    *)
(***************************************************************************)
\* Mutant: callers do not share the promise.
MutMayConnect == state # "connected"

MayConnect == ~promise /\ state # "connected"

Attach(k, p, h) ==
  /\ state' = "connected"
  /\ promise' = FALSE
  /\ client' = k
  /\ loop' = [loop EXCEPT ![k] = "asked"]
  /\ to' = [to EXCEPT ![k] = p]
  /\ heard' = h \cup {k}
  /\ poll' = p

ConnectAgain ==
  /\ ~disposed /\ tries < MaxConnects /\ MayConnect
  /\ instance # 0
  /\ tries' = tries + 1
  /\ stopped' = Stopped(client)
  /\ Attach(tries + 1, instance, Silenced(client))
  /\ UNCHANGED <<server, checks, disposed, caught>>

StartServer ==
  /\ ~disposed /\ tries < MaxConnects /\ MayConnect
  /\ instance = 0
  /\ state' = "connecting"
  /\ tries' = tries + 1
  /\ promise' = TRUE
  /\ poll' = 0
  /\ stopped' = Stopped(client)
  /\ heard' = Silenced(client)
  /\ proc' = [proc EXCEPT ![tries + 1] = "starting"]
  /\ UNCHANGED <<instance, loop, to, client, checks, disposed, caught>>

\* The process printed its port.
Started(k) ==
  /\ proc[k] = "starting"
  /\ proc' = [proc EXCEPT ![k] = "up"]
  /\ instance' = k
  /\ Attach(k, k, heard)
  /\ UNCHANGED <<tries, stopped, checks, disposed, caught>>

\* It ended before that, or did not get there in 30 s and was sent SIGTERM.
StartFails(k) ==
  /\ proc[k] = "starting"
  /\ proc' = [proc EXCEPT ![k] = "gone"]
  /\ state' = "error"
  /\ promise' = FALSE
  /\ UNCHANGED <<tries, instance, adapters, health, disposed, caught>>

\* The server ends by itself.
Exited(k) == IF instance = k THEN 0 ELSE instance

Exit(k) ==
  /\ proc[k] = "up"
  /\ proc' = [proc EXCEPT ![k] = "gone"]
  /\ instance' = Exited(k)
  /\ UNCHANGED <<state, tries, promise, adapters, health, disposed, caught>>

(***************************************************************************)
(* consumeLoop.                                                            *)
(***************************************************************************)
Runs(k) == loop[k] # "off" /\ k \notin stopped

\* The request is answered.
StreamOpens(k) ==
  /\ Runs(k) /\ loop[k] = "asked" /\ proc[to[k]] = "up"
  /\ loop' = [loop EXCEPT ![k] = "open"]
  /\ UNCHANGED <<state, tries, promise, server, to, stopped, heard, client,
                 health, disposed, caught>>

\* The attempt ends: a request that fails is told as an error and then, as a
\* stream that ends or is cut for want of a heartbeat, as connecting.
StreamEnds(k) ==
  /\ Runs(k) /\ loop[k] \in {"asked", "open"}
  /\ loop' = [loop EXCEPT ![k] = "delay"]
  /\ Tell(k, "connecting")
  /\ UNCHANGED <<tries, promise, server, to, stopped, heard, client,
                 health, disposed, caught>>

\* After 250 ms.
Again(k) ==
  /\ Runs(k) /\ loop[k] = "delay"
  /\ loop' = [loop EXCEPT ![k] = "asked"]
  /\ Tell(k, "connected")
  /\ UNCHANGED <<tries, promise, server, to, stopped, heard, client,
                 health, disposed, caught>>

LoopEnds(k) ==
  /\ loop[k] # "off" /\ k \in stopped
  /\ loop' = [loop EXCEPT ![k] = "off"]
  /\ Tell(k, "disconnected")
  /\ UNCHANGED <<tries, promise, server, to, stopped, heard, client,
                 health, disposed, caught>>

(***************************************************************************)
(* The health poll.  What came of a request is told to the adapter there is *)
(* when it ends.                                                            *)
(***************************************************************************)
Poll ==
  /\ poll # 0 /\ poll \notin checks /\ state = "connected"
  /\ checks' = checks \cup {poll}
  /\ UNCHANGED <<state, tries, promise, server, adapters, poll, disposed, caught>>

Healthy(p) ==
  /\ p \in checks /\ proc[p] = "up"
  /\ checks' = checks \ {p}
  /\ UNCHANGED <<state, tries, promise, server, adapters, poll, disposed, caught>>

\* Mutant: the poll stops the loop instead of its attempt.
MutReconnect(k) ==
  /\ loop' = [loop EXCEPT ![k] = "off"]
  /\ Tell(k, "disconnected")

Reconnect(k) ==
  IF loop[k] \in {"asked", "open"}
  THEN loop' = [loop EXCEPT ![k] = "delay"] /\ Tell(k, "connecting")
  ELSE UNCHANGED <<loop, state>>

\* No answer in 3 s, or none that is one.
Unhealthy(p) ==
  /\ p \in checks
  /\ checks' = checks \ {p}
  /\ IF state = "connected" /\ client # 0
     THEN Reconnect(client)
     ELSE UNCHANGED <<loop, state>>
  /\ UNCHANGED <<tries, promise, server, to, stopped, heard, client, poll, disposed, caught>>

(***************************************************************************)
(* The extension is deactivated.                                           *)
(***************************************************************************)
\* Mutant: the timer stays.
MutStopPoll == UNCHANGED poll

StopPoll == poll' = 0

Dispose ==
  /\ ~disposed
  /\ disposed' = TRUE
  /\ caught' = promise
  /\ StopPoll
  /\ stopped' = Stopped(client)
  /\ heard' = Silenced(client)
  /\ proc' = IF instance = 0 THEN proc ELSE [proc EXCEPT ![instance] = "gone"]
  /\ instance' = 0
  /\ client' = 0
  /\ state' = "disconnected"
  /\ UNCHANGED <<tries, promise, loop, to, checks>>

\* What the adapters do by themselves, and their attempts to reach a lost server.
Consume(k) == Again(k) \/ LoopEnds(k) \/ (StreamEnds(k) /\ proc[to[k]] # "up")

Next ==
  \/ StartServer \/ ConnectAgain \/ Poll \/ Dispose
  \/ \E k \in Ids : Started(k) \/ StartFails(k) \/ Exit(k) \/ Healthy(k) \/ Unhealthy(k)
  \/ \E k \in Ids : StreamOpens(k) \/ StreamEnds(k) \/ Again(k) \/ LoopEnds(k)

Spec == Init /\ [][Next]_vars

\* A server that stays answers at some time; nobody need call connect.
FairSpec ==
  /\ Spec
  /\ \A k \in Ids : WF_vars(Consume(k)) /\ SF_vars(StreamOpens(k))

-----------------------------------------------------------------------------
TypeOK ==
  /\ state \in {"connecting", "connected", "disconnected", "error"}
  /\ tries \in 0..MaxConnects
  /\ promise \in BOOLEAN
  /\ proc \in [Ids -> {"none", "starting", "up", "gone"}]
  /\ instance \in {0} \cup Ids
  /\ loop \in [Ids -> {"off", "asked", "open", "delay"}]
  /\ to \in [Ids -> {0} \cup Ids]
  /\ stopped \subseteq Ids
  /\ heard \subseteq Ids
  /\ client \in {0} \cup Ids
  /\ poll \in {0} \cup Ids
  /\ checks \subseteq Ids
  /\ disposed \in BOOLEAN
  /\ caught \in BOOLEAN

\* However the calls of connect, the deaths of servers and the ends of starts
\* interleave: one server, which is the instance once it is up, and one loop.
OneServerOneLoop ==
  /\ \A k \in Ids : proc[k] = "up" => instance = k
  /\ \A k \in Ids : proc[k] = "starting" => instance = 0 /\ promise /\ k = tries
  /\ \A k \in Ids : Runs(k) => k = client

\* The state the views are told is that of the adapter there is: no word of an
\* older one, and none of a health request to an older server, gets in between.
StateIsOfTheAdapter ==
  ~disposed /\ ~promise /\ client # 0 /\ Runs(client) =>
    /\ state = "connected" <=> loop[client] \in {"asked", "open"}
    /\ state = "connecting" <=> loop[client] = "delay"

\* A service that is disposed leaves no server, no loop, no timer and no client,
\* but where it awaited its server: then doConnect goes on and makes them all,
\* and the server outlives the extension.
NothingOutlivesDispose ==
  disposed /\ ~caught =>
    /\ instance = 0 /\ poll = 0 /\ client = 0
    /\ \A k \in Ids : proc[k] \in {"none", "gone"} /\ ~Runs(k)

\* While a server stays, its stream is opened again after every way to lose it.
StreamComesBack ==
  \A k \in Ids :
    <>[](client = k /\ k \notin stopped /\ proc[to[k]] = "up") => []<>(loop[k] = "open")

\* A stream that was open to a server that died is given up, and told so.
LossIsTold ==
  \A k \in Ids :
    (client = k /\ loop[k] = "open" /\ proc[to[k]] = "gone") ~> state # "connected"

\* A broken stream is taken up again or, with its server dead, told as lost.
StreamIsWatched == StreamComesBack /\ LossIsTold
=============================================================================
