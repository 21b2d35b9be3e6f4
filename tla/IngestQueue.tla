----------------------------- MODULE IngestQueue -----------------------------
(***************************************************************************)
(* Updates of one session on their way to the share server: coalesced in   *)
(* a queue, flushed at most once per window, and put back when a request   *)
(* fails in a way that may pass                                            *)
(* (packages/opencode/src/kilo-sessions/ingest-queue.ts).                  *)
(*                                                                         *)
(* Sessions share nothing, so one stands for all.  An item is a key and    *)
(* the version of the entity it carries: which reading of it this is, by   *)
(* an event or by the full sync of kilo-sessions.ts.  What was read waits  *)
(* for more than one await before it reaches the queue, and readings may   *)
(* overtake one another there.  Times count seconds from now, 0 standing   *)
(* for any time that has passed.                                           *)
(***************************************************************************)
EXTENDS Naturals, Sequences

CONSTANTS
  Keys,         \* the entities of the session that change: messages, parts
  Requests,     \* bound: the requests that can be in flight at once
  Budget,       \* retries before an item is given up (6)
  MaxVersion    \* bound: readings of an entity

ASSUME BudgetAssumption == Budget \in Nat \ {0}
ASSUME VersionAssumption == MaxVersion \in Nat

VARIABLES
  data,        \* queue: the version queued for each key, 0 if none is
  due,         \* queue: when the queued items are to be flushed
  retry,       \* retry: failures in a row, and until when to back off
  request,     \* the items each request carries
  version,     \* the newest version of each entity
  coming,      \* the calls of sync that wait for the client: their items
  given,       \* history: the version of each entity the queue was given last
  settled,     \* history: versions the server answered for, or given up
  overlapped   \* history: two requests were in flight at once

vars == <<data, due, retry, request, version, coming, given, settled, overlapped>>

Window  == 1
NoItems == [k \in Keys |-> 0]
NoRetry == [count |-> 0, until |-> 0]
Queued  == data # NoItems
Flying(q) == request[q] # NoItems

Larger(a, b) == IF a > b THEN a ELSE b

\* Doubled from a second on; the cap of a minute is out of reach.
Backoff(count) == <<1, 2, 4, 8, 16, 32>>[IF count > 6 THEN 6 ELSE count]

Init ==
  /\ data = NoItems
  /\ due = 0
  /\ retry = NoRetry
  /\ request = [q \in Requests |-> NoItems]
  /\ version = NoItems
  /\ coming = {}
  /\ given = NoItems
  /\ settled = {}
  /\ overlapped = FALSE

\* Mutant: a flush that is planned is never moved later.
MutSchedule(time) == due' = IF Queued THEN due ELSE time

\* A planned flush is only ever moved later.
Schedule(time) == due' = IF Queued THEN Larger(due, time) ELSE time

\* Mutant: items put back take the place of queued ones.
MutFill(items, time) ==
  /\ data' = [k \in Keys |-> IF items[k] # 0 THEN items[k] ELSE data[k]]
  /\ Schedule(time)

\* Mutant: the items of an update do not take the place of queued ones.
MutOverwrite(items, time) ==
  /\ data' = [k \in Keys |-> IF data[k] # 0 THEN data[k] ELSE items[k]]
  /\ Schedule(time)

\* enqueue: the items of an update take the place of queued ones, items put
\* back do not.
Overwrite(items, time) ==
  /\ data' = [k \in Keys |-> IF items[k] # 0 THEN items[k] ELSE data[k]]
  /\ Schedule(time)

Fill(items, time) ==
  /\ data' = [k \in Keys |-> IF data[k] # 0 THEN data[k] ELSE items[k]]
  /\ Schedule(time)

\* The entities ks are read, and sync is called with what was read: it awaits
\* the client first, and so do callers that await other data for the same call.
Read(ks) ==
  /\ \A k \in ks : version[k] < MaxVersion
  /\ version' = [k \in Keys |-> IF k \in ks THEN version[k] + 1 ELSE version[k]]
  /\ coming' = coming \cup {[k \in Keys |-> IF k \in ks THEN version[k] + 1 ELSE 0]}
  /\ UNCHANGED <<data, due, retry, request, given, settled, overlapped>>

\* There is a client: the queue is given the items, whatever it was given since
\* they were read.
Sync(items) ==
  /\ items \in coming
  /\ coming' = coming \ {items}
  /\ given' = [k \in Keys |-> IF items[k] # 0 THEN items[k] ELSE given[k]]
  /\ Overwrite(items, Larger(IF Queued THEN due ELSE Window, retry.until))
  /\ UNCHANGED <<retry, request, version, settled, overlapped>>

\* There is no client: the items are dropped.
Skip(items) ==
  /\ items \in coming
  /\ coming' = coming \ {items}
  /\ UNCHANGED <<data, due, retry, request, version, given, settled, overlapped>>

\* The timer fires: the queue is emptied before the request is sent.
Flush(q) ==
  /\ Queued /\ due = 0
  /\ ~Flying(q)
  /\ request' = [request EXCEPT ![q] = data]
  /\ data' = NoItems
  /\ overlapped' = (overlapped \/ \E p \in Requests : Flying(p))
  /\ UNCHANGED <<due, retry, version, coming, given, settled>>

\* The request q is over, and its items with it.
Finish(q) ==
  /\ request' = [request EXCEPT ![q] = NoItems]
  /\ settled' = settled \cup {<<k, request[q][k]>> : k \in {j \in Keys : request[q][j] # 0}}

\* The session is not shared or nobody is logged in: nothing was sent.
Unsent(q) ==
  /\ Flying(q)
  /\ Finish(q)
  /\ UNCHANGED <<data, due, retry, version, coming, given, overlapped>>

\* The server took the items, or answered that it never will.
Answered(q) ==
  /\ Flying(q)
  /\ Finish(q)
  /\ retry' = NoRetry
  /\ UNCHANGED <<data, due, version, coming, given, overlapped>>

\* Mutant: the items are put back however often they failed.
MutFailed(q) ==
  /\ Flying(q)
  /\ LET count == Larger(retry.count, 1)
     IN /\ retry' = [count |-> count, until |-> Backoff(count)]
        /\ Fill(request[q], Backoff(count))
        /\ request' = [request EXCEPT ![q] = NoItems]
        /\ UNCHANGED settled
  /\ UNCHANGED <<version, coming, given, overlapped>>

\* No response, or one that may be better later: the items are put back, to be
\* sent after a pause, until the budget is spent.
Failed(q) ==
  /\ Flying(q)
  /\ LET count == retry.count + 1
     IN IF count > Budget
        THEN /\ Finish(q)
             /\ retry' = NoRetry
             /\ UNCHANGED <<data, due>>
        ELSE /\ retry' = [count |-> count, until |-> Backoff(count)]
             /\ Fill(request[q], Backoff(count))
             /\ request' = [request EXCEPT ![q] = NoItems]
             /\ UNCHANGED settled
  /\ UNCHANGED <<version, coming, given, overlapped>>

Earlier(time) == IF time = 0 THEN 0 ELSE time - 1

Tick ==
  /\ due # 0 \/ retry.until # 0
  /\ due' = Earlier(due)
  /\ retry' = [retry EXCEPT !.until = Earlier(retry.until)]
  /\ UNCHANGED <<data, request, version, coming, given, settled, overlapped>>

Ends(q) == Unsent(q) \/ Answered(q) \/ Failed(q)

Next ==
  \/ \E ks \in SUBSET Keys : ks # {} /\ Read(ks)
  \/ \E items \in coming : Sync(items) \/ Skip(items)
  \/ \E q \in Requests : Flush(q) \/ Ends(q)
  \/ Tick

Spec == Init /\ [][Next]_vars

\* Time passes, the client is found or not, timers fire, and a request ends in
\* one way or another.
Fairness ==
  /\ WF_vars(\E items \in coming : Sync(items) \/ Skip(items))
  /\ WF_vars(Tick)
  /\ WF_vars(\E q \in Requests : Flush(q))
  /\ \A q \in Requests : WF_vars(Ends(q))
FairSpec == Spec /\ Fairness

-----------------------------------------------------------------------------
Versions == [Keys -> 0..MaxVersion]
Times == 0..32

TypeOK ==
  /\ data \in Versions
  /\ due \in Times
  /\ retry \in [count : 0..Budget, until : Times]
  /\ request \in [Requests -> Versions]
  /\ version \in Versions
  /\ coming \subseteq Versions
  /\ given \in Versions
  /\ settled \subseteq Keys \X (1..MaxVersion)
  /\ overlapped \in BOOLEAN

\* Updates and failures that come in while items are queued never bring the
\* flush forward into the pause that a failure asked for.
DueRespectsBackoff == Queued => due >= retry.until

\* The version of an entity that the queue was given last is queued or on its
\* way until the server answers for it or it is given up.
LastGivenIsKept ==
  \A k \in Keys : given[k] # 0 =>
    \/ data[k] = given[k]
    \/ \E q \in Requests : request[q][k] = given[k]
    \/ <<k, given[k]>> \in settled

\* While one request at a time is in flight a failed request does not push
\* aside what the queue was given meanwhile.
LastGivenIsKeptInTurn == ~overlapped => LastGivenIsKept

\* While one request at a time is in flight, what is sent is what the queue was
\* given last, also of what is sent again: so the server sees the versions of an
\* entity in the order the queue saw them, whether or not a request that failed
\* had reached it.  That need not be the order in which they were read.
SendsLastGivenInTurn ==
  [][\A q \in Requests, k \in Keys :
       ~overlapped' /\ request'[q] # request[q] /\ request'[q][k] # 0 =>
         request'[q][k] = given[k]]_vars

\* When the session stops changing the queue empties, even if no request ever
\* succeeds: failures are not repeated for ever.
SyncingEnds == <>[](coming = {} /\ ~Queued /\ \A q \in Requests : ~Flying(q))
=============================================================================
