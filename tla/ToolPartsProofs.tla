--------------------------- MODULE ToolPartsProofs ---------------------------
(***************************************************************************)
(* Proofs about ToolParts, for any calls and any number of retries: what    *)
(* becomes of the parts of an answer.                                       *)
(*                                                                         *)
(* The argument follows the calls of the request at work (Made) through the *)
(* stream: an outcome is still to come, is in the queue behind the call it  *)
(* belongs to, or was read and stored, unless the stream failed.            *)
(***************************************************************************)
EXTENDS ToolParts, TLAPS

Events == [type : {"finish-step", "error"}] \cup [type : EventTypes, call : Calls]

Types ==
  /\ phase \in {"opening", "reading", "doom", "sleeping", "closing", "done"}
  /\ attempt \in Nat /\ (RetryLimit # Unlimited => attempt <= RetryLimit)
  /\ events \in Seq(Events)
  /\ toolcalls \in [Calls -> {"none"} \cup Open]
  /\ part \in [Calls -> Statuses]
  /\ inner \in [Calls -> Statuses]
  /\ tool \in [Calls -> {"none", "announced"} \cup Going \cup Outcomes]
  /\ asked \in [Calls -> Nat]
  /\ abort \in BOOLEAN /\ blocked \in BOOLEAN /\ compact \in BOOLEAN /\ failed \in BOOLEAN
  /\ verdict \in {"none", "compact", "stop", "continue"}
  /\ late \subseteq Calls
  /\ overruled \subseteq Calls

-----------------------------------------------------------------------------
(***************************************************************************)
(* The queue of events.                                                    *)
(***************************************************************************)
LEMMA TailAt ==
  ASSUME NEW S, NEW s \in Seq(S), s # <<>>
  PROVE  /\ Tail(s) \in Seq(S)
         /\ Len(s) \in Nat \ {0}
         /\ DOMAIN s = 1..Len(s)
         /\ Head(s) = s[1] /\ Head(s) \in S
         /\ Len(Tail(s)) = Len(s) - 1
         /\ DOMAIN Tail(s) = 1..(Len(s) - 1)
         /\ \A i \in DOMAIN Tail(s) : i + 1 \in DOMAIN s /\ Tail(s)[i] = s[i + 1]
         /\ \A i \in DOMAIN s : i = 1 \/ (i - 1 \in DOMAIN Tail(s) /\ Tail(s)[i - 1] = s[i])
  OBVIOUS

LEMMA AppendAt ==
  ASSUME NEW S, NEW s \in Seq(S), NEW e \in S
  PROVE  /\ Append(s, e) \in Seq(S)
         /\ Len(s) \in Nat
         /\ DOMAIN s = 1..Len(s)
         /\ Len(Append(s, e)) = Len(s) + 1
         /\ DOMAIN Append(s, e) = 1..(Len(s) + 1)
         /\ Append(s, e)[Len(s) + 1] = e
         /\ \A i \in DOMAIN s : Append(s, e)[i] = s[i]
  OBVIOUS

LEMMA EventTyped ==
  /\ \A t \in EventTypes, c \in Calls : [type |-> t, call |-> c] \in Events
  /\ \A t \in {"finish-step", "error"} : [type |-> t] \in Events
  /\ \A e \in Events : \/ e.type \in {"finish-step", "error"}
                       \/ e.type \in EventTypes /\ e.call \in Calls
  BY DEF Events

LEMMA HeadOfCall ==
  ASSUME Types, events # <<>>, Head(events).type \in EventTypes
  PROVE  Head(events).call \in Calls
  <1>1. Head(events) \in Events
    BY TailAt DEF Types
  <1>2. Head(events).type \notin {"finish-step", "error"}
    BY DEF EventTypes
  <1>. QED  BY <1>1, <1>2, EventTyped

LEMMA Emitted ==
  ASSUME Types, NEW t \in EventTypes, NEW c \in Calls, Emit(t, c)
  PROVE  events' \in Seq(Events)
  <1>1. [type |-> t, call |-> c] \in Events
    BY EventTyped
  <1>. QED  BY <1>1, AppendAt DEF Types, Emit

LEMMA ThrownTypes ==
  ASSUME Types, NEW kind, Thrown(kind)
  PROVE  /\ phase' \in {"closing", "sleeping"}
         /\ attempt' \in Nat /\ (RetryLimit # Unlimited => attempt' <= RetryLimit)
         /\ events' \in Seq(Events)
         /\ compact' \in BOOLEAN /\ failed' \in BOOLEAN
  <1>1. events' \in Seq(Events)
    BY DEF Thrown
  <1>2. CASE kind = "overflow"
    <2>1. phase' = "closing" /\ compact' = TRUE /\ UNCHANGED <<attempt, failed>>
      BY <1>2 DEF Thrown
    <2>. QED  BY <1>1, <2>1 DEF Types
  <1>3. CASE /\ kind # "overflow" /\ kind = "retryable"
             /\ RetryLimit = Unlimited \/ attempt < RetryLimit
    <2>1. phase' = "sleeping" /\ attempt' = attempt + 1 /\ UNCHANGED <<compact, failed>>
      BY <1>3 DEF Thrown
    <2>2. attempt' \in Nat /\ (RetryLimit # Unlimited => attempt' <= RetryLimit)
      BY <1>3, <2>1, RetryLimitAssumption DEF Types
    <2>. QED  BY <1>1, <2>1, <2>2 DEF Types
  <1>4. CASE /\ kind # "overflow"
             /\ ~(kind = "retryable" /\ (RetryLimit = Unlimited \/ attempt < RetryLimit))
    <2>1. phase' = "closing" /\ failed' = TRUE /\ UNCHANGED <<attempt, compact>>
      BY <1>4 DEF Thrown
    <2>. QED  BY <1>1, <2>1 DEF Types
  <1>. QED  BY <1>2, <1>3, <1>4

LEMMA PutTypes ==
  ASSUME Types, events # <<>>, NEW c \in Calls, NEW s \in Statuses,
         NEW r \in {"none"} \cup Open, Put(c, s, r)
  PROVE  /\ part' \in [Calls -> Statuses]
         /\ toolcalls' \in [Calls -> {"none"} \cup Open]
         /\ events' \in Seq(Events)
  <1>1. events' \in Seq(Events)
    BY TailAt DEF Types, Put
  <1>. QED  BY <1>1 DEF Types, Put

LEMMA TypesInit == Init => Types
  <1>1. RetryLimit # Unlimited => 0 <= RetryLimit
    BY RetryLimitAssumption
  <1>2. Init => events \in Seq(Events)
    BY DEF Init
  <1>3. Init => asked \in [Calls -> Nat] /\ attempt \in Nat
    BY DEF Init
  <1>4. Init => (RetryLimit # Unlimited => attempt <= RetryLimit)
    BY <1>1 DEF Init
  <1>. QED  BY <1>2, <1>3, <1>4 DEF Init, Types, Statuses

LEMMA TypesStep ==
  ASSUME Types, [Next]_vars
  PROVE  Types'
  <1>. USE RetryLimitAssumption
  <1>1. CASE OpenStream
    <2>1. CASE phase' = "reading" /\ UNCHANGED <<attempt, events, compact, failed>>
      BY <1>1, <2>1 DEF OpenStream, Types
    <2>2. ASSUME NEW k \in Errors, Thrown(k) PROVE Types'
      BY <1>1, <2>2, ThrownTypes DEF OpenStream, Types
    <2>. QED  BY <1>1, <2>1, <2>2 DEF OpenStream
  <1>2. CASE ReadInputStart
    <2>1. Head(events).call \in Calls
      BY <1>2, HeadOfCall DEF ReadInputStart, Reads, EventTypes
    <2>2. "pending" \in Statuses /\ "pending" \in Open
      BY DEF Statuses, Open
    <2>. QED  BY <1>2, <2>1, <2>2, PutTypes DEF ReadInputStart, Reads, Types, Result
  <1>3. CASE ReadCall
    <2>1. Head(events).call \in Calls
      BY <1>3, HeadOfCall DEF ReadCall, Reads, EventTypes
    <2>2. "running" \in Statuses /\ "running" \in Open
      BY DEF Statuses, Open
    <2>. QED  BY <1>3, <2>1, <2>2, PutTypes DEF ReadCall, Called, Reads, Types, Result
  <1>4. ASSUME NEW t \in {"tool-result", "tool-error"}, NEW s \in {"completed", "error"},
               ReadOutcome(t, s)
        PROVE Types'
    <2>1. Head(events).call \in Calls
      BY <1>4, HeadOfCall DEF ReadOutcome, Reads, EventTypes
    <2>2. s \in Statuses /\ events # <<>>
      BY <1>4 DEF Statuses, ReadOutcome, Reads
    <2>3. CASE toolcalls[Head(events).call] = "running"
      <3>1. blocked' \in BOOLEAN
        BY <1>4, <2>3, ShouldBreakAssumption DEF ReadOutcome, Blocks, Types
      <3>. QED  BY <1>4, <2>1, <2>2, <2>3, <3>1, PutTypes DEF ReadOutcome, Types
    <2>4. CASE toolcalls[Head(events).call] # "running"
      <3>1. events' \in Seq(Events)
        <4>1. events' = Tail(events)
          BY <1>4, <2>4 DEF ReadOutcome
        <4>. QED  BY <2>2, <4>1, TailAt DEF Types
      <3>. QED  BY <1>4, <2>4, <3>1 DEF ReadOutcome, Types
    <2>. QED  BY <2>3, <2>4
  <1>5. CASE ReadFinish
    <2>1. events' \in Seq(Events) /\ compact' \in BOOLEAN
      <3>1. events' = <<>> /\ (compact' = compact \/ compact' = TRUE)
        BY <1>5 DEF ReadFinish
      <3>2. events' \in Seq(Events)
        BY <3>1
      <3>3. compact' \in BOOLEAN
        BY <3>1, Zenon DEF Types
      <3>. QED  BY <3>2, <3>3
    <2>. QED  BY <1>5, <2>1 DEF ReadFinish, Types
  <1>6. CASE ReadFailure
    BY <1>6, ThrownTypes DEF ReadFailure, Types
  <1>7. CASE ReadAborted
    BY <1>7, ThrownTypes DEF ReadAborted, Types
  <1>8. CASE Wake
    BY <1>8 DEF Wake, Types, Result
  <1>9. CASE Close
    <2>1. part' \in [Calls -> Statuses] /\ inner' \in [Calls -> Statuses]
      BY <1>9 DEF Close, Closed, Types, Statuses, Open
    <2>. QED  BY <1>9, <2>1 DEF Close, Types
  <1>10. CASE AnswerDoom
    <2>1. CASE phase' = "reading" /\ UNCHANGED <<attempt, events, compact, failed>>
      BY <1>10, <2>1 DEF AnswerDoom, Types
    <2>2. CASE Thrown("other")
      BY <1>10, <2>2, ThrownTypes DEF AnswerDoom, Types
    <2>. QED  BY <1>10, <2>1, <2>2 DEF AnswerDoom
  <1>11. CASE FinishStep
    <2>1. events' \in Seq(Events)
      BY <1>11, EventTyped, AppendAt DEF FinishStep, Types
    <2>. QED  BY <1>11, <2>1 DEF FinishStep, Types, Result
  <1>12. CASE StreamFails
    <2>1. events' \in Seq(Events)
      BY <1>12, EventTyped, AppendAt DEF StreamFails, Types
    <2>. QED  BY <1>12, <2>1 DEF StreamFails, Types, Result
  <1>13. CASE Abort
    BY <1>13 DEF Abort, Types, Result
  <1>14. ASSUME NEW c \in Calls, Announce(c) PROVE Types'
    <2>1. events' \in Seq(Events)
      BY <1>14, Emitted DEF Announce, EventTypes
    <2>. QED  BY <1>14, <2>1 DEF Announce, Types, Result
  <1>15. ASSUME NEW c \in Calls, Call(c) PROVE Types'
    <2>1. events' \in Seq(Events)
      BY <1>15, Emitted DEF Call, EventTypes
    <2>. QED  BY <1>15, <2>1 DEF Call, Types, Result, Going
  <1>16. ASSUME NEW c \in Calls, End(c) PROVE Types'
    <2>1. PICK o \in Outcomes :
            /\ tool' = [tool EXCEPT ![c] = o]
            /\ IF Live /\ ~Over /\ asked[c] = attempt
               THEN Emit(IF o = "returned" THEN "tool-result" ELSE "tool-error", c)
               ELSE UNCHANGED events
      BY <1>16 DEF End
    <2>2. events' \in Seq(Events)
      <3>1. (IF o = "returned" THEN "tool-result" ELSE "tool-error") \in EventTypes
        BY DEF EventTypes
      <3>. QED  BY <2>1, <3>1, Emitted DEF Types
    <2>. QED  BY <1>16, <2>1, <2>2 DEF End, Types, Result
  <1>17. ASSUME NEW c \in Calls, Metadata(c) PROVE Types'
    BY <1>17 DEF Metadata, Types, Result, Statuses
  <1>18. ASSUME NEW c \in Calls, InnerStart(c) PROVE Types'
    BY <1>18 DEF InnerStart, Types, Result, Statuses, Going
  <1>19. ASSUME NEW c \in Calls, InnerEnd(c) PROVE Types'
    BY <1>19 DEF InnerEnd, Types, Result, Statuses, Going
  <1>20. CASE UNCHANGED vars
    BY <1>20 DEF vars, Types
  <1>. QED  BY <1>1, <1>2, <1>3, <1>4, <1>5, <1>6, <1>7, <1>8, <1>9, <1>10, <1>11, <1>12,
               <1>13, <1>14, <1>15, <1>16, <1>17, <1>18, <1>19, <1>20
            DEF Next, Process, ReadResult, ReadError

\* What is stored and remembered of an answer has its type.
THEOREM ToolType == Spec => []TypeOK
<1>1. Types => TypeOK
  <2>1. Types => \A i \in DOMAIN events : events[i] \in Events
    BY DEF Types
  <2>. QED  BY <2>1, EventTyped DEF Types, TypeOK
<1> QED
  BY <1>1, TypesInit, TypesStep, PTL DEF Spec
-----------------------------------------------------------------------------
(***************************************************************************)
(* What is remembered of a call and what is stored of it go together until  *)
(* the answer is closed; afterwards only a tool that outlives it writes.    *)
(***************************************************************************)
Remembered ==
  \A c \in Calls :
    /\ tool[c] = "none" => toolcalls[c] = "none" /\ part[c] = "none"
    /\ tool[c] = "announced" => toolcalls[c] # "running"
    /\ phase # "done" =>
         /\ tool[c] = "announced" /\ toolcalls[c] = "none" => part[c] = "none"
         /\ toolcalls[c] # "none" => part[c] = toolcalls[c]
    /\ phase = "done" =>
         /\ toolcalls[c] = "running" => part[c] \in {"running", "error"}
         /\ tool[c] \in Going => c \in late
         /\ c \notin late => part[c] \notin Open

\* The part of the inner call of a batch follows the tool.
Inside ==
  \A c \in Calls :
    /\ tool[c] \in {"none", "announced", "going"} => inner[c] = "none"
    /\ tool[c] = "waiting" => inner[c] = "running" \/ (phase = "done" /\ inner[c] = "error")
    /\ tool[c] # "waiting" => inner[c] # "running"
    /\ phase = "done" /\ c \notin late => inner[c] \notin Open

Made(c) == asked[c] = attempt /\ tool[c] # "none"

\* The outcome of c was read.
PartOf(c) == IF tool[c] = "returned" THEN "completed" ELSE "error"
Settled(c) ==
  /\ tool[c] \in Outcomes /\ toolcalls[c] = "none" /\ part[c] = PartOf(c)
  /\ tool[c] = "rejected" /\ ShouldBreak => blocked

OutcomeOf(c) == IF tool[c] = "returned" THEN "tool-result" ELSE "tool-error"
In(t, c) == \E i \in DOMAIN events : events[i].type = t /\ events[i].call = c
Reached(c) == In("tool-call", c) \/ toolcalls[c] = "running"

\* An event of type t about c may stand in the queue.
Fits(t, c) ==
  /\ Made(c)
  /\ t = "tool-input-start" => toolcalls[c] = "none" /\ part[c] = "none"
  /\ t = "tool-call" => /\ toolcalls[c] # "running" /\ part[c] \in {"none", "pending"}
                        /\ tool[c] # "announced"
  /\ t \in {"tool-result", "tool-error"} =>
       tool[c] \in Outcomes /\ t = OutcomeOf(c) /\ Reached(c)

Rank(t) == IF t = "tool-input-start" THEN 1 ELSE IF t = "tool-call" THEN 2 ELSE 3

InOrder ==
  /\ \A i \in DOMAIN events : events[i].type \notin EventTypes => i = Len(events)
  /\ \A i \in DOMAIN events :
       events[i].type \in EventTypes => Fits(events[i].type, events[i].call)
  /\ \A i, j \in DOMAIN events :
       i < j /\ events[j].type \in EventTypes /\ events[i].call = events[j].call
         => Rank(events[i].type) < Rank(events[j].type)

\* No outcome of the request at work is missing from the queue unless it was
\* read, is still to come or comes too late for a stream that failed.
Complete ==
  \A c \in Calls : Made(c) =>
    /\ tool[c] \in Going => Reached(c)
    /\ tool[c] \in Outcomes =>
         \/ Settled(c) \/ In(OutcomeOf(c), c)
         \/ \E i \in DOMAIN events : events[i].type = "error"
    /\ (\E i \in DOMAIN events : events[i].type = "finish-step") => tool[c] \in Outcomes

Between == events = <<>> /\ \A c \in Calls : tool[c] # "none" => asked[c] < attempt

Finished == ~compact /\ ~failed => \A c \in Calls : Made(c) => Settled(c)

Judged ==
  IF phase = "done"
  THEN verdict = IF compact THEN "compact"
                 ELSE IF blocked \/ failed THEN "stop" ELSE "continue"
  ELSE verdict = "none"

StreamInv ==
  /\ \A c \in Calls : asked[c] <= attempt
  /\ phase \in {"reading", "doom"} => InOrder /\ Complete
  /\ phase \in {"opening", "sleeping"} => Between
  /\ phase \in {"closing", "done"} => Finished
  /\ Judged

ToolInv == Types /\ Remembered /\ Inside /\ StreamInv

-----------------------------------------------------------------------------
LEMMA ThrownPhase ==
  ASSUME NEW kind, Thrown(kind)
  PROVE  /\ events' = <<>>
         /\ \/ phase' = "closing" /\ attempt' = attempt /\ (compact' = TRUE \/ failed' = TRUE)
            \/ phase' = "sleeping" /\ attempt' = attempt + 1
  BY DEF Thrown

LEMMA HeadFits ==
  ASSUME Types, InOrder, events # <<>>, Head(events).type \in EventTypes
  PROVE  /\ Head(events).call \in Calls
         /\ Fits(Head(events).type, Head(events).call)
         /\ Head(events).type \in {"tool-result", "tool-error"} =>
              toolcalls[Head(events).call] = "running"
  <1>. DEFINE c == Head(events).call
              t == Head(events).type
  <1>1. 1 \in DOMAIN events /\ events[1] = Head(events) /\ DOMAIN events = 1..Len(events)
        /\ Len(events) \in Nat \ {0}
    BY TailAt DEF Types
  <1>2. Fits(t, c)
    BY <1>1 DEF InOrder
  <1>3. ASSUME t \in {"tool-result", "tool-error"}, toolcalls[c] # "running" PROVE FALSE
    <2>1. PICK i \in DOMAIN events : events[i].type = "tool-call" /\ events[i].call = c
      BY <1>2, <1>3 DEF Fits, Reached, In
    <2>2. i # 1
      BY <1>1, <1>3, <2>1
    <2>3. 1 < i
      BY <1>1, <2>1, <2>2
    <2>4. Rank(t) < Rank("tool-call")
      BY <1>1, <2>1, <2>3 DEF InOrder, EventTypes
    <2>. QED  BY <1>3, <2>4 DEF Rank
  <1>. QED  BY <1>2, <1>3, HeadOfCall

\* Steps that leave all that is stored and remembered of the calls alone.
LEMMA Quiet ==
  ASSUME Remembered, Inside, UNCHANGED <<toolcalls, part, inner, tool, late>>,
         phase' = phase \/ (phase # "done" /\ phase' # "done")
  PROVE  Remembered' /\ Inside'
  BY DEF Remembered, Inside

LEMMA QuietSteps ==
  ASSUME \/ OpenStream \/ ReadFinish \/ ReadFailure \/ ReadAborted \/ Wake
         \/ AnswerDoom \/ FinishStep \/ StreamFails \/ Abort \/ UNCHANGED vars
  PROVE  /\ UNCHANGED <<toolcalls, part, inner, tool, asked, late, verdict, blocked>>
         /\ phase' = phase \/ (phase # "done" /\ phase' # "done")
  BY ThrownPhase DEF OpenStream, ReadFinish, ReadFailure, ReadAborted, Wake, AnswerDoom,
     FinishStep, StreamFails, Abort, Result, Reads, vars

LEMMA RememberedStep ==
  ASSUME ToolInv, [Next]_vars
  PROVE  Remembered' /\ Inside'
  <1>. USE DEF ToolInv
  <1>0. /\ Types /\ Remembered /\ Inside
        /\ tool \in [Calls -> {"none", "announced"} \cup Going \cup Outcomes]
        /\ part \in [Calls -> Statuses] /\ inner \in [Calls -> Statuses]
        /\ toolcalls \in [Calls -> {"none"} \cup Open]
    BY DEF Types
  <1>1. CASE \/ OpenStream \/ ReadFinish \/ ReadFailure \/ ReadAborted \/ Wake
             \/ AnswerDoom \/ FinishStep \/ StreamFails \/ Abort \/ UNCHANGED vars
    BY <1>1, Quiet, QuietSteps
  <1>2. CASE ReadInputStart
    <2>1. /\ phase = "reading" /\ events # <<>> /\ Head(events).type = "tool-input-start"
          /\ Put(Head(events).call, "pending", "pending")
          /\ UNCHANGED <<phase, inner, tool, late>>
      BY <1>2 DEF ReadInputStart, Reads, Result
    <2>2. PICK c \in Calls : c = Head(events).call /\ Fits("tool-input-start", c)
      BY <2>1, HeadFits DEF StreamInv, EventTypes
    <2>3. tool[c] # "none"
      BY <2>2 DEF Fits, Made
    <2>. QED  BY <1>0, <2>1, <2>2, <2>3 DEF Put, Remembered, Inside
  <1>3. CASE ReadCall
    <2>1. /\ phase = "reading" /\ events # <<>> /\ Head(events).type = "tool-call"
          /\ Put(Head(events).call, "running", "running")
          /\ phase' # "done" /\ UNCHANGED <<inner, tool, late>>
      BY <1>3 DEF ReadCall, Reads, Called, Result
    <2>2. PICK c \in Calls : c = Head(events).call /\ Fits("tool-call", c)
      BY <2>1, HeadFits DEF StreamInv, EventTypes
    <2>3. tool[c] \notin {"none", "announced"}
      BY <2>2 DEF Fits, Made
    <2>. QED  BY <1>0, <2>1, <2>2, <2>3 DEF Put, Remembered, Inside
  <1>4. ASSUME NEW t \in {"tool-result", "tool-error"}, NEW s \in {"completed", "error"},
               ReadOutcome(t, s)
        PROVE Remembered' /\ Inside'
    <2>1. /\ phase = "reading" /\ events # <<>> /\ Head(events).type = t
          /\ phase' = phase /\ UNCHANGED <<inner, tool, late>>
      BY <1>4 DEF ReadOutcome, Reads
    <2>2. PICK c \in Calls : /\ c = Head(events).call /\ Fits(t, c)
                             /\ toolcalls[c] = "running"
      BY <2>1, HeadFits DEF StreamInv, EventTypes
    <2>3. tool[c] \in Outcomes /\ tool[c] \notin {"none", "announced"}
      BY <2>2 DEF Fits, Outcomes
    <2>4. Put(c, s, "none")
      BY <1>4, <2>2 DEF ReadOutcome
    <2>. QED  BY <1>0, <2>1, <2>3, <2>4 DEF Put, Remembered, Inside
  <1>5. CASE Close
    <2>1. /\ phase = "closing" /\ phase' = "done"
          /\ part' = [c \in Calls |-> Closed(part[c])]
          /\ inner' = [c \in Calls |-> Closed(inner[c])]
          /\ late' = {c \in Calls : tool[c] \in Going}
          /\ UNCHANGED <<toolcalls, tool>>
      BY <1>5 DEF Close
    <2>. QED  BY <1>0, <2>1 DEF Remembered, Inside, Closed, Open, Going
  <1>6. ASSUME NEW c \in Calls, Announce(c) PROVE Remembered' /\ Inside'
    <2>1. /\ tool[c] = "none" /\ tool' = [tool EXCEPT ![c] = "announced"]
          /\ phase \in {"reading", "doom"}
          /\ UNCHANGED <<phase, toolcalls, part, inner, late>>
      BY <1>6 DEF Announce, Live, Result
    <2>. QED  BY <1>0, <2>1 DEF Remembered, Inside, Going
  <1>7. ASSUME NEW c \in Calls, Call(c) PROVE Remembered' /\ Inside'
    <2>1. /\ tool[c] \in {"none", "announced"} /\ tool' = [tool EXCEPT ![c] = "going"]
          /\ phase \in {"reading", "doom"}
          /\ UNCHANGED <<phase, toolcalls, part, inner, late>>
      BY <1>7 DEF Call, Live, Result
    <2>. QED  BY <1>0, <2>1 DEF Remembered, Inside, Going
  <1>8. ASSUME NEW c \in Calls, End(c) PROVE Remembered' /\ Inside'
    <2>1. PICK o \in Outcomes : tool' = [tool EXCEPT ![c] = o]
      BY <1>8 DEF End
    <2>2. tool[c] \in {"going", "collected"} /\ UNCHANGED <<phase, toolcalls, part, inner, late>>
      BY <1>8 DEF End, Result
    <2>. QED  BY <1>0, <2>1, <2>2 DEF Remembered, Inside, Going, Outcomes
  <1>9. ASSUME NEW c \in Calls, Metadata(c) PROVE Remembered' /\ Inside'
    BY <1>0, <1>9 DEF Metadata, Result, Remembered, Inside, Going
  <1>10. ASSUME NEW c \in Calls, InnerStart(c) PROVE Remembered' /\ Inside'
    BY <1>0, <1>10 DEF InnerStart, Result, Remembered, Inside, Going
  <1>11. ASSUME NEW c \in Calls, InnerEnd(c) PROVE Remembered' /\ Inside'
    BY <1>0, <1>11 DEF InnerEnd, Result, Remembered, Inside, Going, Open
  <1>. QED  BY <1>1, <1>2, <1>3, <1>4, <1>5, <1>6, <1>7, <1>8, <1>9, <1>10, <1>11
            DEF Next, Process, ReadResult, ReadError

-----------------------------------------------------------------------------
(***************************************************************************)
(* The queue grows at its end while the stream is not over, and is read     *)
(* from its head.                                                          *)
(***************************************************************************)
LEMMA Grown ==
  ASSUME Types, InOrder, ~Over, NEW e \in Events, events' = Append(events, e)
  PROVE  /\ Len(events) \in Nat /\ Len(events') = Len(events) + 1
         /\ DOMAIN events = 1..Len(events) /\ DOMAIN events' = 1..(Len(events) + 1)
         /\ events'[Len(events) + 1] = e
         /\ \A i \in DOMAIN events : events'[i] = events[i] /\ events[i].type \in EventTypes
         /\ \A t : \A c \in Calls : In(t, c) => In(t, c)'
  <1>1. /\ Len(events) \in Nat /\ Len(events') = Len(events) + 1
        /\ DOMAIN events = 1..Len(events) /\ DOMAIN events' = 1..(Len(events) + 1)
        /\ events'[Len(events) + 1] = e
        /\ \A i \in DOMAIN events : events'[i] = events[i]
    BY AppendAt DEF Types
  <1>2. ASSUME NEW i \in DOMAIN events PROVE events[i].type \in EventTypes
    <2>1. events # <<>>
      BY <1>1
    <2>2. events[Len(events)].type \notin {"finish-step", "error"}
      BY <2>1 DEF Over, Last
    <2>3. events[i] \in Events
      BY DEF Types
    <2>. QED  BY <2>2, <2>3, EventTyped DEF InOrder
  <1>. QED  BY <1>1, <1>2 DEF In

LEMMA Shrunk ==
  ASSUME Types, events # <<>>, events' = Tail(events)
  PROVE  /\ Len(events) \in Nat \ {0} /\ Len(events') = Len(events) - 1
         /\ DOMAIN events = 1..Len(events) /\ DOMAIN events' = 1..(Len(events) - 1)
         /\ Head(events) = events[1]
         /\ \A i \in DOMAIN events' : i + 1 \in DOMAIN events /\ events'[i] = events[i + 1]
         /\ \A i \in DOMAIN events :
              i = 1 \/ (i - 1 \in DOMAIN events' /\ events'[i - 1] = events[i])
         /\ \A t : \A c \in Calls : In(t, c) =>
              In(t, c)' \/ (t = Head(events).type /\ c = Head(events).call)
  <1>1. /\ Len(events) \in Nat \ {0} /\ Len(events') = Len(events) - 1
        /\ DOMAIN events = 1..Len(events) /\ DOMAIN events' = 1..(Len(events) - 1)
        /\ Head(events) = events[1]
        /\ \A i \in DOMAIN events' : i + 1 \in DOMAIN events /\ events'[i] = events[i + 1]
        /\ \A i \in DOMAIN events :
             i = 1 \/ (i - 1 \in DOMAIN events' /\ events'[i - 1] = events[i])
    BY TailAt DEF Types
  <1>2. ASSUME NEW t, NEW c \in Calls, In(t, c)
        PROVE  In(t, c)' \/ (t = Head(events).type /\ c = Head(events).call)
    <2>1. PICK i \in DOMAIN events : events[i].type = t /\ events[i].call = c
      BY <1>2 DEF In
    <2>. QED  BY <1>1, <2>1 DEF In
  <1>. QED  BY <1>1, <1>2

\* A read about c is right for the whole queue if it is for c.
LEMMA ReadStep ==
  ASSUME Types, InOrder, Complete, events # <<>>, events' = Tail(events),
         NEW c \in Calls, Head(events).type \in EventTypes, Head(events).call = c,
         \A d \in Calls \ {c} : toolcalls'[d] = toolcalls[d] /\ part'[d] = part[d],
         UNCHANGED <<tool, asked, attempt>>, ShouldBreak /\ blocked => blocked',
         \A t \in EventTypes :
           (\E i \in DOMAIN events : i # 1 /\ events[i].type = t /\ events[i].call = c)
             => Fits(t, c)',
         Made(c) =>
           /\ tool[c] \in Going => Reached(c)'
           /\ tool[c] \in Outcomes =>
                \/ Settled(c)' \/ In(OutcomeOf(c), c)'
                \/ \E i \in DOMAIN events : events[i].type = "error"
  PROVE  InOrder' /\ Complete'
  <1>0. /\ Len(events) \in Nat \ {0} /\ Len(events') = Len(events) - 1
        /\ DOMAIN events = 1..Len(events) /\ DOMAIN events' = 1..(Len(events) - 1)
        /\ Head(events) = events[1]
        /\ \A i \in DOMAIN events' : i + 1 \in DOMAIN events /\ events'[i] = events[i + 1]
        /\ \A i \in DOMAIN events :
             i = 1 \/ (i - 1 \in DOMAIN events' /\ events'[i - 1] = events[i])
    BY Shrunk
  <1>a. \A t : \A d \in Calls \ {c} : In(t, d) => In(t, d)'
    BY Shrunk
  <1>1. ASSUME NEW i \in DOMAIN events', events'[i].type \notin EventTypes
        PROVE  i = Len(events')
    BY <1>0, <1>1 DEF InOrder
  <1>2. ASSUME NEW i \in DOMAIN events', NEW t \in EventTypes, NEW d \in Calls,
               events'[i].type = t, events'[i].call = d
        PROVE  Fits(t, d)'
    <2>1. CASE d = c
      BY <1>0, <1>2, <2>1
    <2>2. CASE d # c
      <3>1. Fits(t, d)
        BY <1>0, <1>2 DEF InOrder
      <3>2. Reached(d) => Reached(d)'
        BY <1>a, <2>2 DEF Reached
      <3>. QED  BY <2>2, <3>1, <3>2 DEF Fits, Made, OutcomeOf
    <2>. QED  BY <2>1, <2>2
  <1>3. ASSUME NEW i \in DOMAIN events', NEW j \in DOMAIN events', i < j,
               events'[j].type \in EventTypes, events'[i].call = events'[j].call
        PROVE  Rank(events'[i].type) < Rank(events'[j].type)
    <2>1. i + 1 < j + 1
      BY <1>0, <1>3
    <2>. QED  BY <1>0, <1>3, <2>1 DEF InOrder
  <1>4. InOrder'
    <2>1. \A i \in DOMAIN events' : events'[i].type \in EventTypes => events'[i].call \in Calls
      <3>1. \A i \in DOMAIN events : events[i] \in Events
        BY DEF Types
      <3>2. \A i \in DOMAIN events : events[i].type \in EventTypes => events[i].call \in Calls
        BY <3>1, EventTyped DEF EventTypes
      <3>. QED  BY <1>0, <3>2
    <2>. QED  BY <1>1, <1>2, <1>3, <2>1 DEF InOrder
  <1>5. ASSUME NEW d \in Calls, Made(d)'
        PROVE  /\ tool[d] \in Going => Reached(d)'
               /\ tool[d] \in Outcomes =>
                    \/ Settled(d)' \/ In(OutcomeOf(d), d)'
                    \/ \E i \in DOMAIN events' : events'[i].type = "error"
               /\ (\E i \in DOMAIN events' : events'[i].type = "finish-step") =>
                    tool[d] \in Outcomes
    <2>1. Made(d)
      BY <1>5 DEF Made
    <2>2. (\E i \in DOMAIN events : events[i].type = "error")
            => \E i \in DOMAIN events' : events'[i].type = "error"
      BY <1>0 DEF EventTypes
    <2>3. (\E i \in DOMAIN events' : events'[i].type = "finish-step") => tool[d] \in Outcomes
      BY <1>0, <2>1 DEF Complete
    <2>4. CASE d = c
      BY <2>1, <2>2, <2>3, <2>4
    <2>5. CASE d # c
      <3>1. Reached(d) => Reached(d)'
        BY <1>a, <2>5 DEF Reached
      <3>2. Settled(d) => Settled(d)'
        BY <2>5 DEF Settled, PartOf
      <3>3. In(OutcomeOf(d), d) => In(OutcomeOf(d), d)'
        BY <1>a, <2>5 DEF OutcomeOf
      <3>. QED  BY <2>1, <2>2, <2>3, <3>1, <3>2, <3>3 DEF Complete
    <2>. QED  BY <2>4, <2>5
  <1>6. Complete'
    BY <1>5 DEF Complete
  <1>. QED  BY <1>4, <1>6

LEMMA InputStartOrder ==
  ASSUME ToolInv, ReadInputStart
  PROVE  InOrder' /\ Complete'
  <1>. USE DEF ToolInv
  <1>1. /\ phase = "reading" /\ events # <<>> /\ Head(events).type = "tool-input-start"
        /\ Put(Head(events).call, "pending", "pending")
        /\ UNCHANGED <<tool, asked, attempt, blocked>>
    BY DEF ReadInputStart, Reads, Result
  <1>2. InOrder /\ Complete /\ Types /\ Head(events).type \in EventTypes
    BY <1>1 DEF StreamInv, EventTypes
  <1>3. PICK c \in Calls : c = Head(events).call /\ Fits("tool-input-start", c)
    BY <1>1, <1>2, HeadFits
  <1>4. /\ events' = Tail(events) /\ toolcalls'[c] = "pending" /\ part'[c] = "pending"
        /\ \A d \in Calls \ {c} : toolcalls'[d] = toolcalls[d] /\ part'[d] = part[d]
    BY <1>1, <1>2, <1>3 DEF Put, Types
  <1>5. Made(c) /\ toolcalls[c] = "none" /\ part[c] = "none"
    BY <1>3 DEF Fits
  <1>6. In("tool-call", c) => In("tool-call", c)'
    BY <1>1, <1>2, <1>4, Shrunk
  <1>7. Reached(c) => Reached(c)'
    BY <1>5, <1>6 DEF Reached
  <1>8. ASSUME NEW t \in EventTypes, NEW i \in DOMAIN events, i # 1,
               events[i].type = t, events[i].call = c
        PROVE  Fits(t, c)'
    <2>1. 1 < i /\ events[1] = Head(events) /\ 1 \in DOMAIN events
      BY <1>1, <1>2, <1>8, TailAt DEF Types
    <2>2. Rank("tool-input-start") < Rank(t)
      BY <1>1, <1>2, <1>3, <1>8, <2>1 DEF InOrder
    <2>3. Fits(t, c)
      BY <1>2, <1>8 DEF InOrder
    <2>. QED  BY <1>1, <1>4, <1>7, <2>2, <2>3 DEF Fits, Rank, Made, OutcomeOf
  <1>9. Made(c) =>
          /\ tool[c] \in Going => Reached(c)'
          /\ tool[c] \in Outcomes =>
               \/ Settled(c)' \/ In(OutcomeOf(c), c)'
               \/ \E i \in DOMAIN events : events[i].type = "error"
    <2>1. ~Settled(c)
      BY <1>5 DEF Settled, PartOf
    <2>2. In(OutcomeOf(c), c) => In(OutcomeOf(c), c)'
      BY <1>1, <1>2, <1>4, Shrunk DEF OutcomeOf
    <2>. QED  BY <1>2, <1>7, <2>1, <2>2 DEF Complete
  <1>. QED  BY <1>1, <1>2, <1>3, <1>4, <1>8, <1>9, ReadStep

LEMMA CallOrder ==
  ASSUME ToolInv, ReadCall
  PROVE  InOrder' /\ Complete'
  <1>. USE DEF ToolInv
  <1>1. /\ phase = "reading" /\ events # <<>> /\ Head(events).type = "tool-call"
        /\ Put(Head(events).call, "running", "running")
        /\ UNCHANGED <<tool, asked, attempt, blocked>>
    BY DEF ReadCall, Called, Reads, Result
  <1>2. InOrder /\ Complete /\ Types /\ Head(events).type \in EventTypes
    BY <1>1 DEF StreamInv, EventTypes
  <1>3. PICK c \in Calls : c = Head(events).call /\ Fits("tool-call", c)
    BY <1>1, <1>2, HeadFits
  <1>4. /\ events' = Tail(events) /\ toolcalls'[c] = "running" /\ part'[c] = "running"
        /\ \A d \in Calls \ {c} : toolcalls'[d] = toolcalls[d] /\ part'[d] = part[d]
    BY <1>1, <1>2, <1>3 DEF Put, Types
  <1>5. Made(c) /\ part[c] \in {"none", "pending"}
    BY <1>3 DEF Fits
  <1>7. Reached(c)'
    BY <1>4 DEF Reached
  <1>8. ASSUME NEW t \in EventTypes, NEW i \in DOMAIN events, i # 1,
               events[i].type = t, events[i].call = c
        PROVE  Fits(t, c)'
    <2>1. 1 < i /\ events[1] = Head(events) /\ 1 \in DOMAIN events
      BY <1>1, <1>2, <1>8, TailAt DEF Types
    <2>2. Rank("tool-call") < Rank(t)
      BY <1>1, <1>2, <1>3, <1>8, <2>1 DEF InOrder
    <2>3. Fits(t, c)
      BY <1>2, <1>8 DEF InOrder
    <2>. QED  BY <1>1, <1>4, <1>7, <2>2, <2>3 DEF Fits, Rank, Made, OutcomeOf
  <1>9. Made(c) =>
          /\ tool[c] \in Going => Reached(c)'
          /\ tool[c] \in Outcomes =>
               \/ Settled(c)' \/ In(OutcomeOf(c), c)'
               \/ \E i \in DOMAIN events : events[i].type = "error"
    <2>1. ~Settled(c)
      BY <1>5 DEF Settled, PartOf
    <2>2. In(OutcomeOf(c), c) => In(OutcomeOf(c), c)'
      BY <1>1, <1>2, <1>4, Shrunk DEF OutcomeOf
    <2>. QED  BY <1>2, <1>7, <2>1, <2>2 DEF Complete
  <1>. QED  BY <1>1, <1>2, <1>3, <1>4, <1>8, <1>9, ReadStep

LEMMA OutcomeOrder ==
  ASSUME ToolInv, NEW t \in {"tool-result", "tool-error"},
         NEW s, s = IF t = "tool-result" THEN "completed" ELSE "error", ReadOutcome(t, s)
  PROVE  InOrder' /\ Complete'
  <1>. USE DEF ToolInv
  <1>1. /\ phase = "reading" /\ events # <<>> /\ Head(events).type = t
        /\ UNCHANGED <<tool, asked, attempt>>
    BY DEF ReadOutcome, Reads
  <1>2. InOrder /\ Complete /\ Types /\ Head(events).type \in EventTypes
    BY <1>1 DEF StreamInv, EventTypes
  <1>3. PICK c \in Calls : c = Head(events).call /\ Fits(t, c) /\ toolcalls[c] = "running"
    BY <1>1, <1>2, HeadFits
  <1>4. /\ events' = Tail(events) /\ toolcalls'[c] = "none" /\ part'[c] = s
        /\ \A d \in Calls \ {c} : toolcalls'[d] = toolcalls[d] /\ part'[d] = part[d]
        /\ blocked' = IF t = "tool-error" THEN Blocks(c) ELSE blocked
    BY <1>1, <1>2, <1>3 DEF ReadOutcome, Put, Types
  <1>5. tool[c] \in Outcomes /\ t = OutcomeOf(c)
    BY <1>3 DEF Fits
  <1>6. ShouldBreak /\ (blocked \/ tool[c] = "rejected") => blocked'
    BY <1>4, <1>5 DEF Blocks, OutcomeOf
  <1>7. Settled(c)'
    BY <1>1, <1>4, <1>5, <1>6 DEF Settled, PartOf, OutcomeOf
  <1>8. ASSUME NEW u \in EventTypes, NEW i \in DOMAIN events, i # 1,
               events[i].type = u, events[i].call = c
        PROVE  FALSE
    <2>1. 1 < i /\ events[1] = Head(events) /\ 1 \in DOMAIN events
      BY <1>1, <1>2, <1>8, TailAt DEF Types
    <2>2. Rank(t) < Rank(u)
      BY <1>1, <1>2, <1>3, <1>8, <2>1 DEF InOrder
    <2>. QED  BY <2>2 DEF Rank
  <1>9. tool[c] \notin Going
    BY <1>5 DEF Going, Outcomes
  <1>. QED  BY <1>1, <1>2, <1>3, <1>4, <1>6, <1>7, <1>8, <1>9, ReadStep

-----------------------------------------------------------------------------
\* An event about c is added rightly if it is for c.
LEMMA EmitStep ==
  ASSUME Types, InOrder, Complete, ~Over, NEW c \in Calls, NEW t \in EventTypes, Emit(t, c),
         \A d \in Calls \ {c} : tool'[d] = tool[d] /\ asked'[d] = asked[d],
         UNCHANGED <<attempt, toolcalls, part, blocked>>,
         Fits(t, c)',
         \A u \in EventTypes : In(u, c) => Fits(u, c)' /\ Rank(u) < Rank(t),
         tool'[c] \in Going => Reached(c)',
         tool'[c] \in Outcomes => In(OutcomeOf(c), c)'
  PROVE  InOrder' /\ Complete'
  <1>. DEFINE n == Len(events) + 1
              e == [type |-> t, call |-> c]
  <1>1. e \in Events /\ events' = Append(events, e)
    BY EventTyped DEF Emit
  <1>2. /\ Len(events) \in Nat /\ Len(events') = n
        /\ DOMAIN events = 1..Len(events) /\ DOMAIN events' = 1..n
        /\ events'[n].type = t /\ events'[n].call = c
        /\ \A i \in DOMAIN events : events'[i] = events[i] /\ events[i].type \in EventTypes
        /\ \A u : \A d \in Calls : In(u, d) => In(u, d)'
    BY <1>1, Grown
  <1>3. \A i \in DOMAIN events : events[i].call \in Calls /\ In(events[i].type, events[i].call)
    <2>1. \A i \in DOMAIN events : events[i] \in Events
      BY DEF Types
    <2>. QED  BY <1>2, <2>1, EventTyped DEF In, EventTypes
  <1>4. ASSUME NEW d \in Calls \ {c}
        PROVE  /\ Made(d)' <=> Made(d)
               /\ Reached(d) => Reached(d)'
               /\ Settled(d) => Settled(d)'
               /\ \A u : Fits(u, d) => Fits(u, d)'
               /\ In(OutcomeOf(d), d) => In(OutcomeOf(d), d)'
    <2>1. Made(d)' <=> Made(d)
      BY DEF Made
    <2>2. Reached(d) => Reached(d)'
      BY <1>2 DEF Reached
    <2>3. Settled(d) => Settled(d)'
      BY DEF Settled, PartOf
    <2>4. \A u : Fits(u, d) => Fits(u, d)'
      BY <2>1, <2>2 DEF Fits, OutcomeOf
    <2>5. In(OutcomeOf(d), d) => In(OutcomeOf(d), d)'
      BY <1>2 DEF OutcomeOf
    <2>. QED  BY <2>1, <2>2, <2>3, <2>4, <2>5
  <1>5. InOrder'
    <2>1. ASSUME NEW i \in DOMAIN events', events'[i].type \notin EventTypes
          PROVE  i = Len(events')
      BY <1>2, <2>1
    <2>2. ASSUME NEW i \in DOMAIN events', events'[i].type \in EventTypes
          PROVE  \A u, d : u = events'[i].type /\ d = events'[i].call => Fits(u, d)'
      <3>1. CASE i = n
        BY <1>2, <3>1
      <3>2. CASE i # n /\ events[i].call = c
        BY <1>2, <1>3, <3>2
      <3>3. CASE i # n /\ events[i].call # c
        BY <1>2, <1>3, <1>4, <3>3 DEF InOrder
      <3>. QED  BY <3>1, <3>2, <3>3
    <2>3. ASSUME NEW i \in DOMAIN events', NEW j \in DOMAIN events', i < j,
                 events'[j].type \in EventTypes, events'[i].call = events'[j].call
          PROVE  Rank(events'[i].type) < Rank(events'[j].type)
      <3>1. CASE j = n
        BY <1>2, <1>3, <2>3, <3>1
      <3>2. CASE j # n
        BY <1>2, <2>3, <3>2 DEF InOrder
      <3>. QED  BY <3>1, <3>2
    <2>. QED  BY <2>1, <2>2, <2>3 DEF InOrder
  <1>6. Complete'
    <2>1. \A i \in DOMAIN events' : events'[i].type # "finish-step"
      BY <1>2 DEF EventTypes
    <2>2. ASSUME NEW d \in Calls \ {c}, Made(d)'
          PROVE  /\ tool'[d] \in Going => Reached(d)'
                 /\ tool'[d] \in Outcomes => Settled(d)' \/ In(OutcomeOf(d), d)'
      BY <1>2, <1>4, <2>2 DEF Complete, EventTypes
    <2>. QED  BY <2>1, <2>2 DEF Complete
  <1>. QED  BY <1>5, <1>6

LEMMA AnnounceOrder ==
  ASSUME ToolInv, NEW c \in Calls, Announce(c)
  PROVE  InOrder' /\ Complete'
  <1>. USE DEF ToolInv
  <1>1. /\ phase \in {"reading", "doom"} /\ ~Over /\ tool[c] = "none"
        /\ tool' = [tool EXCEPT ![c] = "announced"]
        /\ asked' = [asked EXCEPT ![c] = attempt]
        /\ Emit("tool-input-start", c)
        /\ UNCHANGED <<attempt, toolcalls, part, blocked>>
    BY DEF Announce, Live, Result
  <1>2. InOrder /\ Complete /\ Types /\ "tool-input-start" \in EventTypes
    BY <1>1 DEF StreamInv, EventTypes
  <1>3. /\ tool'[c] = "announced" /\ asked'[c] = attempt'
        /\ \A d \in Calls \ {c} : tool'[d] = tool[d] /\ asked'[d] = asked[d]
    BY <1>1, <1>2 DEF Types
  <1>4. \A u \in EventTypes : ~In(u, c)
    BY <1>1, <1>2 DEF In, InOrder, Fits, Made
  <1>5. Fits("tool-input-start", c)'
    BY <1>1, <1>3 DEF Fits, Made, Remembered
  <1>6. tool'[c] \notin Going \cup Outcomes
    BY <1>3 DEF Going, Outcomes
  <1>. QED  BY <1>1, <1>2, <1>3, <1>4, <1>5, <1>6, EmitStep

LEMMA MadeOrder ==
  ASSUME ToolInv, NEW c \in Calls, Call(c)
  PROVE  InOrder' /\ Complete'
  <1>. USE DEF ToolInv
  <1>1. /\ phase \in {"reading", "doom"} /\ ~Over
        /\ tool[c] = "none" \/ (tool[c] = "announced" /\ asked[c] = attempt)
        /\ tool' = [tool EXCEPT ![c] = "going"]
        /\ asked' = [asked EXCEPT ![c] = attempt]
        /\ Emit("tool-call", c)
        /\ UNCHANGED <<attempt, toolcalls, part, blocked>>
    BY DEF Call, Live, Result
  <1>2. InOrder /\ Complete /\ Types /\ "tool-call" \in EventTypes
    BY <1>1 DEF StreamInv, EventTypes
  <1>3. /\ tool'[c] = "going" /\ asked'[c] = attempt'
        /\ \A d \in Calls \ {c} : tool'[d] = tool[d] /\ asked'[d] = asked[d]
    BY <1>1, <1>2 DEF Types
  <1>4. toolcalls[c] # "running" /\ part[c] \in {"none", "pending"}
    <2>1. toolcalls[c] \in {"none", "pending", "running"}
      BY <1>2 DEF Types, Open
    <2>. QED  BY <1>1, <2>1 DEF Remembered
  <1>5. Fits("tool-call", c)'
    BY <1>1, <1>3, <1>4 DEF Fits, Made
  <1>6. ASSUME NEW u \in EventTypes, In(u, c) PROVE Fits(u, c)' /\ Rank(u) < Rank("tool-call")
    <2>1. Fits(u, c)
      BY <1>2, <1>6 DEF In, InOrder
    <2>2. u = "tool-input-start"
      BY <1>1, <2>1 DEF Fits, Made, EventTypes, Outcomes
    <2>. QED  BY <1>1, <1>3, <2>1, <2>2 DEF Fits, Made, Rank
  <1>7. In("tool-call", c)' /\ tool'[c] \notin Outcomes
    <2>1. events' = Append(events, [type |-> "tool-call", call |-> c])
      BY <1>1 DEF Emit
    <2>2. [type |-> "tool-call", call |-> c] \in Events
      BY <1>2, EventTyped
    <2>3. Len(events) + 1 \in DOMAIN events'
          /\ events'[Len(events) + 1] = [type |-> "tool-call", call |-> c]
      BY <1>2, <2>1, <2>2, AppendAt DEF Types
    <2>. QED  BY <1>3, <2>3 DEF In, Outcomes
  <1>. QED  BY <1>1, <1>2, <1>3, <1>5, <1>6, <1>7, EmitStep DEF Reached

LEMMA EndOrder ==
  ASSUME ToolInv, NEW c \in Calls, NEW o \in Outcomes,
         tool[c] \in Going, tool' = [tool EXCEPT ![c] = o],
         Live, ~Over, asked[c] = attempt,
         Emit(IF o = "returned" THEN "tool-result" ELSE "tool-error", c),
         UNCHANGED <<attempt, toolcalls, part, asked, blocked>>
  PROVE  InOrder' /\ Complete'
  <1>. USE DEF ToolInv
  <1>. DEFINE t == IF o = "returned" THEN "tool-result" ELSE "tool-error"
  <1>1. InOrder /\ Complete /\ Types /\ t \in EventTypes
    BY DEF StreamInv, Live, EventTypes
  <1>2. tool'[c] = o /\ (\A d \in Calls \ {c} : tool'[d] = tool[d]) /\ t = OutcomeOf(c)'
    BY <1>1 DEF Types, OutcomeOf
  <1>3. Made(c) /\ Made(c)' /\ tool[c] \notin {"none", "announced"} \cup Outcomes
    BY <1>2 DEF Made, Going, Outcomes
  <1>4. Reached(c)
    BY <1>1, <1>3 DEF Complete
  <1>5. /\ In(t, c)'
        /\ In("tool-call", c) => In("tool-call", c)'
    <2>1. events' = Append(events, [type |-> t, call |-> c])
      BY DEF Emit
    <2>2. [type |-> t, call |-> c] \in Events
      BY <1>1, EventTyped
    <2>3. /\ Len(events) + 1 \in DOMAIN events'
          /\ events'[Len(events) + 1] = [type |-> t, call |-> c]
          /\ In("tool-call", c) => In("tool-call", c)'
      BY <1>1, <2>1, <2>2, Grown
    <2>. QED  BY <2>3 DEF In
  <1>6. Reached(c)'
    BY <1>4, <1>5 DEF Reached
  <1>7. Fits(t, c)'
    BY <1>2, <1>3, <1>6 DEF Fits
  <1>8. ASSUME NEW u \in EventTypes, In(u, c) PROVE Fits(u, c)' /\ Rank(u) < Rank(t)
    <2>1. Fits(u, c)
      BY <1>1, <1>8 DEF In, InOrder
    <2>2. u \in {"tool-input-start", "tool-call"}
      BY <1>3, <2>1 DEF Fits, EventTypes
    <2>. QED  BY <1>2, <1>3, <2>1, <2>2 DEF Fits, Rank, Outcomes
  <1>9. tool'[c] \notin Going
    BY <1>2 DEF Going, Outcomes
  <1>. QED  BY <1>1, <1>2, <1>5, <1>7, <1>8, <1>9, EmitStep

\* The step finishes, or the stream fails.
LEMMA OverOrder ==
  ASSUME ToolInv, FinishStep \/ StreamFails
  PROVE  InOrder' /\ Complete'
  <1>. USE DEF ToolInv
  <1>. DEFINE n == Len(events) + 1
  <1>1. PICK t \in {"finish-step", "error"} :
          /\ events' = Append(events, [type |-> t])
          /\ t = "finish-step" => \A c \in Calls : asked[c] = attempt =>
                                    tool[c] \notin {"announced"} \cup Going
    BY DEF FinishStep, StreamFails
  <1>2. /\ phase \in {"reading", "doom"} /\ ~Over
        /\ UNCHANGED <<attempt, toolcalls, part, tool, asked, blocked>>
    BY DEF FinishStep, StreamFails, Live, Result
  <1>3. InOrder /\ Complete /\ Types /\ [type |-> t] \in Events /\ t \notin EventTypes
    BY <1>2, EventTyped DEF StreamInv, EventTypes
  <1>4. /\ Len(events) \in Nat /\ Len(events') = n
        /\ DOMAIN events = 1..Len(events) /\ DOMAIN events' = 1..n
        /\ events'[n].type = t
        /\ \A i \in DOMAIN events : events'[i] = events[i] /\ events[i].type \in EventTypes
        /\ \A u : \A d \in Calls : In(u, d) => In(u, d)'
    BY <1>1, <1>2, <1>3, Grown
  <1>5. \A i \in DOMAIN events : events[i].call \in Calls
    <2>1. \A i \in DOMAIN events : events[i] \in Events
      BY <1>3 DEF Types
    <2>. QED  BY <1>4, <2>1, EventTyped DEF EventTypes
  <1>6. ASSUME NEW d \in Calls
        PROVE  /\ Made(d)' <=> Made(d)
               /\ Reached(d) => Reached(d)'
               /\ Settled(d) => Settled(d)'
               /\ \A u : Fits(u, d) => Fits(u, d)'
               /\ In(OutcomeOf(d), d) => In(OutcomeOf(d), d)'
    BY <1>2, <1>4 DEF Made, Reached, Settled, PartOf, Fits, OutcomeOf
  <1>7. InOrder'
    <2>1. ASSUME NEW i \in DOMAIN events', events'[i].type \notin EventTypes
          PROVE  i = Len(events')
      BY <1>4, <2>1
    <2>2. ASSUME NEW i \in DOMAIN events', events'[i].type \in EventTypes
          PROVE  \A u, d : u = events'[i].type /\ d = events'[i].call => Fits(u, d)'
      BY <1>3, <1>4, <1>5, <1>6, <2>2 DEF InOrder
    <2>3. ASSUME NEW i \in DOMAIN events', NEW j \in DOMAIN events', i < j,
                 events'[j].type \in EventTypes, events'[i].call = events'[j].call
          PROVE  Rank(events'[i].type) < Rank(events'[j].type)
      BY <1>3, <1>4, <2>3 DEF InOrder
    <2>. QED  BY <2>1, <2>2, <2>3 DEF InOrder
  <1>8. Complete'
    <2>1. ASSUME NEW d \in Calls, Made(d)'
          PROVE  /\ tool'[d] \in Going => Reached(d)'
                 /\ tool'[d] \in Outcomes => Settled(d)' \/ In(OutcomeOf(d), d)'
      BY <1>2, <1>3, <1>4, <1>6, <2>1 DEF Complete, EventTypes
    <2>2. ASSUME NEW d \in Calls, Made(d)', NEW i \in DOMAIN events',
                 events'[i].type = "finish-step"
          PROVE  tool'[d] \in Outcomes
      <3>1. t = "finish-step"
        BY <1>4, <2>2 DEF EventTypes
      <3>2. tool[d] \in {"none", "announced"} \cup Going \cup Outcomes
        BY <1>3 DEF Types
      <3>. QED  BY <1>1, <1>2, <2>2, <3>1, <3>2 DEF Made
    <2>. QED  BY <2>1, <2>2 DEF Complete
  <1>. QED  BY <1>7, <1>8

-----------------------------------------------------------------------------
(***************************************************************************)
(* The phases.                                                             *)
(***************************************************************************)
\* A tool that starts or ends something of its own, or reports metadata.
LEMMA ToolMoves ==
  ASSUME ToolInv, NEW c \in Calls, tool[c] \in Going,
         tool'[c] \in Going \cup Outcomes, \A d \in Calls \ {c} : tool'[d] = tool[d],
         tool'[c] \in Outcomes => ~(Live /\ ~Over /\ asked[c] = attempt),
         \A d \in Calls : part'[d] = part[d] \/ toolcalls[d] = "running",
         UNCHANGED <<phase, attempt, events, toolcalls, asked, blocked, compact, failed, verdict>>
  PROVE  StreamInv'
  <1>. USE DEF ToolInv
  <1>1. \A d \in Calls : Made(d)' <=> Made(d)
    BY DEF Made, Going, Outcomes
  <1>2. \A d \in Calls : Settled(d) => Settled(d)'
    BY DEF Settled, PartOf, Going, Outcomes
  <1>3. \A d \in Calls : Reached(d)' <=> Reached(d)
    BY DEF Reached, In
  <1>4. ASSUME InOrder, Complete, Live PROVE InOrder' /\ Complete'
    <2>1. ASSUME NEW t, NEW d \in Calls, Fits(t, d) PROVE Fits(t, d)'
      <3>1. t = "tool-call" => part[d] \in {"none", "pending"} /\ toolcalls[d] # "running"
        BY <2>1 DEF Fits
      <3>2. t = "tool-input-start" => toolcalls[d] = "none"
        BY <2>1 DEF Fits
      <3>3. t \in {"tool-result", "tool-error"} => d # c /\ OutcomeOf(d)' = OutcomeOf(d)
        BY <2>1 DEF Fits, OutcomeOf, Going, Outcomes
      <3>. QED  BY <1>1, <1>3, <2>1, <3>1, <3>2, <3>3 DEF Fits, Going, Outcomes
    <2>2. \A i \in DOMAIN events : events[i].type \in EventTypes => events[i].call \in Calls
      <3>1. \A i \in DOMAIN events : events[i] \in Events
        BY DEF Types
      <3>. QED  BY <3>1, EventTyped DEF EventTypes
    <2>3. InOrder'
      BY <1>4, <2>1, <2>2 DEF InOrder
    <2>4. ASSUME NEW d \in Calls, Made(d)', d # c
          PROVE  /\ tool'[d] \in Going => Reached(d)'
                 /\ tool'[d] \in Outcomes =>
                      \/ Settled(d)' \/ In(OutcomeOf(d), d)'
                      \/ \E i \in DOMAIN events' : events'[i].type = "error"
                 /\ (\E i \in DOMAIN events' : events'[i].type = "finish-step")
                      => tool'[d] \in Outcomes
      <3>1. In(OutcomeOf(d), d) => In(OutcomeOf(d), d)'
        BY <2>4 DEF OutcomeOf, In
      <3>. QED  BY <1>1, <1>2, <1>3, <1>4, <2>4, <3>1 DEF Complete
    <2>5. ASSUME Made(c)'
          PROVE  /\ tool'[c] \in Going => Reached(c)'
                 /\ tool'[c] \in Outcomes => \E i \in DOMAIN events' : events'[i].type = "error"
                 /\ (\E i \in DOMAIN events' : events'[i].type = "finish-step")
                      => tool'[c] \in Outcomes
      <3>1. Made(c) /\ tool[c] \notin Outcomes
        BY <1>1, <2>5 DEF Going, Outcomes
      <3>2. Reached(c)' /\ ~\E i \in DOMAIN events : events[i].type = "finish-step"
        BY <1>3, <1>4, <3>1 DEF Complete
      <3>3. ASSUME Over PROVE \E i \in DOMAIN events : events[i].type = "error"
        <4>1. Len(events) \in DOMAIN events
          BY <3>3, TailAt DEF Types, Over
        <4>. QED  BY <3>2, <3>3, <4>1 DEF Over, Last
      <3>. QED  BY <1>4, <3>1, <3>2, <3>3 DEF Made
    <2>6. Complete'
      BY <2>4, <2>5 DEF Complete
    <2>. QED  BY <2>3, <2>6
  <1>5. Between => Between'
    BY DEF Between, Going
  <1>6. Finished => Finished'
    BY <1>1, <1>2 DEF Finished
  <1>7. Judged'
    BY DEF Judged, StreamInv
  <1>. QED  BY <1>4, <1>5, <1>6, <1>7 DEF StreamInv, Live

\* An error ends the request or has it sent again.
LEMMA ThrownStep ==
  ASSUME ToolInv, phase \in {"opening", "reading", "doom"}, NEW kind, Thrown(kind),
         UNCHANGED <<tool, asked, verdict>>
  PROVE  StreamInv'
  <1>. USE DEF ToolInv
  <1>1. /\ events' = <<>>
        /\ \/ phase' = "closing" /\ attempt' = attempt /\ (compact' = TRUE \/ failed' = TRUE)
           \/ phase' = "sleeping" /\ attempt' = attempt + 1
    BY ThrownPhase
  <1>2. attempt \in Nat /\ \A c \in Calls : asked[c] \in Nat /\ asked[c] <= attempt
    BY RetryLimitAssumption DEF Types, StreamInv
  <1>3. Judged'
    BY <1>1 DEF Judged, StreamInv
  <1>4. CASE phase' = "closing"
    <2>1. Finished'
      BY <1>1, <1>4 DEF Finished
    <2>. QED  BY <1>1, <1>2, <1>3, <1>4, <2>1 DEF StreamInv
  <1>5. CASE phase' = "sleeping"
    <2>1. attempt' = attempt + 1
      BY <1>1, <1>5
    <2>2. Between' /\ \A c \in Calls : asked'[c] <= attempt'
      BY <1>1, <1>2, <2>1 DEF Between
    <2>. QED  BY <1>3, <1>5, <2>2 DEF StreamInv
  <1>. QED  BY <1>1, <1>4, <1>5

LEMMA EmptyStream == Types /\ Between => InOrder /\ Complete
  <1>. SUFFICES ASSUME Types, Between PROVE InOrder /\ Complete
    OBVIOUS
  <1>1. DOMAIN events = {}
    BY DEF Between
  <1>2. ASSUME NEW c \in Calls PROVE ~Made(c)
    <2>1. tool[c] # "none" => asked[c] < attempt
      BY DEF Between
    <2>2. ~(attempt < attempt)
      BY RetryLimitAssumption DEF Types
    <2>. QED  BY <2>1, <2>2 DEF Made
  <1>. QED  BY <1>1, <1>2 DEF InOrder, Complete

LEMMA StreamStep ==
  ASSUME ToolInv, [Next]_vars
  PROVE  StreamInv'
  <1>. USE DEF ToolInv
  <1>0. /\ Types /\ Remembered /\ StreamInv
        /\ attempt \in Nat /\ \A c \in Calls : asked[c] \in Nat /\ asked[c] <= attempt
    BY RetryLimitAssumption DEF Types, StreamInv
  <1>1. CASE OpenStream
    <2>1. CASE phase' = "reading" /\ UNCHANGED <<attempt, events, compact, failed>>
      <3>1. phase = "opening" /\ UNCHANGED <<toolcalls, part, tool, asked, blocked, verdict>>
        BY <1>1 DEF OpenStream
      <3>2. Between'
        BY <1>0, <2>1, <3>1 DEF StreamInv, Between
      <3>3. InOrder' /\ Complete'
        <4>1. Types'
          BY TypesStep
        <4>. QED  BY <3>2, <4>1, EmptyStream, PTL
      <3>4. Judged'
        BY <1>0, <2>1, <3>1 DEF Judged, StreamInv
      <3>. QED  BY <1>0, <2>1, <3>1, <3>3, <3>4 DEF StreamInv
    <2>2. ASSUME NEW k \in Errors, Thrown(k) PROVE StreamInv'
      BY <1>1, <2>2, ThrownStep DEF OpenStream
    <2>. QED  BY <1>1, <2>1, <2>2 DEF OpenStream
  <1>2. CASE ReadInputStart
    <2>1. UNCHANGED <<phase, attempt, asked, verdict>> /\ phase = "reading"
      BY <1>2 DEF ReadInputStart, Reads, Result
    <2>. QED  BY <1>0, <1>2, <2>1, InputStartOrder DEF StreamInv, Judged
  <1>3. CASE ReadCall
    <2>1. /\ UNCHANGED <<attempt, asked, verdict>>
          /\ phase = "reading" /\ phase' \in {"reading", "doom"}
      BY <1>3 DEF ReadCall, Reads, Result
    <2>. QED  BY <1>0, <1>3, <2>1, CallOrder DEF StreamInv, Judged
  <1>4. ASSUME NEW t \in {"tool-result", "tool-error"},
               ReadOutcome(t, IF t = "tool-result" THEN "completed" ELSE "error")
        PROVE  StreamInv'
    <2>1. UNCHANGED <<phase, attempt, asked, verdict>> /\ phase = "reading"
      BY <1>4 DEF ReadOutcome, Reads
    <2>. QED  BY <1>0, <1>4, <2>1, OutcomeOrder DEF StreamInv, Judged
  <1>5. CASE ReadFinish
    <2>1. /\ phase = "reading" /\ phase' = "closing"
          /\ events # <<>> /\ Head(events).type = "finish-step"
          /\ UNCHANGED <<attempt, toolcalls, part, tool, asked, blocked, verdict>>
      BY <1>5 DEF ReadFinish, Reads
    <2>2. InOrder /\ Complete
      BY <1>0, <2>1 DEF StreamInv
    <2>3. \A i \in DOMAIN events : events[i].type = "finish-step"
      <3>1. /\ Head(events) = events[1] /\ 1 \in DOMAIN events
            /\ DOMAIN events = 1..Len(events) /\ Len(events) \in Nat
        BY <1>0, <2>1, TailAt DEF Types
      <3>2. 1 = Len(events)
        BY <2>1, <2>2, <3>1 DEF InOrder, EventTypes
      <3>3. ASSUME NEW i \in DOMAIN events PROVE i = 1
        <4>1. i \in 1..1
          BY <3>1, <3>2, Zenon
        <4>. QED  BY <4>1
      <3>. QED  BY <2>1, <3>1, <3>3
    <2>4. \E i \in DOMAIN events : events[i].type = "finish-step"
      BY <1>0, <2>1, TailAt DEF Types
    <2>5. ASSUME NEW c \in Calls, Made(c) PROVE Settled(c)
      <3>1. ~In(OutcomeOf(c), c)
        BY <2>3 DEF In, OutcomeOf
      <3>. QED  BY <2>2, <2>3, <2>4, <2>5, <3>1 DEF Complete
    <2>6. Finished'
      BY <2>1, <2>5 DEF Finished, Made, Settled, PartOf
    <2>. QED  BY <1>0, <2>1, <2>6 DEF StreamInv, Judged
  <1>6. CASE ReadFailure
    <2>1. PICK k \in Errors : Thrown(k)
      BY <1>6 DEF ReadFailure
    <2>. QED  BY <1>6, <2>1, ThrownStep DEF ReadFailure, Reads
  <1>7. CASE ReadAborted
    BY <1>7, ThrownStep DEF ReadAborted
  <1>8. CASE Wake
    <2>1. /\ phase = "sleeping" /\ phase' = "opening"
          /\ UNCHANGED <<attempt, events, tool, asked, verdict>>
      BY <1>8 DEF Wake, Result
    <2>. QED  BY <1>0, <2>1 DEF StreamInv, Between, Judged
  <1>9. CASE Close
    <2>1. /\ phase = "closing" /\ phase' = "done"
          /\ part' = [c \in Calls |-> Closed(part[c])]
          /\ verdict' = IF compact THEN "compact"
                        ELSE IF blocked \/ failed THEN "stop" ELSE "continue"
          /\ UNCHANGED <<attempt, toolcalls, tool, asked, blocked, compact, failed>>
      BY <1>9 DEF Close
    <2>2. \A c \in Calls : Settled(c) => Settled(c)'
      BY <2>1 DEF Settled, PartOf, Closed, Open
    <2>3. Finished'
      BY <1>0, <2>1, <2>2 DEF StreamInv, Finished, Made
    <2>4. Judged'
      BY <2>1 DEF Judged
    <2>. QED  BY <1>0, <2>1, <2>3, <2>4 DEF StreamInv
  <1>10. CASE AnswerDoom
    <2>1. CASE phase' = "reading" /\ UNCHANGED <<attempt, events, compact, failed>>
      <3>1. phase = "doom" /\ UNCHANGED <<toolcalls, part, tool, asked, blocked, verdict>>
        BY <1>10 DEF AnswerDoom
      <3>2. InOrder' /\ Complete'
        BY <1>0, <2>1, <3>1 DEF StreamInv, InOrder, Complete, Fits, Made, Reached, In, OutcomeOf,
           Settled, PartOf
      <3>. QED  BY <1>0, <2>1, <3>1, <3>2 DEF StreamInv, Judged
    <2>2. CASE Thrown("other")
      BY <1>10, <2>2, ThrownStep DEF AnswerDoom
    <2>. QED  BY <1>10, <2>1, <2>2 DEF AnswerDoom
  <1>11. CASE FinishStep \/ StreamFails
    <2>1. phase \in {"reading", "doom"} /\ UNCHANGED <<phase, attempt, asked, verdict>>
      BY <1>11 DEF FinishStep, StreamFails, Live, Result
    <2>. QED  BY <1>0, <1>11, <2>1, OverOrder DEF StreamInv, Judged
  <1>12. CASE Abort \/ UNCHANGED vars
    <2>1. UNCHANGED <<phase, attempt, events, toolcalls, part, tool, asked,
                      blocked, compact, failed, verdict>>
      BY <1>12 DEF Abort, Result, vars
    <2>. QED  BY <1>0, <2>1 DEF StreamInv, InOrder, Complete, Fits, Made, Reached, In, OutcomeOf,
              Settled, PartOf, Between, Finished, Judged
  <1>13. ASSUME NEW c \in Calls, Announce(c) PROVE StreamInv'
    <2>1. /\ phase \in {"reading", "doom"} /\ UNCHANGED <<phase, attempt, verdict>>
          /\ asked' = [asked EXCEPT ![c] = attempt]
      BY <1>13 DEF Announce, Live, Result
    <2>2. \A d \in Calls : asked'[d] <= attempt'
      BY <1>0, <2>1 DEF Types
    <2>. QED  BY <1>0, <1>13, <2>1, <2>2, AnnounceOrder DEF StreamInv, Judged
  <1>14. ASSUME NEW c \in Calls, Call(c) PROVE StreamInv'
    <2>1. /\ phase \in {"reading", "doom"} /\ UNCHANGED <<phase, attempt, verdict>>
          /\ asked' = [asked EXCEPT ![c] = attempt]
      BY <1>14 DEF Call, Live, Result
    <2>2. \A d \in Calls : asked'[d] <= attempt'
      BY <1>0, <2>1 DEF Types
    <2>. QED  BY <1>0, <1>14, <2>1, <2>2, MadeOrder DEF StreamInv, Judged
  <1>15. ASSUME NEW c \in Calls, End(c) PROVE StreamInv'
    <2>1. PICK o \in Outcomes :
            /\ tool' = [tool EXCEPT ![c] = o]
            /\ IF Live /\ ~Over /\ asked[c] = attempt
               THEN Emit(IF o = "returned" THEN "tool-result" ELSE "tool-error", c)
               ELSE UNCHANGED events
      BY <1>15 DEF End
    <2>2. /\ tool[c] \in Going
          /\ UNCHANGED <<phase, attempt, toolcalls, part, asked, blocked, compact, failed, verdict>>
      BY <1>15 DEF End, Result, Going
    <2>3. CASE Live /\ ~Over /\ asked[c] = attempt
      BY <1>0, <2>1, <2>2, <2>3, EndOrder DEF StreamInv, Judged, Live
    <2>4. CASE ~(Live /\ ~Over /\ asked[c] = attempt)
      <3>1. tool'[c] = o /\ \A d \in Calls \ {c} : tool'[d] = tool[d]
        BY <1>0, <2>1 DEF Types
      <3>. QED  BY <2>1, <2>2, <2>4, <3>1, ToolMoves
    <2>. QED  BY <2>3, <2>4
  <1>16. ASSUME NEW c \in Calls, Metadata(c) PROVE StreamInv'
    <2>1. /\ tool[c] \in Going /\ toolcalls[c] = "running"
          /\ \A d \in Calls \ {c} : part'[d] = part[d]
          /\ UNCHANGED <<phase, attempt, events, toolcalls, tool, asked,
                         blocked, compact, failed, verdict>>
      BY <1>0, <1>16 DEF Metadata, Result, Types
    <2>2. tool'[c] \in Going /\ tool'[c] \notin Outcomes
      BY <2>1 DEF Going, Outcomes
    <2>. QED  BY <2>1, <2>2, ToolMoves
  <1>17. ASSUME NEW c \in Calls, InnerStart(c) \/ InnerEnd(c) PROVE StreamInv'
    <2>1. /\ tool[c] \in Going /\ tool'[c] \in Going /\ tool'[c] \notin Outcomes
          /\ \A d \in Calls \ {c} : tool'[d] = tool[d]
          /\ UNCHANGED <<phase, attempt, events, toolcalls, part, asked,
                         blocked, compact, failed, verdict>>
      BY <1>0, <1>17 DEF InnerStart, InnerEnd, Result, Types, Going, Outcomes
    <2>. QED  BY <2>1, ToolMoves
  <1>. QED  BY <1>1, <1>2, <1>3, <1>4, <1>5, <1>6, <1>7, <1>8, <1>9, <1>10, <1>11, <1>12,
               <1>13, <1>14, <1>15, <1>16, <1>17
            DEF Next, Process, ReadResult, ReadError

LEMMA ToolInit == Init => ToolInv
  <1>. SUFFICES ASSUME Init PROVE ToolInv
    OBVIOUS
  <1>1. Types
    BY TypesInit
  <1>2. Remembered /\ Inside
    BY DEF Init, Remembered, Inside, Open, Going
  <1>3. StreamInv
    BY DEF Init, StreamInv, Between, Judged
  <1>. QED  BY <1>1, <1>2, <1>3 DEF ToolInv

LEMMA ToolStep == ToolInv /\ [Next]_vars => ToolInv'
  BY TypesStep, RememberedStep, StreamStep DEF ToolInv

-----------------------------------------------------------------------------
\* process() returns with every part closed, of whatever attempt, but those of
\* tools that go on after it.
THEOREM AllIsClosed == Spec => []NothingIsLeftOpen
<1>1. ToolInv => NothingIsLeftOpen
  BY DEF ToolInv, Remembered, Inside, NothingIsLeftOpen
<1> QED
  BY <1>1, ToolInit, ToolStep, PTL DEF Spec

\* The loop is blocked by a call that was rejected, and such a call stays so.
BlockedByCall == blocked => \E c \in Calls : tool[c] = "rejected"

LEMMA BlockedStep ==
  ASSUME ToolInv, BlockedByCall, [Next]_vars
  PROVE  BlockedByCall'
<1>0. Types
  BY DEF ToolInv
<1>1. \A c \in Calls : tool[c] = "rejected" => tool'[c] = "rejected"
  <2>1. CASE UNCHANGED tool
    BY <2>1
  <2>2. ASSUME NEW d \in Calls, NEW o, tool[d] # "rejected", tool' = [tool EXCEPT ![d] = o]
        PROVE  \A c \in Calls : tool[c] = "rejected" => tool'[c] = "rejected"
    BY <1>0, <2>2 DEF Types
  <2>3. ASSUME NEW d \in Calls, Announce(d) \/ Call(d) \/ InnerStart(d) \/ InnerEnd(d)
        PROVE  \E o : tool[d] # "rejected" /\ tool' = [tool EXCEPT ![d] = o]
    BY <2>3 DEF Announce, Call, InnerStart, InnerEnd
  <2>4. ASSUME NEW d \in Calls, End(d)
        PROVE  \E o : tool[d] # "rejected" /\ tool' = [tool EXCEPT ![d] = o]
    BY <2>4 DEF End
  <2>. QED  BY <2>1, <2>2, <2>3, <2>4
       DEF Next, Process, ReadInputStart, ReadCall, ReadResult, ReadError, ReadOutcome,
           OpenStream, ReadFinish, ReadFailure, ReadAborted, Wake, AnswerDoom, Close,
           FinishStep, StreamFails, Abort, Metadata, vars
<1>2. CASE UNCHANGED blocked
  BY <1>1, <1>2 DEF BlockedByCall
<1>3. ASSUME NEW t \in {"tool-result", "tool-error"}, NEW s, ReadOutcome(t, s)
      PROVE  BlockedByCall'
  <2>1. /\ events # <<>> /\ Head(events).type = t
        /\ blocked' \in {blocked, Blocks(Head(events).call)} /\ tool' = tool
    BY <1>3 DEF ReadOutcome, Reads, Put
  <2>2. Head(events).call \in Calls
    BY <1>0, <2>1, HeadOfCall DEF EventTypes
  <2>. QED  BY <2>1, <2>2 DEF BlockedByCall, Blocks
<1> QED
  BY <1>2, <1>3
  DEF Next, Process, ReadInputStart, ReadCall, ReadResult, ReadError, OpenStream, ReadFinish,
      ReadFailure, ReadAborted, Wake, AnswerDoom, Close, FinishStep, StreamFails, Abort,
      Announce, Call, End, Metadata, InnerStart, InnerEnd, Result, vars

\* A rejection among the calls of the request that ended the answer has process()
\* return "stop", but for an answer that filled the context: then "compact".  One
\* that a batch swallowed does not: without an error it takes a rejected call of
\* the request itself to stop the loop.
THEOREM RejectionsStop == Spec => []RejectionStopsUnlessFull
<1>1. ToolInv /\ BlockedByCall => RejectionStopsUnlessFull
  <2>. SUFFICES ASSUME ToolInv, BlockedByCall, phase = "done"
                PROVE  /\ ShouldBreak /\ Rejected => verdict = IF compact THEN "compact" ELSE "stop"
                       /\ overruled # {} /\ ~failed /\ (\A c \in Calls : tool[c] # "rejected") =>
                            verdict # "stop"
    BY DEF RejectionStopsUnlessFull
  <2>1. verdict = IF compact THEN "compact"
                  ELSE IF blocked \/ failed THEN "stop" ELSE "continue"
    BY DEF ToolInv, StreamInv, Judged
  <2>2. ASSUME ShouldBreak, NEW c \in Calls, asked[c] = attempt, tool[c] = "rejected"
        PROVE  verdict = IF compact THEN "compact" ELSE "stop"
    <3>1. ASSUME ~compact, ~failed PROVE blocked
      <4>1. Settled(c)
        BY <2>2, <3>1 DEF ToolInv, StreamInv, Finished, Made
      <4>. QED  BY <2>2, <4>1 DEF Settled
    <3>. QED  BY <2>1, <3>1 DEF ToolInv, Types
  <2>3. ASSUME ~failed, \A c \in Calls : tool[c] # "rejected"
        PROVE  verdict # "stop"
    BY <2>1, <2>3 DEF BlockedByCall
  <2>. QED  BY <2>2, <2>3 DEF Rejected
<1>2. Init => BlockedByCall
  BY DEF Init, BlockedByCall
<1> QED
  BY <1>1, <1>2, BlockedStep, ToolInit, ToolStep, PTL DEF Spec

\* An answer that ends well has the outcome of each of its calls, and what is
\* completed is never written over.
THEOREM OutcomesAreKept == Spec => OutcomesStay
<1>1. ASSUME ToolInv, ToolInv', phase' = "done", ~failed', verdict' # "compact",
             NEW c \in Calls, asked'[c] = attempt', tool'[c] # "none"
      PROVE  /\ tool'[c] \in Outcomes
             /\ part'[c] = IF tool'[c] = "returned" THEN "completed" ELSE "error"
  <2>1. ~compact'
    BY <1>1 DEF ToolInv, StreamInv, Judged
  <2>2. Settled(c)'
    BY <1>1, <2>1 DEF ToolInv, StreamInv, Finished, Made
  <2>. QED  BY <2>2 DEF Settled, PartOf
<1>2. ASSUME ToolInv, Next, NEW c \in Calls
      PROVE  /\ part[c] = "completed" => part'[c] = "completed"
             /\ part[c] = "error" /\ part'[c] # "error" => c \in late
  <2>. USE DEF ToolInv
  <2>0. /\ Types /\ Remembered /\ part \in [Calls -> Statuses]
        /\ phase = "reading" => InOrder
    BY <1>2 DEF StreamInv, Types
  <2>1. CASE ReadInputStart
    <3>1. /\ phase = "reading" /\ events # <<>> /\ Head(events).type = "tool-input-start"
          /\ part' = [part EXCEPT ![Head(events).call] = "pending"]
      BY <2>1 DEF ReadInputStart, Reads, Put
    <3>2. part[Head(events).call] = "none"
      BY <2>0, <3>1, HeadFits DEF Fits, EventTypes
    <3>. QED  BY <2>0, <3>1, <3>2
  <2>2. CASE ReadCall
    <3>1. /\ phase = "reading" /\ events # <<>> /\ Head(events).type = "tool-call"
          /\ part' = [part EXCEPT ![Head(events).call] = "running"]
      BY <2>2 DEF ReadCall, Called, Reads, Put
    <3>2. part[Head(events).call] \in {"none", "pending"}
      BY <2>0, <3>1, HeadFits DEF Fits, EventTypes
    <3>. QED  BY <2>0, <3>1, <3>2
  <2>3. ASSUME NEW t \in {"tool-result", "tool-error"}, NEW s, ReadOutcome(t, s)
        PROVE  part[c] \in {"completed", "error"} => part'[c] = part[c]
    <3>1. phase = "reading" /\ events # <<>> /\ Head(events).type = t
      BY <2>3 DEF ReadOutcome, Reads
    <3>2. toolcalls[Head(events).call] = "running" /\ Head(events).call \in Calls
      BY <2>0, <3>1, HeadFits DEF EventTypes
    <3>3. part[Head(events).call] = "running"
      BY <2>0, <3>1, <3>2 DEF Remembered
    <3>. QED  BY <2>0, <2>3, <3>2, <3>3 DEF ReadOutcome, Put
  <2>4. CASE Close
    BY <2>4 DEF Close, Closed, Open
  <2>5. ASSUME NEW d \in Calls, Metadata(d)
        PROVE  /\ part[c] = "completed" => part'[c] = "completed"
               /\ part[c] = "error" /\ part'[c] # "error" => c \in late
    <3>1. /\ tool[d] \in Going /\ toolcalls[d] = "running"
          /\ part' = [part EXCEPT ![d] = "running"]
      BY <2>5 DEF Metadata
    <3>2. part[d] # "completed" /\ (part[d] = "error" => d \in late)
      BY <2>0, <3>1 DEF Remembered
    <3>. QED  BY <2>0, <3>1, <3>2
  <2>6. CASE UNCHANGED part
    BY <2>6
  <2>. QED  BY <1>2, <2>1, <2>2, <2>3, <2>4, <2>5, <2>6
            DEF Next, Process, ReadResult, ReadError, OpenStream, ReadFinish, ReadFailure,
                ReadAborted, Wake, AnswerDoom, FinishStep, StreamFails, Abort,
                Announce, Call, End, InnerStart, InnerEnd
<1>3. ASSUME ToolInv, Next, NEW c \in Calls
      PROVE  /\ inner[c] = "completed" => inner'[c] = "completed"
             /\ inner[c] = "error" /\ inner'[c] # "error" => c \in late
  <2>. USE DEF ToolInv
  <2>0. Inside /\ Remembered /\ inner \in [Calls -> Statuses]
    BY <1>3 DEF Types
  <2>1. CASE Close
    BY <2>1 DEF Close, Closed, Open
  <2>2. ASSUME NEW d \in Calls, InnerStart(d) \/ InnerEnd(d)
        PROVE  /\ inner[c] = "completed" => inner'[c] = "completed"
               /\ inner[c] = "error" /\ inner'[c] # "error" => c \in late
    <3>1. /\ tool[d] \in {"going", "waiting"} /\ tool[d] \in Going
          /\ \A b \in Calls \ {d} : inner'[b] = inner[b]
      BY <2>0, <2>2 DEF InnerStart, InnerEnd, Going
    <3>2. inner[d] # "completed" /\ (inner[d] = "error" => d \in late)
      BY <2>0, <3>1 DEF Inside, Remembered
    <3>. QED  BY <3>1, <3>2
  <2>3. CASE UNCHANGED inner
    BY <2>3
  <2>. QED  BY <1>3, <2>1, <2>2, <2>3
            DEF Next, Process, ReadResult, ReadError, ReadOutcome, ReadInputStart, ReadCall,
                OpenStream, ReadFinish, ReadFailure, ReadAborted, Wake, AnswerDoom, FinishStep,
                StreamFails, Abort, Announce, Call, End, Metadata
<1>4. ToolInv /\ ToolInv' /\ [Next]_vars =>
        [/\ phase' = "done" /\ ~failed' /\ verdict' # "compact" =>
              \A c \in Calls : asked'[c] = attempt' /\ tool'[c] # "none" =>
                /\ tool'[c] \in Outcomes
                /\ part'[c] = IF tool'[c] = "returned" THEN "completed" ELSE "error"
         /\ \A c \in Calls :
              /\ part[c] = "completed" => part'[c] = "completed"
              /\ inner[c] = "completed" => inner'[c] = "completed"
              /\ part[c] = "error" /\ part'[c] # "error" => c \in late
              /\ inner[c] = "error" /\ inner'[c] # "error" => c \in late]_vars
  BY <1>1, <1>2, <1>3
<1> QED
  BY <1>4, ToolInit, ToolStep, PTL DEF Spec, OutcomesStay
=============================================================================
