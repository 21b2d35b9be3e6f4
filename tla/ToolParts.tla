------------------------------ MODULE ToolParts ------------------------------
(***************************************************************************)
(* One answer of the model: the events of its stream, the tools that run    *)
(* beside it, and the stored parts in which both leave their state          *)
(* (packages/opencode/src/session/processor.ts, the tool context of         *)
(* session/prompt.ts, tool/batch.ts).                                       *)
(*                                                                         *)
(* The stream is the AI SDK's.  As far as the code relies on it: a call is  *)
(* announced, if at all, before it is made; its tool starts when it is      *)
(* made; the outcome follows in the stream; and the step finishes when      *)
(* every outcome is in.  Call identifiers are not used twice.               *)
(***************************************************************************)
EXTENDS Naturals, SequencesExt

CONSTANTS
  Calls,        \* the tool calls the model may make in this answer
  Batches,      \* those that call the batch tool, here with one inner call
  RetryLimit,   \* KILO_SESSION_RETRY_LIMIT
  Unlimited,    \* "no limit": the default
  ShouldBreak   \* experimental.continue_loop_on_deny is not set

ASSUME BatchesAssumption == Batches \subseteq Calls
ASSUME UnlimitedAssumption == Unlimited \notin Nat
ASSUME RetryLimitAssumption == RetryLimit \in (Nat \ {0}) \cup {Unlimited}
ASSUME ShouldBreakAssumption == ShouldBreak \in BOOLEAN

VARIABLES
  phase,       \* where process() stands
  attempt,     \* how often the request was sent again
  events,      \* the events of the stream that are not yet read
  toolcalls,   \* the status the processor remembers for a call, none if deleted
  part,        \* the stored part of a call
  inner,       \* the stored part of the inner call of a batch
  tool,        \* the tool that runs for a call
  asked,       \* the attempt that made the call
  abort,       \* the abort signal of the turn
  blocked,     \* a rejection stops the loop
  compact,     \* needsCompaction
  failed,      \* the assistant message has an error
  verdict,     \* what process() returned
  late,        \* history: the calls whose tool outlived the answer
  overruled    \* history: the batches whose inner call was rejected

vars == <<phase, attempt, events, toolcalls, part, inner, tool, asked,
          abort, blocked, compact, failed, verdict, late, overruled>>

EventTypes == {"tool-input-start", "tool-call", "tool-result", "tool-error"}
Going == {"going", "waiting", "collected"}   \* the last two only of a batch
Outcomes == {"returned", "threw", "rejected"}   \* by the user, without a message
Statuses == {"none", "pending", "running", "completed", "error"}
Open == {"pending", "running"}

Init ==
  /\ phase = "opening"
  /\ attempt = 0
  /\ events = <<>>
  /\ toolcalls = [c \in Calls |-> "none"]
  /\ part = [c \in Calls |-> "none"]
  /\ inner = [c \in Calls |-> "none"]
  /\ tool = [c \in Calls |-> "none"]
  /\ asked = [c \in Calls |-> 0]
  /\ abort = FALSE
  /\ blocked = FALSE
  /\ compact = FALSE
  /\ failed = FALSE
  /\ verdict = "none"
  /\ late = {}
  /\ overruled = {}

Result == <<blocked, compact, failed, verdict, late, overruled>>

(***************************************************************************)
(* The stream: the model announces calls, makes them, and finishes or       *)
(* fails; a failure leaves the tools running.                               *)
(***************************************************************************)
Live == phase \in {"reading", "doom"}
Over == events # <<>> /\ Last(events).type \in {"finish-step", "error"}
Emit(t, c) == events' = Append(events, [type |-> t, call |-> c])

Announce(c) ==
  /\ Live /\ ~Over /\ tool[c] = "none"
  /\ tool' = [tool EXCEPT ![c] = "announced"]
  /\ asked' = [asked EXCEPT ![c] = attempt]
  /\ Emit("tool-input-start", c)
  /\ UNCHANGED <<phase, attempt, toolcalls, part, inner, abort, Result>>

Call(c) ==
  /\ Live /\ ~Over
  /\ tool[c] = "none" \/ (tool[c] = "announced" /\ asked[c] = attempt)
  /\ tool' = [tool EXCEPT ![c] = "going"]
  /\ asked' = [asked EXCEPT ![c] = attempt]
  /\ Emit("tool-call", c)
  /\ UNCHANGED <<phase, attempt, toolcalls, part, inner, abort, Result>>

FinishStep ==
  /\ Live /\ ~Over
  /\ \A c \in Calls : asked[c] = attempt => tool[c] \notin {"announced"} \cup Going
  /\ events' = Append(events, [type |-> "finish-step"])
  /\ UNCHANGED <<phase, attempt, toolcalls, part, inner, tool, asked, abort, Result>>

StreamFails ==
  /\ Live /\ ~Over
  /\ events' = Append(events, [type |-> "error"])
  /\ UNCHANGED <<phase, attempt, toolcalls, part, inner, tool, asked, abort, Result>>

\* The turn is cancelled: everybody holds the same signal.
Abort ==
  /\ phase # "done" /\ ~abort
  /\ abort' = TRUE
  /\ UNCHANGED <<phase, attempt, events, toolcalls, part, inner, tool, asked, Result>>

(***************************************************************************)
(* A tool.  The metadata callback stores the part of the call as running    *)
(* if the processor remembers it so; batch stores the parts of its inner    *)
(* calls itself.                                                            *)
(***************************************************************************)
Metadata(c) ==
  /\ tool[c] \in Going /\ toolcalls[c] = "running"
  /\ part' = [part EXCEPT ![c] = "running"]
  /\ UNCHANGED <<phase, attempt, events, toolcalls, inner, tool, asked, abort, Result>>

InnerStart(c) ==
  /\ c \in Batches /\ tool[c] = "going"
  /\ inner' = [inner EXCEPT ![c] = "running"]
  /\ tool' = [tool EXCEPT ![c] = "waiting"]
  /\ UNCHANGED <<phase, attempt, events, toolcalls, part, asked, abort, Result>>

\* Whatever the inner call throws, a rejection too, batch notes as its error and
\* goes on.
InnerEnd(c) ==
  /\ tool[c] = "waiting"
  /\ \E o \in Outcomes :
       /\ inner' = [inner EXCEPT ![c] = IF o = "returned" THEN "completed" ELSE "error"]
       /\ overruled' = IF o = "rejected" THEN overruled \cup {c} ELSE overruled
  /\ tool' = [tool EXCEPT ![c] = "collected"]
  /\ UNCHANGED <<phase, attempt, events, toolcalls, part, asked, abort,
                 blocked, compact, failed, verdict, late>>

\* The outcome enters the stream if that is still the one of the call.
End(c) ==
  /\ tool[c] \in IF c \in Batches THEN {"going", "collected"} ELSE {"going"}
  /\ \E o \in Outcomes :
       /\ tool' = [tool EXCEPT ![c] = o]
       /\ IF Live /\ ~Over /\ asked[c] = attempt
          THEN Emit(IF o = "returned" THEN "tool-result" ELSE "tool-error", c)
          ELSE UNCHANGED events
  /\ UNCHANGED <<phase, attempt, toolcalls, part, inner, asked, abort, Result>>

(***************************************************************************)
(* process(): the catch clause, and the events one by one.                  *)
(***************************************************************************)
\* Mutant: every error but an overflow is tried again, and not counted.
MutThrown(kind) ==
  /\ events' = <<>>
  /\ IF kind = "overflow"
     THEN phase' = "closing" /\ compact' = TRUE /\ UNCHANGED <<attempt, failed>>
     ELSE phase' = "sleeping" /\ UNCHANGED <<attempt, compact, failed>>

Thrown(kind) ==
  /\ events' = <<>>
  /\ IF kind = "overflow"
     THEN phase' = "closing" /\ compact' = TRUE /\ UNCHANGED <<attempt, failed>>
     ELSE IF kind = "retryable" /\ (RetryLimit = Unlimited \/ attempt < RetryLimit)
     THEN phase' = "sleeping" /\ attempt' = attempt + 1 /\ UNCHANGED <<compact, failed>>
     ELSE phase' = "closing" /\ failed' = TRUE /\ UNCHANGED <<attempt, compact>>

Errors == {"overflow", "retryable", "other"}

\* LLM.stream answers, or throws.
OpenStream ==
  /\ phase = "opening"
  /\ \/ /\ phase' = "reading"
        /\ UNCHANGED <<attempt, events, compact, failed>>
     \/ \E k \in Errors : Thrown(k)
  /\ UNCHANGED <<toolcalls, part, inner, tool, asked, abort, blocked, verdict, late, overruled>>

Reads(type) ==
  /\ phase = "reading" /\ ~abort
  /\ events # <<>> /\ Head(events).type = type

Put(c, s, r) ==
  /\ part' = [part EXCEPT ![c] = s]
  /\ toolcalls' = [toolcalls EXCEPT ![c] = r]
  /\ events' = Tail(events)

ReadInputStart ==
  /\ Reads("tool-input-start")
  /\ Put(Head(events).call, "pending", "pending")
  /\ UNCHANGED <<phase, attempt, inner, tool, asked, abort, Result>>

\* Mutant: a call that was not announced gets no part.
MutCalled(c) ==
  IF toolcalls[c] = "none"
  THEN events' = Tail(events) /\ UNCHANGED <<toolcalls, part>>
  ELSE Put(c, "running", "running")

\* The part is stored as pending where there is none, and at once as running.
Called(c) == Put(c, "running", "running")

\* The third equal call in a row waits for the permission to go on.
ReadCall ==
  /\ Reads("tool-call")
  /\ Called(Head(events).call)
  /\ phase' \in {"reading", "doom"}
  /\ UNCHANGED <<attempt, inner, tool, asked, abort, Result>>

AnswerDoom ==
  /\ phase = "doom"
  /\ \/ /\ phase' = "reading"
        /\ UNCHANGED <<attempt, events, compact, failed>>
     \/ Thrown("other")
  /\ UNCHANGED <<toolcalls, part, inner, tool, asked, abort, blocked, verdict, late, overruled>>

\* Mutant: a later error that is no rejection opens the loop again.
MutBlocks(c) == tool[c] = "rejected" /\ ShouldBreak

Blocks(c) == IF tool[c] = "rejected" THEN ShouldBreak ELSE blocked

\* An outcome is stored if the processor remembers the call as running.
ReadOutcome(type, status) ==
  /\ Reads(type)
  /\ LET c == Head(events).call
     IN IF toolcalls[c] = "running"
        THEN /\ Put(c, status, "none")
             /\ blocked' = IF type = "tool-error" THEN Blocks(c) ELSE blocked
        ELSE events' = Tail(events) /\ UNCHANGED <<toolcalls, part, blocked>>
  /\ UNCHANGED <<phase, attempt, inner, tool, asked, abort, compact, failed, verdict, late,
                 overruled>>

ReadResult == ReadOutcome("tool-result", "completed")
ReadError  == ReadOutcome("tool-error", "error")

\* The tokens may be over the limit of the model.
ReadFinish ==
  /\ Reads("finish-step")
  /\ compact' \in {compact, TRUE}
  /\ phase' = "closing"
  /\ events' = <<>>
  /\ UNCHANGED <<attempt, toolcalls, part, inner, tool, asked, abort,
                 blocked, failed, verdict, late, overruled>>

ReadFailure ==
  /\ Reads("error")
  /\ \E k \in Errors : Thrown(k)
  /\ UNCHANGED <<toolcalls, part, inner, tool, asked, abort, blocked, verdict, late, overruled>>

\* The stream of an aborted request yields an event of its own, if no other.
ReadAborted ==
  /\ phase = "reading" /\ abort
  /\ Thrown("aborted")
  /\ UNCHANGED <<toolcalls, part, inner, tool, asked, abort, blocked, verdict, late, overruled>>

\* The delay ends by itself or by the signal.
Wake ==
  /\ phase = "sleeping"
  /\ phase' = "opening"
  /\ UNCHANGED <<attempt, events, toolcalls, part, inner, tool, asked, abort, Result>>

\* Mutant: only the parts of calls that never got to run are closed.
MutClosed(s) == IF s = "pending" THEN "error" ELSE s

Closed(s) == IF s \in Open THEN "error" ELSE s

\* After the snapshot is compared: what is open is closed, and process() returns.
Close ==
  /\ phase = "closing"
  /\ phase' = "done"
  /\ part' = [c \in Calls |-> Closed(part[c])]
  /\ inner' = [c \in Calls |-> Closed(inner[c])]
  /\ verdict' = IF compact THEN "compact"
                ELSE IF blocked \/ failed THEN "stop" ELSE "continue"
  /\ late' = {c \in Calls : tool[c] \in Going}
  /\ UNCHANGED <<attempt, events, toolcalls, tool, asked, abort,
                 blocked, compact, failed, overruled>>

Process ==
  \/ OpenStream \/ ReadInputStart \/ ReadCall \/ ReadResult \/ ReadError
  \/ ReadFinish \/ ReadFailure \/ ReadAborted \/ Wake \/ Close

Next ==
  \/ Process \/ AnswerDoom \/ FinishStep \/ StreamFails \/ Abort
  \/ \E c \in Calls : Announce(c) \/ Call(c) \/ End(c)
  \/ \E c \in Calls : Metadata(c) \/ InnerStart(c) \/ InnerEnd(c)

Spec == Init /\ [][Next]_vars

\* The processor goes on; neither the provider, nor a tool, nor the user need.
FairSpec == Spec /\ WF_vars(Process)

-----------------------------------------------------------------------------
TypeOK ==
  /\ phase \in {"opening", "reading", "doom", "sleeping", "closing", "done"}
  /\ attempt \in Nat /\ (RetryLimit # Unlimited => attempt <= RetryLimit)
  /\ \A i \in DOMAIN events : events[i].type \in {"finish-step", "error"}
       \/ (events[i].type \in EventTypes /\ events[i].call \in Calls)
  /\ toolcalls \in [Calls -> {"none"} \cup Open]
  /\ part \in [Calls -> Statuses]
  /\ inner \in [Calls -> Statuses]
  /\ tool \in [Calls -> {"none", "announced"} \cup Going \cup Outcomes]
  /\ asked \in [Calls -> Nat]
  /\ {abort, blocked, compact, failed} \subseteq BOOLEAN
  /\ verdict \in {"none", "compact", "stop", "continue"}
  /\ late \subseteq Calls
  /\ overruled \subseteq Calls

\* An answer leaves no part open, of a stream that was cut and of attempts that
\* failed before it too, but where a tool outlives it and writes on: then the
\* part of an aborted call is back at running and nobody closes it again.
NothingIsLeftOpen ==
  phase = "done" =>
    \A c \in Calls : c \notin late => part[c] \notin Open /\ inner[c] \notin Open

\* The user rejected a call of the request that ended the answer.
Rejected == \E c \in Calls : asked[c] = attempt /\ tool[c] = "rejected"

\* A rejection in the request that ended the answer has process() stop the loop,
\* whatever the tools beside it reported later, unless the answer filled the
\* context: "compact" is returned first, and the loop then compacts and goes on
\* over the rejection.  A rejection that a batch swallowed stops nothing.
RejectionStopsUnlessFull ==
  phase = "done" =>
    /\ ShouldBreak /\ Rejected => verdict = IF compact THEN "compact" ELSE "stop"
    /\ overruled # {} /\ ~failed /\ (\A c \in Calls : tool[c] # "rejected") =>
         verdict # "stop"

\* When the answer ends without an error, each call of its last request has the
\* part its tool earned: no result went to a call nobody remembered.  And a
\* completed part is final; an error is but for a tool that outlives the answer.
OutcomesStay ==
  [][/\ phase' = "done" /\ ~failed' /\ verdict' # "compact" =>
          \A c \in Calls : asked'[c] = attempt' /\ tool'[c] # "none" =>
            /\ tool'[c] \in Outcomes
            /\ part'[c] = IF tool'[c] = "returned" THEN "completed" ELSE "error"
     /\ \A c \in Calls :
          /\ part[c] = "completed" => part'[c] = "completed"
          /\ inner[c] = "completed" => inner'[c] = "completed"
          /\ part[c] = "error" /\ part'[c] # "error" => c \in late
          /\ inner[c] = "error" /\ inner'[c] # "error" => c \in late]_vars

\* An aborted answer ends, with tools that go on and a provider that says
\* nothing more, unless it waits for the permission to go on.
AbortEnds == ([]<>(phase # "doom")) => (abort ~> phase = "done")
=============================================================================
