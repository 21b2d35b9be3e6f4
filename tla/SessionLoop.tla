----------------------------- MODULE SessionLoop -----------------------------
(***************************************************************************)
(* One session of the CLI backend: the prompts, slash commands, shell      *)
(* commands and aborts that clients send it, and the agent loop that       *)
(* answers them (packages/opencode/src/session/prompt.ts, with the parts   *)
(* of processor.ts, compaction.ts, status.ts and kilocode/plan-followup.ts *)
(* that the loop runs).                                                    *)
(*                                                                         *)
(* The program is one JavaScript thread: what a call does between two      *)
(* awaits is one action here, and any other call may run at an await.      *)
(*                                                                         *)
(* A call that starts the session makes an AbortController; a call makes   *)
(* at most one, so the controller is named by the call.  The session is    *)
(* never reverted, deleted or disposed of in this module.                  *)
(***************************************************************************)
EXTENDS Naturals

CONSTANTS
  Calls,          \* the HTTP calls made to the session
  Kinds,          \* the kinds of call a run lets clients make
  None,           \* "no entry": the session is absent from the state map
  MaxAborts,      \* bound: abort requests
  MaxSteps,       \* bound: answers that end with tool calls
  MaxOverflows,   \* bound: context overflows met by the model calls
  MaxThrows,      \* bound: rounds that throw out of the loop
  MaxEvents,      \* bound: all of these together
  MaxMessages,    \* bound: messages after which no round is begun
  ClientIds,      \* whether clients choose the identifiers of their messages
  Unlimited,      \* no limit on retries: what holds unless the user sets one
  RetryLimit      \* Flag.KILO_SESSION_RETRY_LIMIT, or Unlimited

CallKinds == {"prompt", "noReply", "command", "summarize", "shell"}

ASSUME KindsAssumption == Kinds \subseteq CallKinds
ASSUME NoneAssumption == None \notin Calls
ASSUME ClientIdsAssumption == ClientIds \in BOOLEAN
ASSUME UnlimitedAssumption == Unlimited \notin Nat
ASSUME BoundsAssumption ==
  /\ MaxAborts \in Nat
  /\ MaxSteps \in Nat
  /\ MaxOverflows \in Nat
  /\ MaxThrows \in Nat
  /\ MaxEvents \in Nat
  /\ MaxMessages \in Nat
  /\ RetryLimit \in (Nat \ {0}) \cup {Unlimited}

VARIABLES
  entry,      \* state()[sessionID]: whose controller it holds, or None
  callbacks,  \* the calls queued on that entry
  aborted,    \* the controllers whose signal is aborted
  status,     \* SessionStatus of the session
  msgs,       \* the stored messages
  nextId,     \* the clock: the next ascending identifier, and the next time
  pc,         \* where each call is
  ctl,        \* the controller whose signal a call watches
  loc,        \* the other locals of a call
  reply,      \* what the promise of a call settled with
  aborts,     \* abort requests made so far
  overflows,  \* context overflows met so far
  throws,     \* rounds that threw so far
  steps,      \* answers that ended with tool calls so far
  byUser      \* history: the controllers aborted by an abort request

vars == <<entry, callbacks, aborted, status, msgs, nextId, pc, ctl, loc, reply,
          aborts, overflows, throws, steps, byUser>>

session == <<entry, callbacks, aborted, status>>
store   == <<msgs, nextId>>
bounds  == <<aborts, overflows, throws, steps, byUser>>

MoreEvents == aborts + overflows + throws + steps < MaxEvents

(***************************************************************************)
(* Messages.  "full" tells a user message whose parts are stored from one  *)
(* that has none yet.                                                      *)
(* The stream sorts messages by "time", which the server sets.  The server *)
(* takes an identifier and a time at one moment, so both are the same tick *)
(* of nextId; a client that chooses an identifier takes it earlier, by a   *)
(* clock that is supposed to agree with the server's.                      *)
(***************************************************************************)
Tasks    == {"none", "subtask", "manual", "auto"}
Jobs     == Tasks \cup {"overflow"}
Finishes == {"none", "stop", "tool-calls", "error"}
Message  == [id : Nat, time : Nat, role : {"user", "assistant"}, full : BOOLEAN,
             task : Tasks, finish : Finishes, summary : BOOLEAN]

UserMessage(i, t, f) ==
  [id |-> i, time |-> i, role |-> "user", full |-> f, task |-> t, finish |-> "none",
   summary |-> FALSE]

AssistantMessage(i, sum) ==
  [id |-> i, time |-> i, role |-> "assistant", full |-> TRUE, task |-> "none",
   finish |-> "none", summary |-> sum]

Users(s)      == {m \in s : m.role = "user"}
Assistants(s) == {m \in s : m.role = "assistant"}
Finished(s)   == {m \in Assistants(s) : m.finish # "none"}
Newest(s)     == CHOOSE m \in s : \A n \in s : n.time <= m.time
Oldest(s)     == CHOOSE m \in s : \A n \in s : m.time <= n.time

\* The message with identifier i changed by the record update f.
Update(s, i, f(_)) == {IF m.id = i THEN f(m) ELSE m : m \in s}

\* The compaction and subtask parts newer than the last finished answer.
PendingTasks(s) ==
  {m \in Users(s) : /\ m.task # "none"
                    /\ m.full
                    /\ \A a \in Finished(s) : a.time < m.time}

\* Mutant: the order of the two messages is not compared.
MutAnswered(s) ==
  /\ Users(s) # {}
  /\ Assistants(s) # {}
  /\ Newest(Assistants(s)).finish \notin {"none", "tool-calls"}

\* The test by which the loop leaves: the last answer is final, and its
\* identifier is above that of the last user message.
Answered(s) ==
  /\ Users(s) # {}
  /\ Assistants(s) # {}
  /\ Newest(Assistants(s)).finish \notin {"none", "tool-calls"}
  /\ Newest(Users(s)).id < Newest(Assistants(s)).id

(***************************************************************************)
(* Calls.                                                                  *)
(***************************************************************************)
EntryPcs == {"new", "composed", "creating", "partial", "saved"}
ShellPcs == {"shell", "shellUser", "shellRun"}
\* In the plan's follow-up: its text is looked for, the user was asked, or was
\* asked after an abort that nobody listened to yet.
PlanPcs  == {"plan", "asked", "unheard"}
LoopPcs  == {"top", "read", "work", "subtask", "calling", "stream", "finishing",
             "backoff", "wrapup", "tail", "closing"} \cup PlanPcs
Pcs      == EntryPcs \cup ShellPcs \cup LoopPcs \cup {"queued", "done"}

\* A call holds a controller while it runs a shell command or a loop.
Active(c) == pc[c] \in ShellPcs \cup LoopPcs

Results == {"continue", "stop", "compact"}
Reasons == {"completed", "interrupted", "error"}
Replies == [as : {"pending", "message", "error", "busy"}, id : Nat]

\* Of the message a call stores, "user" is the identifier, "sent" the time.
Local == [kind : CallKinds, user : Nat, sent : Nat, task : Jobs,
          cur : Nat, result : Results, failed : BOOLEAN,
          reason : Reasons, retries : Nat]

Returns(i) == [as |-> "message", id |-> i]
Without(w) == [as |-> w, id |-> 0]

InitLocal ==
  [kind |-> "prompt", user |-> 0, sent |-> 0, task |-> "none",
   cur |-> 0, result |-> "continue", failed |-> FALSE,
   reason |-> "completed", retries |-> 0]

Goto(c, to) == pc' = [pc EXCEPT ![c] = to]
Aborted(c)  == ctl[c] \in aborted

Init ==
  /\ entry = None
  /\ callbacks = {}
  /\ aborted = {}
  /\ status = "idle"
  /\ msgs = {}
  /\ nextId = 1
  /\ pc = [c \in Calls |-> "new"]
  /\ ctl = [c \in Calls |-> None]
  /\ loc = [c \in Calls |-> InitLocal]
  /\ reply = [c \in Calls |-> Without("pending")]
  /\ aborts = 0
  /\ overflows = 0
  /\ throws = 0
  /\ steps = 0
  /\ byUser = {}

\* Mutant: the early return for a missing entry leaves the status alone.
MutCancelStatus ==
  /\ aborted' = IF entry = None THEN aborted ELSE aborted \cup {entry}
  /\ entry' = None
  /\ callbacks' = {}
  /\ status' = IF entry = None THEN status ELSE "idle"

\* SessionPrompt.cancel: abort the controller of the entry, whoever made it,
\* drop the entry with its queue, and report the session idle.
Cancel ==
  /\ aborted' = IF entry = None THEN aborted ELSE aborted \cup {entry}
  /\ entry' = None
  /\ callbacks' = {}
  /\ status' = "idle"

\* Mutant: start() does not look for an entry.
MutClaim(c) ==
  /\ entry' = c
  /\ callbacks' = {}
  /\ ctl' = [ctl EXCEPT ![c] = c]

\* start(): a new controller in a new entry.
Claim(c) ==
  /\ entry = None
  /\ entry' = c
  /\ callbacks' = {}
  /\ ctl' = [ctl EXCEPT ![c] = c]

(***************************************************************************)
(* A client call: SessionPrompt.prompt, with or without noReply,           *)
(* SessionPrompt.command for a subtask, and the summarize route.  The time *)
(* of a prompt's message is taken first, with its identifier unless the    *)
(* client chose one; the message is stored after its parts were resolved,  *)
(* the parts after the message.                                            *)
(***************************************************************************)
\* A client takes the identifier of the message it is about to send.
Compose(c) ==
  /\ ClientIds
  /\ pc[c] = "new"
  /\ Goto(c, "composed")
  /\ loc' = [loc EXCEPT ![c].user = nextId]
  /\ nextId' = nextId + 1
  /\ UNCHANGED <<session, msgs, ctl, reply, bounds>>

Submit(c, k) ==
  /\ pc[c] \in {"new", "composed"}
  /\ k \in Kinds \ {"shell", "summarize"}
  /\ Goto(c, "creating")
  /\ LET i == IF pc[c] = "composed" THEN loc[c].user ELSE nextId
     IN loc' = [loc EXCEPT ![c].kind = k, ![c].user = i, ![c].sent = nextId]
  /\ nextId' = nextId + 1
  /\ UNCHANGED <<session, msgs, ctl, reply, bounds>>

Summarize(c) ==
  /\ pc[c] = "new"
  /\ "summarize" \in Kinds
  /\ Goto(c, "creating")
  /\ loc' = [loc EXCEPT ![c].kind = "summarize"]
  /\ UNCHANGED <<session, store, ctl, reply, bounds>>

TaskOf(k) == CASE k = "command"   -> "subtask"
               [] k = "summarize" -> "manual"
               [] OTHER           -> "none"

SaveMessage(c) ==
  /\ pc[c] = "creating"
  /\ Goto(c, "partial")
  /\ LET k == loc[c].kind
         i == IF k = "summarize" THEN nextId ELSE loc[c].user
         t == IF k = "summarize" THEN nextId ELSE loc[c].sent
     IN /\ msgs' = msgs \cup {[UserMessage(i, TaskOf(k), FALSE) EXCEPT !.time = t]}
        /\ nextId' = IF k = "summarize" THEN nextId + 1 ELSE nextId
        /\ loc' = [loc EXCEPT ![c].user = i, ![c].sent = t]
  /\ UNCHANGED <<session, ctl, reply, bounds>>

SaveParts(c) ==
  /\ pc[c] = "partial"
  /\ Goto(c, "saved")
  /\ msgs' = Update(msgs, loc[c].user, LAMBDA m : [m EXCEPT !.full = TRUE])
  /\ UNCHANGED <<session, nextId, ctl, loc, reply, bounds>>

\* prompt with noReply: the message is all there is to do.
ReturnMessage(c) ==
  /\ pc[c] = "saved"
  /\ loc[c].kind = "noReply"
  /\ Goto(c, "done")
  /\ reply' = [reply EXCEPT ![c] = Returns(loc[c].user)]
  /\ UNCHANGED <<session, store, ctl, loc, bounds>>

\* loop() on an idle session: claim it and open a turn.
StartLoop(c) ==
  /\ pc[c] = "saved"
  /\ loc[c].kind # "noReply"
  /\ Claim(c)
  /\ Goto(c, "top")
  /\ UNCHANGED <<aborted, status, store, loc, reply, bounds>>

\* loop() on a busy session: wait on the running entry.
QueueBehind(c) ==
  /\ pc[c] = "saved"
  /\ loc[c].kind # "noReply"
  /\ entry # None
  /\ callbacks' = callbacks \cup {c}
  /\ Goto(c, "queued")
  /\ UNCHANGED <<entry, aborted, status, store, ctl, loc, reply, bounds>>

(***************************************************************************)
(* The loop: one round from "top" to "top".                                *)
(***************************************************************************)
\* A round begins: busy, even if the signal is aborted.
BeginStep(c) ==
  /\ pc[c] = "top"
  /\ status' = "busy"
  /\ IF Aborted(c)
     THEN /\ Goto(c, "tail")
          /\ loc' = [loc EXCEPT ![c].reason = "interrupted"]
     ELSE /\ Goto(c, "read")
          /\ UNCHANGED loc
  /\ UNCHANGED <<entry, callbacks, aborted, store, ctl, reply, bounds>>

\* The history is read and the last answer is final: leave.
LeaveLoop(c) ==
  /\ pc[c] = "read"
  /\ Answered(msgs)
  /\ Goto(c, "tail")
  /\ UNCHANGED <<session, store, ctl, loc, reply, bounds>>

(***************************************************************************)
(* Before it leaves, a loop whose model handed over a plan asks the user   *)
(* what to do with it: PlanFollowup.ask.                                   *)
(***************************************************************************)
\* Since the last user message, a tool ran: plan_exit, say.
MayPlan(s) ==
  \E a \in Assistants(s) : /\ a.finish = "tool-calls"
                           /\ Newest(Users(s)).time < a.time

AskPlan(c) ==
  /\ pc[c] = "read"
  /\ Answered(msgs)
  /\ MayPlan(msgs)
  /\ ~Aborted(c)
  /\ Goto(c, "plan")
  /\ UNCHANGED <<session, store, ctl, loc, reply, bounds>>

\* The plan's text was looked for, in its file if no message has it, and there
\* is none, or the question is put; only then is the signal listened to.
ResolvePlan(c) ==
  /\ pc[c] = "plan"
  /\ \/ Goto(c, "tail")
     \/ Goto(c, IF Aborted(c) THEN "unheard" ELSE "asked")
  /\ UNCHANGED <<session, store, ctl, loc, reply, bounds>>

\* The abort rejects the question.
RejectPlan(c) ==
  /\ pc[c] = "asked"
  /\ Aborted(c)
  /\ Goto(c, "tail")
  /\ UNCHANGED <<session, store, ctl, loc, reply, bounds>>

\* The user dismisses the question or starts another session with the plan...
DismissPlan(c) ==
  /\ pc[c] \in {"asked", "unheard"}
  /\ Goto(c, "tail")
  /\ UNCHANGED <<session, store, ctl, loc, reply, bounds>>

\* ...or goes on in this one: a message of theirs, and another round.
ContinuePlan(c) ==
  /\ pc[c] \in {"asked", "unheard"}
  /\ Goto(c, "top")
  /\ msgs' = msgs \cup {UserMessage(nextId, "none", TRUE)}
  /\ nextId' = nextId + 1
  /\ UNCHANGED <<session, ctl, loc, reply, bounds>>

\* What a round finds to do: the oldest pending task, or a compaction because
\* the last finished answer filled the context, or an answer.
JobsFor(s) ==
  LET pending == PendingTasks(s)
      full    == \E a \in Finished(s) : a = Newest(Finished(s)) /\ ~a.summary
  IN IF pending # {} THEN {Oldest(pending).task}
     ELSE {"none"} \cup (IF full THEN {"overflow"} ELSE {})

\* The history is read and there is something to do.
TakeStep(c) ==
  /\ pc[c] = "read"
  /\ Users(msgs) # {}
  /\ ~Answered(msgs)
  /\ nextId <= MaxMessages
  /\ Goto(c, "work")
  /\ \E j \in JobsFor(msgs) :
       /\ j = "overflow" => overflows < MaxOverflows /\ MoreEvents
       /\ overflows' = IF j = "overflow" THEN overflows + 1 ELSE overflows
       /\ loc' = [loc EXCEPT ![c].task = j]
  /\ UNCHANGED <<session, store, ctl, reply, aborts, throws, steps, byUser>>

\* The loop goes round again; the locals of the round are dead.
NextRound(l) == [l EXCEPT !.task = "none", !.cur = 0, !.result = "continue",
                          !.failed = FALSE, !.retries = 0]

\* Mutant: the error is swallowed and the loop broken off.
MutThrow(c) ==
  /\ pc[c] = "work"
  /\ throws < MaxThrows /\ MoreEvents
  /\ throws' = throws + 1
  /\ Goto(c, "tail")
  /\ loc' = [loc EXCEPT ![c] = [NextRound(@) EXCEPT !.reason = "error"]]
  /\ UNCHANGED <<session, store, ctl, reply, aborts, overflows, steps, byUser>>

\* Provider.getModel throws out of the loop: nobody is answered.
Throw(c) ==
  /\ pc[c] = "work"
  /\ throws < MaxThrows /\ MoreEvents
  /\ throws' = throws + 1
  /\ Goto(c, "closing")
  /\ loc' = [loc EXCEPT ![c] = [NextRound(@) EXCEPT
                !.reason = IF Aborted(c) THEN "interrupted" ELSE "error"]]
  /\ UNCHANGED <<session, store, ctl, reply, aborts, overflows, steps, byUser>>

NewAssistant(c, sum, to) ==
  /\ msgs' = msgs \cup {AssistantMessage(nextId, sum)}
  /\ nextId' = nextId + 1
  /\ loc' = [loc EXCEPT ![c].cur = nextId]
  /\ Goto(c, to)

\* The model chosen for the round is loaded and a message for its work made.
StartSubtask(c) ==
  /\ pc[c] = "work"
  /\ loc[c].task = "subtask"
  /\ NewAssistant(c, FALSE, "subtask")
  /\ UNCHANGED <<session, ctl, reply, bounds>>

StartSummary(c) ==
  /\ pc[c] = "work"
  /\ loc[c].task \in {"manual", "auto"}
  /\ NewAssistant(c, TRUE, "calling")
  /\ UNCHANGED <<session, ctl, reply, bounds>>

StartAnswer(c) ==
  /\ pc[c] = "work"
  /\ loc[c].task = "none"
  /\ NewAssistant(c, FALSE, "calling")
  /\ UNCHANGED <<session, ctl, reply, bounds>>

\* The last finished answer left the context too full for another round.
PreCompact(c) ==
  /\ pc[c] = "work"
  /\ loc[c].task = "overflow"
  /\ msgs' = msgs \cup {UserMessage(nextId, "auto", TRUE)}
  /\ nextId' = nextId + 1
  /\ loc' = [loc EXCEPT ![c] = NextRound(@)]
  /\ Goto(c, "top")
  /\ UNCHANGED <<session, ctl, reply, bounds>>

\* The task tool returned; a command's subtask gets a user message after it.
EndSubtask(c) ==
  /\ pc[c] = "subtask"
  /\ Goto(c, "top")
  /\ LET closed == Update(msgs, loc[c].cur, LAMBDA m : [m EXCEPT !.finish = "tool-calls"])
     IN msgs' = closed \cup {UserMessage(nextId, "none", TRUE)}
  /\ nextId' = nextId + 1
  /\ loc' = [loc EXCEPT ![c] = NextRound(@)]
  /\ UNCHANGED <<session, ctl, reply, bounds>>

(***************************************************************************)
(* The model call: SessionProcessor.process.                               *)
(***************************************************************************)
Stream(c, from, to, l) ==
  /\ pc[c] \in from
  /\ Goto(c, to)
  /\ loc' = [loc EXCEPT ![c] = l]
  /\ UNCHANGED <<entry, callbacks, aborted, nextId, ctl, reply, aborts, throws, byUser>>

\* The "start" event: the provider answers.
StreamStart(c) ==
  /\ ~Aborted(c)
  /\ Stream(c, {"calling"}, "stream", loc[c])
  /\ status' = "busy"
  /\ UNCHANGED <<msgs, overflows, steps>>

IsSummary(c) == \E m \in msgs : m.id = loc[c].cur /\ m.summary

\* The "finish-step" event.  A rejected tool call has the loop stop after it,
\* an answer that filled the context has it compact.
FinishStep(c) ==
  /\ ~Aborted(c)
  /\ \E f \in {"stop", "tool-calls"}, r \in Results :
       /\ f = "tool-calls" => steps < MaxSteps /\ MoreEvents /\ ~IsSummary(c)
       /\ r = "stop" => f = "tool-calls"
       /\ r = "compact" => overflows < MaxOverflows /\ MoreEvents /\ ~IsSummary(c)
       /\ steps' = IF f = "tool-calls" THEN steps + 1 ELSE steps
       /\ overflows' = IF r = "compact" THEN overflows + 1 ELSE overflows
       /\ msgs' = Update(msgs, loc[c].cur, LAMBDA m : [m EXCEPT !.finish = f])
       /\ Stream(c, {"stream"}, "finishing", [loc[c] EXCEPT !.result = r])
  /\ UNCHANGED status

StreamEnd(c) ==
  /\ Stream(c, {"finishing"}, "wrapup", loc[c])
  /\ UNCHANGED <<status, msgs, overflows, steps>>

\* The stream throws, and not for a reason worth a retry; an aborted signal
\* throws at the next event.
StreamFail(c) ==
  /\ loc[c].result # "compact"
  /\ Stream(c, {"calling", "stream", "finishing"}, "wrapup",
            [loc[c] EXCEPT !.result = "stop", !.failed = TRUE])
  /\ status' = "idle"
  /\ UNCHANGED <<msgs, overflows, steps>>

\* The provider refuses the request as too long for the model.
StreamOverflow(c) ==
  /\ ~Aborted(c)
  /\ overflows < MaxOverflows /\ MoreEvents
  /\ overflows' = overflows + 1
  /\ Stream(c, {"calling", "stream"}, "wrapup", [loc[c] EXCEPT !.result = "compact"])
  /\ UNCHANGED <<status, msgs, steps>>

\* Mutant: an aborted call is tried again like any other.
MutStreamRetry(c) ==
  /\ RetryLimit # Unlimited => loc[c].retries < RetryLimit
  /\ Stream(c, {"calling", "stream"}, "backoff",
            [loc[c] EXCEPT !.retries = IF RetryLimit = Unlimited THEN @ ELSE @ + 1])
  /\ status' = "retry"
  /\ UNCHANGED <<msgs, overflows, steps>>

\* A transient error: wait and call again, RetryLimit times at most if there is
\* a limit; without one nothing depends on the count.
StreamRetry(c) ==
  /\ ~Aborted(c)
  /\ RetryLimit # Unlimited => loc[c].retries < RetryLimit
  /\ Stream(c, {"calling", "stream"}, "backoff",
            [loc[c] EXCEPT !.retries = IF RetryLimit = Unlimited THEN @ ELSE @ + 1])
  /\ status' = "retry"
  /\ UNCHANGED <<msgs, overflows, steps>>

\* The delay is over, or cut short by an abort.
RetryWake(c) ==
  /\ Stream(c, {"backoff"}, "calling", loc[c])
  /\ UNCHANGED <<status, msgs, overflows, steps>>

\* The answer is over, and the loop acts on its result.
AnswerReturns(c) ==
  /\ pc[c] = "wrapup"
  /\ ~IsSummary(c)
  /\ LET l == loc[c]
         more == l.result = "compact"
         why == IF l.result = "stop"
                THEN IF Aborted(c) THEN "interrupted"
                     ELSE IF l.failed THEN "error" ELSE l.reason
                ELSE l.reason
     IN /\ msgs' = IF more THEN msgs \cup {UserMessage(nextId, "auto", TRUE)} ELSE msgs
        /\ nextId' = IF more THEN nextId + 1 ELSE nextId
        /\ Goto(c, IF l.result = "stop" THEN "tail" ELSE "top")
        /\ loc' = [loc EXCEPT ![c] = [NextRound(l) EXCEPT !.reason = why]]
  /\ UNCHANGED <<session, ctl, reply, bounds>>

\* SessionCompaction.process after its model call; an automatic compaction
\* that went well asks the model to continue.
SummaryReturns(c) ==
  /\ pc[c] = "wrapup"
  /\ IsSummary(c)
  /\ LET l == loc[c]
         stored == Update(msgs, l.cur, LAMBDA m :
                     [m EXCEPT !.finish = IF l.result = "compact" THEN "error" ELSE @])
         more == l.result = "continue" /\ l.task = "auto"
     IN /\ msgs' = IF more THEN stored \cup {UserMessage(nextId, "none", TRUE)} ELSE stored
        /\ nextId' = IF more THEN nextId + 1 ELSE nextId
        /\ Goto(c, IF l.result = "continue" THEN "top" ELSE "tail")
        /\ loc' = [loc EXCEPT ![c] = NextRound(l)]
  /\ UNCHANGED <<session, ctl, reply, bounds>>

(***************************************************************************)
(* The end of a loop.                                                      *)
(***************************************************************************)
Settle(cs, r) == reply' = [d \in Calls |-> IF d \in cs THEN r ELSE reply[d]]

\* The newest answer in the store settles the calls queued on the session's
\* entry, whoever made that entry.
Deliver(c) ==
  /\ pc[c] = "tail"
  /\ Assistants(msgs) # {}
  /\ LET item    == Newest(Assistants(msgs)).id
         waiting == {d \in callbacks : pc[d] = "queued"}
     IN /\ Settle(waiting, Returns(item))
        /\ pc' = [d \in Calls |-> IF d = c THEN "closing"
                                  ELSE IF d \in waiting THEN "done" ELSE pc[d]]
        /\ loc' = [loc EXCEPT ![c].cur = item]
  /\ UNCHANGED <<session, store, ctl, bounds>>

DeliverNothing(c) ==
  /\ pc[c] = "tail"
  /\ Assistants(msgs) = {}
  /\ Goto(c, "closing")
  /\ loc' = [loc EXCEPT ![c].cur = 0]
  /\ UNCHANGED <<session, store, ctl, reply, bounds>>

\* TurnClose was published and its subscribers awaited: now the deferred
\* cancel, and the promise of the call settles.  The loop a shell command
\* resumed has no caller left.
Close(c) ==
  /\ pc[c] = "closing"
  /\ Cancel
  /\ Goto(c, "done")
  /\ IF loc[c].kind = "shell" THEN UNCHANGED reply
     ELSE Settle({c}, IF loc[c].cur = 0 THEN Without("error") ELSE Returns(loc[c].cur))
  /\ loc' = [loc EXCEPT ![c] = NextRound(@)]
  /\ UNCHANGED <<store, ctl, bounds>>

\* The abort route.
Abort ==
  /\ aborts < MaxAborts /\ MoreEvents
  /\ aborts' = aborts + 1
  /\ Cancel
  /\ byUser' = IF entry = None THEN byUser ELSE byUser \cup {entry}
  /\ UNCHANGED <<store, pc, ctl, loc, reply, overflows, throws, steps>>

(***************************************************************************)
(* SessionPrompt.shell: a command the user runs in the session.            *)
(***************************************************************************)
ShellStart(c) ==
  /\ pc[c] = "new"
  /\ "shell" \in Kinds
  /\ Claim(c)
  /\ Goto(c, "shell")
  /\ loc' = [loc EXCEPT ![c].kind = "shell"]
  /\ UNCHANGED <<aborted, status, store, reply, bounds>>

ShellBusy(c) ==
  /\ pc[c] = "new"
  /\ "shell" \in Kinds
  /\ entry # None
  /\ Goto(c, "done")
  /\ loc' = [loc EXCEPT ![c].kind = "shell"]
  /\ reply' = [reply EXCEPT ![c] = Without("busy")]
  /\ UNCHANGED <<session, store, ctl, bounds>>

ShellSaveUser(c) ==
  /\ pc[c] = "shell"
  /\ Goto(c, "shellUser")
  /\ msgs' = msgs \cup {UserMessage(nextId, "none", TRUE)}
  /\ nextId' = nextId + 1
  /\ UNCHANGED <<session, ctl, loc, reply, bounds>>

ShellSaveAssistant(c) ==
  /\ pc[c] = "shellUser"
  /\ NewAssistant(c, FALSE, "shellRun")
  /\ UNCHANGED <<session, ctl, reply, bounds>>

\* Mutant: no loop is resumed for the waiting calls.
MutReleased(c, r) ==
  /\ Settle({c}, r)
  /\ loc' = [loc EXCEPT ![c] = NextRound(@)]
  /\ Goto(c, "done")
  /\ IF callbacks = {} THEN Cancel ELSE UNCHANGED session
  /\ UNCHANGED <<store, ctl, bounds>>

\* The deferred block of shell(): without waiting calls the session is
\* released, else a loop is resumed on the entry to answer them.
Released(c, r) ==
  /\ Settle({c}, r)
  /\ loc' = [loc EXCEPT ![c] = NextRound(@)]
  /\ IF callbacks = {}
     THEN /\ Cancel
          /\ Goto(c, "done")
          /\ UNCHANGED ctl
     ELSE /\ ctl' = [ctl EXCEPT ![c] = entry]
          /\ Goto(c, "top")
          /\ UNCHANGED session
  /\ UNCHANGED <<store, bounds>>

\* The process exits, by itself or killed after an abort.
ShellExit(c) ==
  /\ pc[c] = "shellRun"
  /\ Released(c, Returns(loc[c].cur))

\* No agent, no model: shell() throws before it spawns anything.
ShellFail(c) ==
  /\ pc[c] = "shell"
  /\ Released(c, Without("error"))

(***************************************************************************)
(* The specification.                                                      *)
(***************************************************************************)
Client(c) ==
  \/ Compose(c)
  \/ \E k \in Kinds : Submit(c, k)
  \/ Summarize(c)
  \/ ShellStart(c)
  \/ ShellBusy(c)

\* What a user who was asked about a plan does.
User(c) == DismissPlan(c) \/ ContinuePlan(c)

Store(c) ==
  \/ SaveMessage(c)
  \/ SaveParts(c)
  \/ ReturnMessage(c)
  \/ StartLoop(c)
  \/ QueueBehind(c)

Round(c) ==
  \/ BeginStep(c)
  \/ LeaveLoop(c)
  \/ AskPlan(c)
  \/ ResolvePlan(c)
  \/ RejectPlan(c)
  \/ TakeStep(c)
  \/ StartSubtask(c)
  \/ StartSummary(c)
  \/ StartAnswer(c)
  \/ PreCompact(c)
  \/ EndSubtask(c)
  \/ Throw(c)

Model(c) ==
  \/ StreamStart(c)
  \/ FinishStep(c)
  \/ StreamEnd(c)
  \/ StreamFail(c)
  \/ StreamOverflow(c)
  \/ StreamRetry(c)
  \/ RetryWake(c)
  \/ AnswerReturns(c)
  \/ SummaryReturns(c)

Leave(c) ==
  \/ Deliver(c)
  \/ DeliverNothing(c)
  \/ Close(c)

ShellRun(c) ==
  \/ ShellSaveUser(c)
  \/ ShellSaveAssistant(c)
  \/ ShellExit(c)
  \/ ShellFail(c)

\* What a call does once it was made, whatever the clients do.
Server(c) == Store(c) \/ Round(c) \/ Model(c) \/ Leave(c) \/ ShellRun(c)

\* Every call is over, or waits on an entry that is gone; or the bound on
\* messages stops the model.
Idle ==
  /\ \/ \A c \in Calls : pc[c] \in {"queued", "done"}
     \/ nextId > MaxMessages
  /\ UNCHANGED vars

Next ==
  \/ \E c \in Calls : Client(c) \/ User(c) \/ Server(c)
  \/ Abort
  \/ Idle

Spec == Init /\ [][Next]_vars

\* Clients need not call, abort or answer a question; what they started runs:
\* each other await of a call completes, the model's streams and the tools'
\* processes included.
FairSpec == Spec /\ \A c \in Calls : WF_vars(Server(c))

(***************************************************************************)
(* Properties.                                                             *)
(***************************************************************************)
TypeOK ==
  /\ entry \in Calls \cup {None}
  /\ callbacks \subseteq Calls
  /\ aborted \subseteq Calls
  /\ status \in {"idle", "busy", "retry"}
  /\ msgs \subseteq Message
  /\ nextId \in Nat
  /\ pc \in [Calls -> Pcs]
  /\ ctl \in [Calls -> Calls \cup {None}]
  /\ loc \in [Calls -> Local]
  /\ reply \in [Calls -> Replies]
  /\ aborts \in Nat /\ overflows \in Nat /\ throws \in Nat /\ steps \in Nat
  /\ byUser \subseteq Calls
  /\ \A c \in Calls : RetryLimit # Unlimited => loc[c].retries <= RetryLimit

\* A call that still works, and that nobody aborted, works on the controller
\* that the state map holds: so the abort route reaches every live turn, and
\* BusyError and assertNotBusy are right about it.
LiveCallHoldsEntry ==
  \A c \in Calls : Active(c) /\ ~Aborted(c) => entry = ctl[c]

\* The session is never left busy by calls that are over: an entry has a call
\* that will release it.
BusyHasOwner ==
  entry # None => \E c \in Calls : Active(c) /\ ctl[c] = entry

\* The state map and the turns at work agree, however aborts, late releases,
\* throws and resumed loops interleave.
EntryFollowsTurns == LiveCallHoldsEntry /\ BusyHasOwner

\* The releases that turns defer abort nobody else's turn, unless a client made
\* the session's entry change hands: then the release of the aborted turn aborts
\* whichever turn came after it.
AbortsBeginWithAClient == byUser = {} => \A c \in aborted : pc[c] = "done"

\* The clients' busy and retry indicators go out with the last loop, also
\* when loops that were aborted still set them after the abort.
NonIdleHasLoop ==
  status # "idle" => \E c \in Calls : pc[c] \in LoopPcs

\* "No user message found in stream. This should never happen."
NeverEmptyRead == \A c \in Calls : pc[c] = "read" => Users(msgs) # {}

\* "Impossible", the end of loop(): a loop that was not aborted has an answer.
TailHasAnswer ==
  \A c \in Calls : pc[c] = "tail" /\ ~Aborted(c) => Assistants(msgs) # {}

\* What the code calls impossible does not happen in a loop that nobody aborts.
NothingImpossible == NeverEmptyRead /\ TailHasAnswer

\* Two turns run at once only where a shell command resumed the loop of an
\* entry that already had one.
OneLiveLoop ==
  \A c, d \in Calls :
    (/\ c # d
     /\ Active(c) /\ ~Aborted(c)
     /\ Active(d) /\ ~Aborted(d)) => "shell" \in {loc[c].kind, loc[d].kind}

\* A prompt reached the server after the answer i and at t or later, while its
\* client had taken its identifier before that answer: the loop takes it for
\* answered.
Overtaken(i, t) ==
  \E n \in Users(msgs) : n.id < i /\ i <= n.time /\ t <= n.time

\* A turn that runs to its end returns an answer written after the message that
\* started it, not one of an earlier turn; unless that answer overtook the
\* message, or one sent after it, on its way to the server.
FreshReply ==
  \A c \in Calls :
    (/\ pc[c] = "done"
     /\ ctl[c] = c
     /\ loc[c].kind # "shell"
     /\ loc[c].reason # "interrupted"
     /\ reply[c].as = "message")
    => loc[c].sent < reply[c].id \/ Overtaken(reply[c].id, loc[c].sent)

\* A call waits for others than the server: the provider, before another try,
\* or the user, who was asked about a plan.  An abort ends such a wait, but for
\* the question that was put too late to hear it.
Held(c) ==
  \/ pc[c] \in {"backoff", "asked"} /\ ~Aborted(c)
  \/ pc[c] = "unheard"

\* Every call the server works on ends: tool rounds, compactions, throws and the
\* turns other clients open meanwhile do not keep it running.  Only a provider
\* that asks for retries again and again, or a user who does not answer, does so,
\* and not when the call is aborted.
EveryTurnEnds == \A c \in Calls : Active(c) ~> pc[c] = "done" \/ Held(c)

Waiting(c) ==
  /\ pc[c] = "queued"
  /\ c \in callbacks
  /\ \E d \in Calls : Active(d) /\ pc[d] # "closing" /\ ctl[d] = entry

\* A prompt that found the session busy is answered by the turn it waits on, if
\* it began to wait before that turn delivered its answer, unless the turn is
\* aborted or throws, or is held up again and again.
WaiterIsAnswered ==
  \A c \in Calls :
    Waiting(c) ~> \/ pc[c] = "done"
                  \/ aborts > 0 \/ throws > 0
                  \/ \E d \in Calls : Held(d)

(***************************************************************************)
(* What the documentation says, and the code does not do.                  *)
(***************************************************************************)
\* The route of a prompt creates and sends a message, streaming the response:
\* the call ends with some response.
EveryPromptReturns == \A c \in Calls : pc[c] = "saved" ~> pc[c] = "done"
=============================================================================
