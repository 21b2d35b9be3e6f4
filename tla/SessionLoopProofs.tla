--------------------------- MODULE SessionLoopProofs ---------------------------
(***************************************************************************)
(* Proofs about SessionLoop, for any set of calls and any bounds: its type *)
(* invariant, who holds the session, who aborts whom, what a loop finds    *)
(* and what it returns.                                                    *)
(***************************************************************************)
EXTENDS SessionLoop, WellFoundedInduction, TLAPS

(***************************************************************************)
(* Types.  They rest on the clock: every stored message is older than the  *)
(* next one, so the newest and the oldest message of a non-empty set that  *)
(* the loop picks exist.                                                   *)
(***************************************************************************)
CoreOK ==
  /\ entry \in Calls \cup {None}
  /\ callbacks \subseteq Calls
  /\ aborted \subseteq Calls
  /\ status \in {"idle", "busy", "retry"}
  /\ pc \in [Calls -> Pcs]
  /\ ctl \in [Calls -> Calls \cup {None}]
  /\ reply \in [Calls -> Replies]
  /\ aborts \in Nat /\ overflows \in Nat /\ throws \in Nat /\ steps \in Nat
  /\ byUser \subseteq Calls

Stored(s, n) ==
  /\ s \subseteq Message
  /\ \A m \in s : m.time < n /\ (m.role = "assistant" => m.id = m.time)

StoreOK == nextId \in Nat \ {0} /\ Stored(msgs, nextId)

Within(k) == RetryLimit # Unlimited => k <= RetryLimit

LocOK == /\ loc \in [Calls -> Local]
         /\ \A c \in Calls : Within(loc[c].retries) /\ loc[c].sent < nextId

TypedInv == CoreOK /\ StoreOK /\ LocOK

(***************************************************************************)
(* Newest and oldest.                                                      *)
(***************************************************************************)
LEMMA SmallestExists ==
  ASSUME NEW T, T \subseteq Nat, T # {}
  PROVE  \E x \in T : \A y \in T : x <= y
<1>1. PICK x \in T : \A y \in T : <<y, x>> \notin OpToRel(<, Nat)
  BY NatLessThanWellFounded, WFMin
<1>2. \A y \in T : ~(y < x)
  BY <1>1 DEF OpToRel
<1> QED
  BY <1>2

LEMMA NewestExists ==
  ASSUME NEW s, NEW n \in Nat, Stored(s, n), s # {}
  PROVE  Newest(s) \in s /\ \A m \in s : m.time <= Newest(s).time
<1> DEFINE T == {n - m.time : m \in s}
<1>1. \A m \in s : m.time \in Nat /\ m.time < n
  BY DEF Stored, Message
<1>2. T \subseteq Nat /\ T # {}
  BY <1>1
<1>3. PICK x \in T : \A y \in T : x <= y
  BY <1>2, SmallestExists
<1>4. PICK m \in s : x = n - m.time
  BY <1>3
<1>5. \A k \in s : k.time <= m.time
  <2>1. SUFFICES ASSUME NEW k \in s PROVE k.time <= m.time
    OBVIOUS
  <2>2. x <= n - k.time
    BY <1>3
  <2>3. k.time \in Nat /\ m.time \in Nat
    BY <1>1
  <2> HIDE DEF T
  <2> QED
    BY <1>4, <2>2, <2>3
<1> QED
  BY <1>5 DEF Newest

LEMMA OldestExists ==
  ASSUME NEW s, s \subseteq Message, s # {}
  PROVE  Oldest(s) \in s
<1> DEFINE T == {m.time : m \in s}
<1>1. T \subseteq Nat /\ T # {}
  BY DEF Message
<1>2. PICK x \in T : \A y \in T : x <= y
  BY <1>1, SmallestExists
<1>3. PICK m \in s : x = m.time
  BY <1>2
<1>4. \A k \in s : m.time <= k.time
  BY <1>2, <1>3
<1> QED
  BY <1>4 DEF Oldest

LEMMA SubsetStored ==
  ASSUME NEW s, NEW n \in Nat, Stored(s, n)
  PROVE  Stored(Users(s), n) /\ Stored(Assistants(s), n)
  BY DEF Stored, Users, Assistants

(***************************************************************************)
(* Messages that are added and changed.                                    *)
(***************************************************************************)
LEMMA UserTyped ==
  ASSUME NEW i \in Nat, NEW t \in Tasks, NEW f \in BOOLEAN
  PROVE  /\ UserMessage(i, t, f) \in Message
         /\ UserMessage(i, t, f).time = i
         /\ UserMessage(i, t, f).role = "user"
  BY DEF UserMessage, Message, Finishes

LEMMA TimeTyped ==
  ASSUME NEW m \in Message, NEW t \in Nat
  PROVE  LET n == [m EXCEPT !.time = t]
         IN n \in Message /\ n.time = t /\ n.role = m.role
  BY DEF Message

LEMMA AssistantTyped ==
  ASSUME NEW i \in Nat, NEW sum \in BOOLEAN
  PROVE  /\ AssistantMessage(i, sum) \in Message
         /\ AssistantMessage(i, sum).time = i /\ AssistantMessage(i, sum).id = i
  BY DEF AssistantMessage, Message, Tasks, Finishes

LEMMA AddStored ==
  ASSUME NEW s, NEW n \in Nat, Stored(s, n), NEW k \in Nat, n <= k,
         NEW m \in Message, m.time < k, m.role = "assistant" => m.id = m.time
  PROVE  Stored(s \cup {m}, k)
<1>1. s \cup {m} \subseteq Message
  BY DEF Stored
<1>2. \A x \in s : x.time \in Nat /\ x.time < n
  BY DEF Stored, Message
<1>3. \A x \in s : x.time < k
  BY <1>2
<1> QED
  BY <1>1, <1>3 DEF Stored

LEMMA ItemTyped ==
  ASSUME StoreOK, Assistants(msgs) # {}
  PROVE  Newest(Assistants(msgs)).id \in Nat
<1>1. Newest(Assistants(msgs)) \in Message
  BY SubsetStored, NewestExists DEF StoreOK, Stored
<1> QED
  BY <1>1 DEF Message

LEMMA JobsTyped == ASSUME StoreOK PROVE JobsFor(msgs) \subseteq Jobs
<1>1. CASE PendingTasks(msgs) = {}
  BY <1>1 DEF JobsFor, Jobs, Tasks
<1>2. CASE PendingTasks(msgs) # {}
  <2>1. Oldest(PendingTasks(msgs)) \in Message
    BY <1>2, OldestExists DEF StoreOK, Stored, PendingTasks, Users
  <2> QED
    BY <1>2, <2>1 DEF JobsFor, Jobs, Message
<1> QED
  BY <1>1, <1>2

(***************************************************************************)
(* The store: each action leaves it alone, changes messages in place or    *)
(* adds one under a new identifier.                                        *)
(***************************************************************************)
LEMMA FullTyped ==
  ASSUME StoreOK, NEW i
  PROVE  Stored(Update(msgs, i, LAMBDA m : [m EXCEPT !.full = TRUE]), nextId)
  BY DEF StoreOK, Stored, Update, Message

LEMMA FinishTyped ==
  ASSUME StoreOK, NEW i, NEW f \in Finishes
  PROVE  Stored(Update(msgs, i, LAMBDA m : [m EXCEPT !.finish = f]), nextId)
  BY DEF StoreOK, Stored, Update, Message

(***************************************************************************)
(* The locals: an action changes those of one call, if any.                *)
(***************************************************************************)
LEMMA LocStays ==
  ASSUME TypedInv, nextId' \in Nat, nextId <= nextId', UNCHANGED loc
  PROVE  LocOK'
<1>1. \A c \in Calls : loc[c].sent \in Nat
  BY DEF TypedInv, LocOK, Local
<1> QED
  BY <1>1 DEF TypedInv, StoreOK, LocOK

LEMMA LocMoves ==
  ASSUME TypedInv, nextId' \in Nat, nextId <= nextId', NEW c \in Calls,
         NEW l \in Local, Within(l.retries), l.sent < nextId',
         loc' = [loc EXCEPT ![c] = l]
  PROVE  LocOK'
<1>1. \A d \in Calls : loc[d].sent \in Nat
  BY DEF TypedInv, LocOK, Local
<1> QED
  BY <1>1 DEF TypedInv, StoreOK, LocOK

LEMMA RoundTyped ==
  ASSUME TypedInv, NEW l \in Local
  PROVE  /\ NextRound(l) \in Local
         /\ Within(NextRound(l).retries)
         /\ NextRound(l).sent = l.sent
         /\ \A r \in Reasons : [NextRound(l) EXCEPT !.reason = r] \in Local
<1>1. NextRound(l) \in Local
  BY DEF NextRound, Local, Jobs, Tasks, Results
<1>2. NextRound(l).retries = 0 /\ NextRound(l).sent = l.sent
  BY DEF NextRound, Local
<1>3. \A r \in Reasons : [NextRound(l) EXCEPT !.reason = r] \in Local
  BY <1>1 DEF Local
<1> QED
  BY <1>1, <1>2, <1>3, BoundsAssumption DEF Within

LEMMA StoreStepLocals ==
  ASSUME TypedInv, NEW c \in Calls, Store(c)
  PROVE  LocOK' /\ StoreOK'
<1>0. /\ nextId \in Nat \ {0} /\ nextId + 1 \in Nat
      /\ loc[c] \in Local /\ loc[c].user \in Nat /\ loc[c].sent \in Nat
      /\ loc[c].sent < nextId
      /\ loc[c].kind \in CallKinds /\ Within(loc[c].retries)
      /\ Stored(msgs, nextId)
  BY DEF TypedInv, StoreOK, LocOK, Local
<1>1. CASE SaveMessage(c)
  <2> DEFINE k == loc[c].kind
             i == IF k = "summarize" THEN nextId ELSE loc[c].user
             t == IF k = "summarize" THEN nextId ELSE loc[c].sent
             u == UserMessage(i, TaskOf(k), FALSE)
             m == [u EXCEPT !.time = t]
             n == IF k = "summarize" THEN nextId + 1 ELSE nextId
             l == [loc[c] EXCEPT !.user = i, !.sent = t]
  <2>1. TaskOf(k) \in Tasks
    BY <1>0 DEF TaskOf, Tasks, CallKinds
  <2>2. i \in Nat /\ t \in Nat /\ n \in Nat \ {0} /\ t < n /\ nextId <= n
    BY <1>0
  <2>3. m \in Message /\ m.time = t /\ m.role = "user"
    <3>1. u \in Message /\ u.role = "user"
      <4> HIDE DEF k, i, t
      <4> QED
        BY <2>1, <2>2, UserTyped
    <3> HIDE DEF u, t
    <3> QED
      BY <2>2, <3>1, TimeTyped
  <2>4. nextId' = n /\ msgs' = msgs \cup {m} /\ loc' = [loc EXCEPT ![c] = l]
    BY <1>1 DEF SaveMessage
  <2> HIDE DEF i, t, n, u, m
  <2>5. StoreOK'
    BY <1>0, <2>2, <2>3, <2>4, AddStored DEF StoreOK
  <2>6. l \in Local /\ l.sent = t /\ l.retries = loc[c].retries
    BY <1>0, <2>2 DEF Local
  <2> HIDE DEF l
  <2>7. LocOK'
    BY <1>0, <2>2, <2>4, <2>6, LocMoves
  <2> QED
    BY <2>5, <2>7
<1>2. CASE SaveParts(c)
  <2>1. UNCHANGED <<nextId, loc>>
    BY <1>2 DEF SaveParts
  <2> QED
    BY <1>0, <1>2, <2>1, FullTyped, LocStays DEF SaveParts, StoreOK, TypedInv
<1>3. CASE ReturnMessage(c) \/ StartLoop(c) \/ QueueBehind(c)
  <2>1. UNCHANGED <<msgs, nextId, loc>>
    BY <1>3 DEF ReturnMessage, StartLoop, QueueBehind, store
  <2> QED
    BY <1>0, <2>1, LocStays DEF StoreOK
<1> QED
  BY <1>1, <1>2, <1>3 DEF Store

LEMMA NewAssistantTyped ==
  ASSUME TypedInv, NEW c \in Calls, NEW sum \in BOOLEAN, NEW to, NewAssistant(c, sum, to)
  PROVE  LocOK' /\ StoreOK'
<1>1. /\ nextId \in Nat \ {0} /\ nextId + 1 \in Nat \ {0}
      /\ loc[c] \in Local /\ loc[c].sent \in Nat
      /\ loc[c].sent < nextId /\ Within(loc[c].retries) /\ Stored(msgs, nextId)
  BY DEF TypedInv, StoreOK, LocOK, Local
<1>2. StoreOK'
  <2> DEFINE m == AssistantMessage(nextId, sum)
  <2>1. m \in Message /\ m.time = nextId /\ m.id = nextId
    BY <1>1, AssistantTyped
  <2>2. msgs' = msgs \cup {m} /\ nextId' = nextId + 1
    BY DEF NewAssistant
  <2>3. nextId <= nextId + 1 /\ nextId < nextId + 1
    BY <1>1
  <2> HIDE DEF m
  <2> QED
    BY <1>1, <2>1, <2>2, <2>3, AddStored DEF StoreOK
<1> DEFINE l == [loc[c] EXCEPT !.cur = nextId]
<1>3. l \in Local /\ l.sent = loc[c].sent /\ l.retries = loc[c].retries
  BY <1>1 DEF Local
<1>4. nextId' = nextId + 1 /\ loc' = [loc EXCEPT ![c] = l]
  BY DEF NewAssistant
<1> HIDE DEF l
<1>5. /\ nextId' \in Nat /\ nextId <= nextId'
      /\ Within(l.retries) /\ l.sent < nextId'
  BY <1>1, <1>3, <1>4
<1>6. LocOK'
  BY <1>3, <1>4, <1>5, LocMoves
<1> QED
  BY <1>2, <1>6

\* A user message that the program makes.
LEMMA PromptStored ==
  ASSUME NEW s, nextId \in Nat, Stored(s, nextId), NEW t \in Tasks
  PROVE  Stored(s \cup {UserMessage(nextId, t, TRUE)}, nextId + 1)
<1>1. /\ UserMessage(nextId, t, TRUE) \in Message
      /\ UserMessage(nextId, t, TRUE).time = nextId
      /\ UserMessage(nextId, t, TRUE).role = "user"
  BY UserTyped
<1>2. nextId + 1 \in Nat /\ nextId <= nextId + 1 /\ nextId < nextId + 1
  OBVIOUS
<1> HIDE DEF UserMessage
<1> QED
  BY <1>1, <1>2, AddStored

\* What the lemmas below use of the state of the call c.
CallOK(c) ==
  /\ loc[c] \in Local /\ loc[c].sent \in Nat /\ loc[c].sent < nextId
  /\ loc[c].retries \in Nat /\ Within(loc[c].retries)
  /\ nextId \in Nat \ {0} /\ nextId + 1 \in Nat \ {0}
  /\ nextId <= nextId + 1 /\ nextId <= nextId
  /\ loc[c].sent < nextId + 1
  /\ Stored(msgs, nextId)

LEMMA CallTyped == ASSUME TypedInv, NEW c \in Calls PROVE CallOK(c)
<1>1. /\ loc[c] \in Local /\ loc[c].sent < nextId /\ Within(loc[c].retries)
      /\ nextId \in Nat \ {0} /\ Stored(msgs, nextId)
  BY DEF TypedInv, StoreOK, LocOK
<1>2. loc[c].sent \in Nat /\ loc[c].retries \in Nat
  BY <1>1 DEF Local
<1> QED
  BY <1>1, <1>2 DEF CallOK

LEMMA RoundStepLocals ==
  ASSUME TypedInv, NEW c \in Calls, Round(c) \/ User(c)
  PROVE  LocOK' /\ StoreOK'
<1>0. CallOK(c)
  BY CallTyped
<1>1. CASE BeginStep(c)
  <2>1. UNCHANGED <<msgs, nextId>>
    BY <1>1 DEF BeginStep, store
  <2>2. UNCHANGED loc \/ loc' = [loc EXCEPT ![c] = [loc[c] EXCEPT !.reason = "interrupted"]]
    BY <1>1 DEF BeginStep
  <2>3. [loc[c] EXCEPT !.reason = "interrupted"] \in Local
    BY <1>0 DEF CallOK, Local, Reasons
  <2>4. LocOK'
    BY <1>0, <2>1, <2>2, <2>3, LocStays, LocMoves DEF CallOK, Local
  <2> QED
    BY <1>0, <2>1, <2>4 DEF StoreOK, CallOK
<1>2. CASE LeaveLoop(c) \/ AskPlan(c) \/ ResolvePlan(c) \/ RejectPlan(c) \/ DismissPlan(c)
  <2>1. UNCHANGED <<msgs, nextId, loc>>
    BY <1>2 DEF LeaveLoop, AskPlan, ResolvePlan, RejectPlan, DismissPlan, store
  <2> QED
    BY <1>0, <2>1, LocStays DEF StoreOK, CallOK
<1>3. CASE TakeStep(c)
  <2>1. PICK j \in JobsFor(msgs) : loc' = [loc EXCEPT ![c] = [loc[c] EXCEPT !.task = j]]
    BY <1>3 DEF TakeStep
  <2>2. UNCHANGED <<msgs, nextId>>
    BY <1>3 DEF TakeStep, store
  <2>3. j \in Jobs
    BY JobsTyped DEF TypedInv
  <2>4. [loc[c] EXCEPT !.task = j] \in Local
    BY <1>0, <2>3 DEF CallOK, Local
  <2>5. LocOK'
    BY <1>0, <2>1, <2>2, <2>4, LocMoves DEF CallOK, Local
  <2> QED
    BY <1>0, <2>2, <2>5 DEF StoreOK, CallOK
<1>4. CASE StartSubtask(c) \/ StartSummary(c) \/ StartAnswer(c)
  BY <1>4, NewAssistantTyped DEF StartSubtask, StartSummary, StartAnswer
<1>5. CASE PreCompact(c)
  <2>1. /\ msgs' = msgs \cup {UserMessage(nextId, "auto", TRUE)}
        /\ nextId' = nextId + 1
        /\ loc' = [loc EXCEPT ![c] = NextRound(loc[c])]
    BY <1>5 DEF PreCompact
  <2>2. StoreOK'
    BY <1>0, <2>1, PromptStored DEF CallOK, StoreOK, Tasks
  <2>3. LocOK'
    BY <1>0, <2>1, RoundTyped, LocMoves DEF CallOK
  <2> QED
    BY <2>2, <2>3
<1>6. CASE EndSubtask(c)
  <2> DEFINE closed == Update(msgs, loc[c].cur, LAMBDA m : [m EXCEPT !.finish = "tool-calls"])
  <2>1. /\ msgs' = closed \cup {UserMessage(nextId, "none", TRUE)}
        /\ nextId' = nextId + 1
        /\ loc' = [loc EXCEPT ![c] = NextRound(loc[c])]
    BY <1>6 DEF EndSubtask
  <2>2. Stored(closed, nextId)
    BY FinishTyped DEF TypedInv, Finishes
  <2> HIDE DEF closed
  <2>3. StoreOK'
    BY <1>0, <2>1, <2>2, PromptStored DEF CallOK, StoreOK, Tasks
  <2>4. LocOK'
    BY <1>0, <2>1, RoundTyped, LocMoves DEF CallOK
  <2> QED
    BY <2>3, <2>4
<1>7. CASE Throw(c)
  <2>1. UNCHANGED <<msgs, nextId>>
    BY <1>7 DEF Throw, store
  <2>2. PICK r \in Reasons : loc' = [loc EXCEPT ![c] = [NextRound(loc[c]) EXCEPT !.reason = r]]
    BY <1>7 DEF Throw, Reasons
  <2>3. /\ NextRound(loc[c]) \in Local
        /\ [NextRound(loc[c]) EXCEPT !.reason = r] \in Local
        /\ [NextRound(loc[c]) EXCEPT !.reason = r].sent = loc[c].sent
        /\ Within([NextRound(loc[c]) EXCEPT !.reason = r].retries)
    BY <1>0, RoundTyped DEF CallOK, Local
  <2>4. LocOK'
    BY <1>0, <2>1, <2>2, <2>3, LocMoves DEF CallOK
  <2> QED
    BY <1>0, <2>1, <2>4 DEF StoreOK, CallOK
<1>8. CASE ContinuePlan(c)
  <2>1. /\ msgs' = msgs \cup {UserMessage(nextId, "none", TRUE)}
        /\ nextId' = nextId + 1 /\ loc' = loc
    BY <1>8 DEF ContinuePlan
  <2>2. StoreOK'
    BY <1>0, <2>1, PromptStored DEF CallOK, StoreOK, Tasks
  <2> QED
    BY <1>0, <2>1, <2>2, LocStays DEF CallOK
<1> QED
  BY <1>1, <1>2, <1>3, <1>4, <1>5, <1>6, <1>7, <1>8 DEF Round, User

\* An event of the stream that leaves the messages alone.
LEMMA EventTyped ==
  ASSUME TypedInv, NEW c \in Calls, NEW from, NEW to, NEW l \in Local,
         l.sent = loc[c].sent, Within(l.retries),
         Stream(c, from, to, l), Stored(msgs', nextId)
  PROVE  LocOK' /\ StoreOK'
<1>1. CallOK(c) /\ nextId' = nextId /\ loc' = [loc EXCEPT ![c] = l]
  BY CallTyped DEF Stream
<1>2. LocOK'
  BY <1>1, LocMoves DEF CallOK
<1> QED
  BY <1>1, <1>2 DEF StoreOK, CallOK

LEMMA ModelStepLocals ==
  ASSUME TypedInv, NEW c \in Calls, Model(c)
  PROVE  LocOK' /\ StoreOK'
<1>0. CallOK(c)
  BY CallTyped
<1>1. CASE StreamStart(c) \/ StreamEnd(c) \/ RetryWake(c)
  BY <1>0, <1>1, EventTyped DEF StreamStart, StreamEnd, RetryWake, CallOK
<1>2. CASE FinishStep(c)
  <2>1. PICK f \in {"stop", "tool-calls"}, r \in Results :
          /\ msgs' = Update(msgs, loc[c].cur, LAMBDA m : [m EXCEPT !.finish = f])
          /\ Stream(c, {"stream"}, "finishing", [loc[c] EXCEPT !.result = r])
    BY <1>2 DEF FinishStep
  <2> DEFINE l == [loc[c] EXCEPT !.result = r]
  <2>3. Stream(c, {"stream"}, "finishing", l)
    BY <2>1
  <2>4. l \in Local /\ l.sent = loc[c].sent /\ Within(l.retries)
    BY <1>0 DEF CallOK, Local
  <2>5. f \in Finishes
    BY DEF Finishes
  <2>6. Stored(Update(msgs, loc[c].cur, LAMBDA m : [m EXCEPT !.finish = f]), nextId)
    BY <2>5 DEF TypedInv, StoreOK, Stored, Update, Message
  <2>7. Stored(msgs', nextId)
    BY <2>1, <2>6
  <2> HIDE DEF l
  <2> QED
    BY <2>3, <2>4, <2>7, EventTyped
<1>3. CASE StreamFail(c)
  <2> DEFINE l == [loc[c] EXCEPT !.result = "stop", !.failed = TRUE]
  <2>1. l \in Local /\ l.sent = loc[c].sent /\ Within(l.retries)
    BY <1>0 DEF CallOK, Local, Results
  <2>2. Stream(c, {"calling", "stream", "finishing"}, "wrapup", l) /\ msgs' = msgs
    BY <1>3 DEF StreamFail
  <2> HIDE DEF l
  <2> QED
    BY <1>0, <2>1, <2>2, EventTyped DEF CallOK
<1>4. CASE StreamOverflow(c)
  <2> DEFINE l == [loc[c] EXCEPT !.result = "compact"]
  <2>1. l \in Local /\ l.sent = loc[c].sent /\ Within(l.retries)
    BY <1>0 DEF CallOK, Local, Results
  <2>2. Stream(c, {"calling", "stream"}, "wrapup", l) /\ msgs' = msgs
    BY <1>4 DEF StreamOverflow
  <2> HIDE DEF l
  <2> QED
    BY <1>0, <2>1, <2>2, EventTyped DEF CallOK
<1>5. CASE StreamRetry(c)
  <2> DEFINE k == IF RetryLimit = Unlimited THEN loc[c].retries ELSE loc[c].retries + 1
             l == [loc[c] EXCEPT !.retries = k]
  <2>1. RetryLimit # Unlimited => loc[c].retries < RetryLimit
    BY <1>5 DEF StreamRetry
  <2>2. k \in Nat /\ Within(k)
    BY <1>0, <2>1, BoundsAssumption DEF CallOK, Within
  <2>3. Stream(c, {"calling", "stream"}, "backoff", l) /\ msgs' = msgs
    BY <1>5 DEF StreamRetry
  <2> HIDE DEF k
  <2>4. l \in Local /\ l.sent = loc[c].sent /\ l.retries = k
    BY <1>0, <2>2 DEF CallOK, Local
  <2> HIDE DEF l
  <2> QED
    BY <1>0, <2>2, <2>3, <2>4, EventTyped DEF CallOK
<1>6. CASE AnswerReturns(c)
  <2> DEFINE more == loc[c].result = "compact"
  <2>1. /\ msgs' = IF more THEN msgs \cup {UserMessage(nextId, "auto", TRUE)} ELSE msgs
        /\ nextId' = IF more THEN nextId + 1 ELSE nextId
    BY <1>6 DEF AnswerReturns
  <2>3. PICK r \in Reasons : loc' = [loc EXCEPT ![c] = [NextRound(loc[c]) EXCEPT !.reason = r]]
    BY <1>0, <1>6 DEF AnswerReturns, Reasons, CallOK, Local
  <2>4. /\ NextRound(loc[c]) \in Local
        /\ [NextRound(loc[c]) EXCEPT !.reason = r] \in Local
        /\ [NextRound(loc[c]) EXCEPT !.reason = r].sent = loc[c].sent
        /\ Within([NextRound(loc[c]) EXCEPT !.reason = r].retries)
    BY <1>0, RoundTyped DEF CallOK, Local
  <2> HIDE DEF more
  <2>5. StoreOK'
    BY <1>0, <2>1, PromptStored DEF CallOK, StoreOK, Tasks
  <2>6. LocOK'
    BY <1>0, <2>1, <2>3, <2>4, LocMoves DEF CallOK
  <2> QED
    BY <2>5, <2>6
<1>7. CASE SummaryReturns(c)
  <2> DEFINE stored == Update(msgs, loc[c].cur, LAMBDA m :
                         [m EXCEPT !.finish = IF loc[c].result = "compact" THEN "error" ELSE @])
             more == loc[c].result = "continue" /\ loc[c].task = "auto"
  <2>1. /\ msgs' = IF more THEN stored \cup {UserMessage(nextId, "none", TRUE)} ELSE stored
        /\ nextId' = IF more THEN nextId + 1 ELSE nextId
        /\ loc' = [loc EXCEPT ![c] = NextRound(loc[c])]
    BY <1>7 DEF SummaryReturns
  <2>3. Stored(stored, nextId)
    BY ZenonT(40) DEF TypedInv, StoreOK, Stored, Update, Message, Finishes
  <2> HIDE DEF stored, more
  <2>4. StoreOK'
    BY <1>0, <2>1, <2>3, PromptStored DEF CallOK, StoreOK, Tasks
  <2>5. LocOK'
    BY <1>0, <2>1, RoundTyped, LocMoves DEF CallOK
  <2> QED
    BY <2>4, <2>5
<1> QED
  BY <1>1, <1>2, <1>3, <1>4, <1>5, <1>6, <1>7 DEF Model

LEMMA LeaveStepLocals ==
  ASSUME TypedInv, NEW c \in Calls, Leave(c)
  PROVE  LocOK' /\ StoreOK'
<1>0. CallOK(c)
  BY CallTyped
<1>1. UNCHANGED <<msgs, nextId>>
  BY DEF Leave, Deliver, DeliverNothing, Close, store
<1>2. CASE Deliver(c) \/ DeliverNothing(c)
  <2>1. PICK i \in Nat : loc' = [loc EXCEPT ![c] = [loc[c] EXCEPT !.cur = i]]
    BY <1>2, ItemTyped DEF Deliver, DeliverNothing, TypedInv
  <2>2. [loc[c] EXCEPT !.cur = i] \in Local
    BY <1>0 DEF CallOK, Local
  <2>3. LocOK'
    BY <1>0, <1>1, <2>1, <2>2, LocMoves DEF CallOK, Local
  <2> QED
    BY <1>0, <1>1, <2>3 DEF StoreOK, CallOK
<1>3. CASE Close(c)
  <2>1. loc' = [loc EXCEPT ![c] = NextRound(loc[c])]
    BY <1>3 DEF Close
  <2>2. LocOK'
    BY <1>0, <1>1, <2>1, RoundTyped, LocMoves DEF CallOK
  <2> QED
    BY <1>0, <1>1, <2>2 DEF StoreOK, CallOK
<1> QED
  BY <1>2, <1>3 DEF Leave

LEMMA ShellStepLocals ==
  ASSUME TypedInv, NEW c \in Calls, ShellRun(c)
  PROVE  LocOK' /\ StoreOK'
<1>0. CallOK(c)
  BY CallTyped
<1>1. CASE ShellSaveUser(c)
  <2>1. /\ msgs' = msgs \cup {UserMessage(nextId, "none", TRUE)}
        /\ nextId' = nextId + 1 /\ loc' = loc
    BY <1>1 DEF ShellSaveUser
  <2>2. LocOK'
    BY <1>0, <2>1, LocStays DEF CallOK
  <2>3. StoreOK'
    BY <1>0, <2>1, PromptStored DEF CallOK, StoreOK, Tasks
  <2> QED
    BY <2>2, <2>3
<1>2. CASE ShellSaveAssistant(c)
  BY <1>2, NewAssistantTyped DEF ShellSaveAssistant
<1>3. CASE ShellExit(c) \/ ShellFail(c)
  <2>1. /\ UNCHANGED <<msgs, nextId>>
        /\ loc' = [loc EXCEPT ![c] = NextRound(loc[c])]
    BY <1>3 DEF ShellExit, ShellFail, Released, store
  <2>2. LocOK'
    BY <1>0, <2>1, RoundTyped, LocMoves DEF CallOK
  <2> QED
    BY <1>0, <2>1, <2>2 DEF StoreOK, CallOK
<1> QED
  BY <1>1, <1>2, <1>3 DEF ShellRun

LEMMA ClientStepLocals ==
  ASSUME TypedInv, NEW c \in Calls, Client(c)
  PROVE  LocOK' /\ StoreOK'
<1>0. CallOK(c)
  BY CallTyped
<1>1. ASSUME nextId' = nextId + 1, msgs' = msgs,
             NEW l \in Local, l.sent \in {loc[c].sent, nextId}, l.retries = loc[c].retries,
             loc' = [loc EXCEPT ![c] = l]
      PROVE  LocOK' /\ StoreOK'
  <2>1. /\ nextId' \in Nat \ {0} /\ nextId <= nextId' /\ nextId < nextId'
        /\ l.sent < nextId' /\ Within(l.retries)
    BY <1>0, <1>1 DEF CallOK
  <2>2. Stored(msgs', nextId')
    BY <1>0, <1>1, <2>1 DEF CallOK, Stored, Message
  <2> QED
    BY <1>1, <2>1, <2>2, LocMoves DEF StoreOK
<1>3. CASE Compose(c)
  <2> DEFINE l == [loc[c] EXCEPT !.user = nextId]
  <2>1. nextId' = nextId + 1 /\ msgs' = msgs /\ loc' = [loc EXCEPT ![c] = l]
    BY <1>3 DEF Compose
  <2>2. l \in Local /\ l.sent = loc[c].sent /\ l.retries = loc[c].retries
    BY <1>0 DEF CallOK, Local
  <2> HIDE DEF l
  <2> QED
    BY <1>1, <2>1, <2>2
<1>4. ASSUME NEW k \in Kinds, Submit(c, k) PROVE LocOK' /\ StoreOK'
  <2> DEFINE i == IF pc[c] = "composed" THEN loc[c].user ELSE nextId
             l == [loc[c] EXCEPT !.kind = k, !.user = i, !.sent = nextId]
  <2>1. nextId' = nextId + 1 /\ msgs' = msgs /\ loc' = [loc EXCEPT ![c] = l]
    BY <1>4 DEF Submit
  <2>2. i \in Nat
    BY <1>0 DEF CallOK, Local
  <2> HIDE DEF i
  <2>3. l \in Local /\ l.sent = nextId /\ l.retries = loc[c].retries
    BY <1>0, <2>2, KindsAssumption DEF CallOK, Local
  <2> HIDE DEF l
  <2> QED
    BY <1>1, <2>1, <2>3
<1>5. CASE Summarize(c)
  <2>1. /\ UNCHANGED <<msgs, nextId>>
        /\ loc' = [loc EXCEPT ![c] = [loc[c] EXCEPT !.kind = "summarize"]]
    BY <1>5 DEF Summarize, store
  <2>2. [loc[c] EXCEPT !.kind = "summarize"] \in Local
    BY <1>0 DEF CallOK, Local, CallKinds
  <2>3. LocOK'
    BY <1>0, <2>1, <2>2, LocMoves DEF CallOK, Local
  <2> QED
    BY <1>0, <2>1, <2>3 DEF StoreOK, CallOK
<1>2. CASE ShellStart(c) \/ ShellBusy(c)
  <2>1. /\ UNCHANGED <<msgs, nextId>>
        /\ loc' = [loc EXCEPT ![c] = [loc[c] EXCEPT !.kind = "shell"]]
    BY <1>2 DEF ShellStart, ShellBusy, store
  <2>2. [loc[c] EXCEPT !.kind = "shell"] \in Local
    BY <1>0 DEF CallOK, Local, CallKinds
  <2>3. LocOK'
    BY <1>0, <2>1, <2>2, LocMoves DEF CallOK, Local
  <2> QED
    BY <1>0, <2>1, <2>3 DEF StoreOK, CallOK
<1> QED
  BY <1>2, <1>3, <1>4, <1>5 DEF Client

-----------------------------------------------------------------------------
(***************************************************************************)
(* The rest of the state.                                                  *)
(***************************************************************************)
LEMMA CancelTyped ==
  ASSUME CoreOK, Cancel
  PROVE  /\ entry' \in Calls \cup {None} /\ callbacks' \subseteq Calls
         /\ aborted' \subseteq Calls /\ status' \in {"idle", "busy", "retry"}
  BY DEF CoreOK, Cancel

LEMMA SettleTyped ==
  ASSUME CoreOK, NEW cs, NEW r \in Replies, Settle(cs, r)
  PROVE  reply' \in [Calls -> Replies]
  BY DEF CoreOK, Settle

\* An action that touches little: a call moves on, the status may change.
LEMMA CoreMoves ==
  ASSUME CoreOK, NEW c \in Calls, NEW to \in Pcs, pc' = [pc EXCEPT ![c] = to],
         status' \in {"idle", "busy", "retry"},
         overflows' \in Nat, throws' \in Nat, steps' \in Nat,
         UNCHANGED <<entry, callbacks, aborted, ctl, reply, aborts, byUser>>
  PROVE  CoreOK'
  BY DEF CoreOK

LEMMA StoreStepCore == ASSUME CoreOK, LocOK, NEW c \in Calls, Store(c) PROVE CoreOK'
<1>1. CASE SaveMessage(c) \/ SaveParts(c)
  BY <1>1 DEF SaveMessage, SaveParts, Goto, session, bounds, CoreOK, Pcs, EntryPcs
<1>2. CASE ReturnMessage(c)
  <2>1. Returns(loc[c].user) \in Replies
    BY DEF LocOK, Local, Returns, Replies
  <2> QED
    BY <1>2, <2>1 DEF ReturnMessage, Goto, session, bounds, CoreOK, Pcs
<1>3. CASE StartLoop(c)
  BY <1>3 DEF StartLoop, Claim, Goto, bounds, CoreOK, Pcs, LoopPcs, PlanPcs
<1>4. CASE QueueBehind(c)
  BY <1>4 DEF QueueBehind, Goto, bounds, CoreOK, Pcs
<1> QED
  BY <1>1, <1>2, <1>3, <1>4 DEF Store

LEMMA RoundStepCore ==
  ASSUME CoreOK, NEW c \in Calls, Round(c) \/ User(c)
  PROVE  CoreOK'
<1>1. PICK to \in LoopPcs : pc' = [pc EXCEPT ![c] = to]
  BY DEF Round, User, BeginStep, LeaveLoop, AskPlan, ResolvePlan, RejectPlan, DismissPlan,
         ContinuePlan, TakeStep, StartSubtask, StartSummary, StartAnswer, PreCompact,
         EndSubtask, Throw, NewAssistant, Goto, LoopPcs, PlanPcs
<1>2. UNCHANGED <<entry, callbacks, aborted, ctl, reply, aborts, byUser, steps>>
  BY DEF Round, User, BeginStep, LeaveLoop, AskPlan, ResolvePlan, RejectPlan, DismissPlan,
         ContinuePlan, TakeStep, StartSubtask, StartSummary, StartAnswer, PreCompact,
         EndSubtask, Throw, session, bounds
<1>3. status' \in {"idle", "busy", "retry"}
  BY DEF Round, User, BeginStep, LeaveLoop, AskPlan, ResolvePlan, RejectPlan, DismissPlan,
         ContinuePlan, TakeStep, StartSubtask, StartSummary, StartAnswer, PreCompact,
         EndSubtask, Throw, session, CoreOK
<1>4. overflows' \in {overflows, overflows + 1} /\ throws' \in {throws, throws + 1}
  <2>1. CASE TakeStep(c)
    BY <2>1 DEF TakeStep
  <2>2. CASE Throw(c)
    BY <2>2 DEF Throw
  <2>3. CASE UNCHANGED bounds
    BY <2>3 DEF bounds
  <2> QED
    BY <2>1, <2>2, <2>3
    DEF Round, User, BeginStep, LeaveLoop, AskPlan, ResolvePlan, RejectPlan, DismissPlan,
        ContinuePlan, StartSubtask, StartSummary, StartAnswer, PreCompact, EndSubtask
<1>5. overflows' \in Nat /\ throws' \in Nat /\ steps' \in Nat
  BY <1>2, <1>4 DEF CoreOK
<1> QED
  BY <1>1, <1>2, <1>3, <1>5, CoreMoves DEF Pcs

LEMMA ModelStepCore == ASSUME CoreOK, NEW c \in Calls, Model(c) PROVE CoreOK'
<1>1. PICK to \in LoopPcs : pc' = [pc EXCEPT ![c] = to]
  BY DEF Model, StreamStart, FinishStep, StreamEnd, StreamFail, StreamOverflow, StreamRetry,
         RetryWake, AnswerReturns, SummaryReturns, Stream, Goto,
         LoopPcs, PlanPcs
<1>2. UNCHANGED <<entry, callbacks, aborted, ctl, reply, aborts, byUser, throws>>
  BY DEF Model, StreamStart, FinishStep, StreamEnd, StreamFail, StreamOverflow, StreamRetry,
         RetryWake, AnswerReturns, SummaryReturns, Stream, session, bounds
<1>3. status' \in {"idle", "busy", "retry"}
  BY DEF Model, StreamStart, FinishStep, StreamEnd, StreamFail, StreamOverflow, StreamRetry,
         RetryWake, AnswerReturns, SummaryReturns, session, CoreOK
<1>4. overflows' \in {overflows, overflows + 1} /\ steps' \in {steps, steps + 1}
  BY DEF Model, StreamStart, FinishStep, StreamEnd, StreamFail, StreamOverflow, StreamRetry,
         RetryWake, AnswerReturns, SummaryReturns, bounds
<1>5. overflows' \in Nat /\ throws' \in Nat /\ steps' \in Nat
  BY <1>2, <1>4 DEF CoreOK
<1> QED
  BY <1>1, <1>2, <1>3, <1>5, CoreMoves DEF Pcs

LEMMA LeaveStepCore ==
  ASSUME TypedInv, NEW c \in Calls, Leave(c)
  PROVE  CoreOK'
<1>1. CoreOK /\ loc[c].cur \in Nat
  BY DEF TypedInv, LocOK, Local
<1>2. CASE Deliver(c)
  <2>1. PICK waiting : pc' = [d \in Calls |-> IF d = c THEN "closing"
                                ELSE IF d \in waiting THEN "done" ELSE pc[d]]
    BY <1>2 DEF Deliver
  <2>2. pc' \in [Calls -> Pcs]
    BY <1>1, <2>1 DEF CoreOK, Pcs, LoopPcs, PlanPcs
  <2>3. Returns(Newest(Assistants(msgs)).id) \in Replies
    BY <1>2, ItemTyped DEF Deliver, TypedInv, Returns, Replies
  <2>4. reply' \in [Calls -> Replies]
    BY <1>1, <1>2, <2>3, SettleTyped DEF Deliver
  <2>5. UNCHANGED <<session, ctl, bounds>>
    BY <1>2 DEF Deliver
  <2> QED
    BY <1>1, <2>2, <2>4, <2>5 DEF CoreOK, session, bounds
<1>3. CASE DeliverNothing(c)
  BY <1>1, <1>3 DEF DeliverNothing, Goto, session, bounds, CoreOK, Pcs, LoopPcs, PlanPcs
<1>4. CASE Close(c)
  <2>1. pc' = [pc EXCEPT ![c] = "done"] /\ Cancel /\ UNCHANGED <<ctl, bounds>>
    BY <1>4 DEF Close, Goto
  <2>2. /\ Without("error") \in Replies /\ Returns(loc[c].cur) \in Replies
    BY <1>1 DEF Without, Returns, Replies
  <2>3. reply' \in [Calls -> Replies]
    BY <1>1, <1>4, <2>2, SettleTyped DEF Close, CoreOK
  <2> QED
    BY <1>1, <2>1, <2>3, CancelTyped DEF CoreOK, bounds, Pcs
<1> QED
  BY <1>2, <1>3, <1>4 DEF Leave

LEMMA ShellStepCore ==
  ASSUME TypedInv, NEW c \in Calls, ShellRun(c)
  PROVE  CoreOK'
<1>1. CoreOK /\ loc[c].cur \in Nat
  BY DEF TypedInv, LocOK, Local
<1>2. CASE ShellSaveUser(c) \/ ShellSaveAssistant(c)
  BY <1>1, <1>2 DEF ShellSaveUser, ShellSaveAssistant, NewAssistant, Goto, session, bounds,
                    CoreOK, Pcs, ShellPcs
<1>3. ASSUME NEW r \in Replies, Released(c, r) PROVE CoreOK'
  <2>1. reply' \in [Calls -> Replies]
    BY <1>1, <1>3, SettleTyped DEF Released
  <2>2. CASE callbacks = {}
    BY <1>1, <1>3, <2>1, <2>2, CancelTyped DEF Released, Goto, CoreOK, bounds, Pcs
  <2>3. CASE callbacks # {}
    BY <1>1, <1>3, <2>1, <2>3 DEF Released, Goto, CoreOK, session, bounds, Pcs, LoopPcs, PlanPcs
  <2> QED
    BY <2>2, <2>3
<1>4. Without("error") \in Replies /\ Returns(loc[c].cur) \in Replies
  BY <1>1 DEF Without, Returns, Replies
<1> QED
  BY <1>2, <1>3, <1>4 DEF ShellRun, ShellExit, ShellFail

LEMMA ClientStepCore == ASSUME CoreOK, NEW c \in Calls, Client(c) PROVE CoreOK'
<1>1. CASE Compose(c) \/ Summarize(c)
  BY <1>1 DEF Compose, Summarize, Goto, session, bounds, CoreOK, Pcs, EntryPcs
<1>4. CASE \E k \in Kinds : Submit(c, k)
  BY <1>4 DEF Submit, Goto, session, bounds, CoreOK, Pcs, EntryPcs
<1>2. CASE ShellStart(c)
  BY <1>2 DEF ShellStart, Claim, Goto, bounds, CoreOK, Pcs, ShellPcs
<1>3. CASE ShellBusy(c)
  <2>1. Without("busy") \in Replies
    BY DEF Without, Replies
  <2> QED
    BY <1>3, <2>1 DEF ShellBusy, Goto, session, bounds, CoreOK, Pcs
<1> QED
  BY <1>1, <1>2, <1>3, <1>4 DEF Client

LEMMA TypedInit == Init => TypedInv
<1>1. SUFFICES ASSUME Init PROVE TypedInv
  OBVIOUS
<1>2. InitLocal \in Local
  BY DEF InitLocal, Local, CallKinds, Jobs, Tasks, Results, Reasons
<1>3. InitLocal.retries = 0 /\ InitLocal.sent = 0
  BY DEF InitLocal
<1>4. LocOK
  BY <1>1, <1>2, <1>3, BoundsAssumption DEF Init, LocOK, Within
<1>5. StoreOK
  BY <1>1 DEF Init, StoreOK, Stored
<1>6. CoreOK
  BY <1>1 DEF Init, CoreOK, Pcs, EntryPcs, Without, Replies
<1> QED
  BY <1>4, <1>5, <1>6 DEF TypedInv

LEMMA TypedStep ==
  ASSUME TypedInv, [Next]_vars
  PROVE  TypedInv'
<1>0. CoreOK /\ LocOK /\ StoreOK
  BY DEF TypedInv
<1>1. ASSUME NEW c \in Calls, Client(c) PROVE TypedInv'
  BY <1>0, <1>1, ClientStepCore, ClientStepLocals DEF TypedInv
<1>2. ASSUME NEW c \in Calls, Store(c) PROVE TypedInv'
  BY <1>0, <1>2, StoreStepCore, StoreStepLocals DEF TypedInv
<1>3. ASSUME NEW c \in Calls, Round(c) \/ User(c) PROVE TypedInv'
  BY <1>0, <1>3, RoundStepCore, RoundStepLocals DEF TypedInv
<1>4. ASSUME NEW c \in Calls, Model(c) PROVE TypedInv'
  BY <1>0, <1>4, ModelStepCore, ModelStepLocals DEF TypedInv
<1>5. ASSUME NEW c \in Calls, Leave(c) PROVE TypedInv'
  BY <1>0, <1>5, LeaveStepCore, LeaveStepLocals DEF TypedInv
<1>6. ASSUME NEW c \in Calls, ShellRun(c) PROVE TypedInv'
  BY <1>0, <1>6, ShellStepCore, ShellStepLocals DEF TypedInv
<1>7. CASE Abort
  <2>1. CoreOK'
    BY <1>0, <1>7, CancelTyped DEF Abort, CoreOK
  <2>2. UNCHANGED <<msgs, nextId, loc>>
    BY <1>7 DEF Abort, store
  <2> QED
    BY <1>0, <2>1, <2>2 DEF TypedInv, LocOK, StoreOK
<1>8. CASE UNCHANGED vars
  BY <1>0, <1>8 DEF TypedInv, CoreOK, LocOK, StoreOK, vars
<1> QED
  BY <1>1, <1>2, <1>3, <1>4, <1>5, <1>6, <1>7, <1>8 DEF Next, Server, Idle

\* The state, the stored messages and the locals of every call keep their
\* types: the loop never picks the newest message of an empty history, and no
\* model call is retried more often than the limit.
THEOREM SessionType == Spec => []TypeOK
<1>1. TypedInv => TypeOK
  BY DEF TypedInv, CoreOK, StoreOK, Stored, LocOK, Within, TypeOK
<1> QED
  BY <1>1, TypedInit, TypedStep, PTL DEF Spec

(***************************************************************************)
(* The session's entry.  LiveCallHoldsEntry and BusyHasOwner together say  *)
(* that the state map and the turns agree.  Neither is inductive: the      *)
(* queue must be known to hang on an entry (a resumed shell command takes  *)
(* the entry it finds), and an active call to watch some controller (an    *)
(* absent entry is nobody's).                                              *)
(***************************************************************************)
\* The types of what the argument is about.
HoldTypeOK ==
  /\ entry \in Calls \cup {None}
  /\ callbacks \subseteq Calls
  /\ aborted \subseteq Calls
  /\ pc \in [Calls -> Pcs]
  /\ ctl \in [Calls -> Calls \cup {None}]

QueueHasEntry == callbacks # {} => entry # None

ActiveHasController == \A c \in Calls : Active(c) => ctl[c] # None

HoldInv ==
  /\ HoldTypeOK
  /\ QueueHasEntry
  /\ ActiveHasController
  /\ LiveCallHoldsEntry
  /\ BusyHasOwner

holds == <<entry, callbacks, aborted, ctl>>

\* At first nothing is claimed and no call is active.
LEMMA HoldInit == Init => HoldInv
<1>1. SUFFICES ASSUME Init PROVE HoldInv
  OBVIOUS
<1>2. \A c \in Calls : ~Active(c)
  BY <1>1 DEF Init, Active, ShellPcs, LoopPcs, PlanPcs
<1>3. HoldTypeOK
  BY <1>1 DEF Init, HoldTypeOK, Pcs, EntryPcs
<1> QED
  BY <1>1, <1>2, <1>3
  DEF Init, HoldInv, QueueHasEntry, ActiveHasController, LiveCallHoldsEntry, BusyHasOwner

\* A call that moves on without touching the state map stays what it was.
LEMMA MoveKeeps ==
  ASSUME HoldInv, UNCHANGED holds,
         NEW c \in Calls, NEW to \in Pcs,
         pc' = [pc EXCEPT ![c] = to],
         Active(c) <=> to \in ShellPcs \cup LoopPcs
  PROVE  HoldInv'
<1>1. \A d \in Calls : Active(d)' <=> Active(d)
  BY DEF HoldInv, HoldTypeOK, Active
<1>2. HoldTypeOK'
  BY DEF HoldInv, HoldTypeOK, holds
<1> QED
  BY <1>1, <1>2
  DEF HoldInv, QueueHasEntry, ActiveHasController, LiveCallHoldsEntry, BusyHasOwner,
      holds, Aborted

\* Claiming an idle session: an unaborted call would hold the absent entry.
LEMMA ClaimKeeps ==
  ASSUME HoldInv, NEW c \in Calls, Claim(c), UNCHANGED aborted,
         NEW to \in ShellPcs \cup LoopPcs, pc' = [pc EXCEPT ![c] = to]
  PROVE  HoldInv'
<1>1. HoldTypeOK'
  BY DEF HoldInv, HoldTypeOK, Claim, Pcs
<1>2. \A d \in Calls : d # c => /\ Active(d)' <=> Active(d)
                                /\ ctl'[d] = ctl[d]
  BY DEF HoldInv, HoldTypeOK, Active, Claim
<1>3. Active(c)' /\ ctl'[c] = c /\ entry' = c /\ callbacks' = {} /\ entry = None
  BY DEF HoldInv, HoldTypeOK, Active, Claim
<1>4. \A d \in Calls : d # c => ~Active(d) \/ ctl[d] \in aborted
  BY <1>3 DEF HoldInv, ActiveHasController, LiveCallHoldsEntry, Aborted
<1>5. c # None
  BY NoneAssumption
<1>6. QueueHasEntry'
  BY <1>3 DEF QueueHasEntry
<1>7. ActiveHasController'
  BY <1>2, <1>3, <1>5 DEF HoldInv, ActiveHasController
<1>8. LiveCallHoldsEntry'
  BY <1>2, <1>3, <1>4 DEF LiveCallHoldsEntry, Aborted
<1>9. BusyHasOwner'
  BY <1>3 DEF BusyHasOwner
<1> QED
  BY <1>1, <1>6, <1>7, <1>8, <1>9 DEF HoldInv

\* Cancelling: whoever lived on the entry is aborted with it, so that nobody
\* who is still active needs one.
LEMMA CancelKeeps ==
  ASSUME HoldInv, Cancel, UNCHANGED ctl, pc' \in [Calls -> Pcs],
         \A d \in Calls : Active(d)' => Active(d)
  PROVE  HoldInv'
<1>1. HoldTypeOK'
  BY DEF HoldInv, HoldTypeOK, Cancel
<1>2. \A d \in Calls : Active(d) => ctl[d] \in aborted'
  <2>1. SUFFICES ASSUME NEW d \in Calls, Active(d), ctl[d] \notin aborted
                 PROVE  ctl[d] \in aborted'
    BY DEF Cancel
  <2>2. entry = ctl[d] /\ entry # None
    BY <2>1 DEF HoldInv, LiveCallHoldsEntry, ActiveHasController, Aborted
  <2> QED
    BY <2>2 DEF Cancel
<1> QED
  BY <1>1, <1>2
  DEF HoldInv, QueueHasEntry, ActiveHasController, LiveCallHoldsEntry, BusyHasOwner,
      Cancel, Aborted

\* What a call does until it claims the session, or waits.
LEMMA StoreKeeps == ASSUME HoldInv, NEW c \in Calls, Store(c) PROVE HoldInv'
<1>1. CASE SaveMessage(c)
  BY <1>1, MoveKeeps DEF SaveMessage, Goto, session, holds, Active, Pcs, EntryPcs,
                         ShellPcs, LoopPcs, PlanPcs
<1>2. CASE SaveParts(c)
  BY <1>2, MoveKeeps DEF SaveParts, Goto, session, holds, Active, Pcs, EntryPcs,
                         ShellPcs, LoopPcs, PlanPcs
<1>3. CASE ReturnMessage(c)
  BY <1>3, MoveKeeps DEF ReturnMessage, Goto, session, holds, Active, Pcs, EntryPcs,
                         ShellPcs, LoopPcs, PlanPcs
<1>4. CASE StartLoop(c)
  BY <1>4, ClaimKeeps DEF StartLoop, Goto, LoopPcs, PlanPcs
<1>5. CASE QueueBehind(c)
  <2>1. /\ pc[c] = "saved" /\ pc' = [pc EXCEPT ![c] = "queued"]
        /\ entry # None /\ UNCHANGED <<entry, aborted, ctl>>
        /\ callbacks' = callbacks \cup {c}
    BY <1>5 DEF QueueBehind, Goto
  <2>2. HoldTypeOK'
    BY <2>1 DEF HoldInv, HoldTypeOK, Pcs
  <2>3. \A d \in Calls : Active(d)' <=> Active(d)
    BY <2>1 DEF HoldInv, HoldTypeOK, Active, ShellPcs, LoopPcs, PlanPcs
  <2> QED
    BY <2>1, <2>2, <2>3
    DEF HoldInv, QueueHasEntry, ActiveHasController, LiveCallHoldsEntry, BusyHasOwner, Aborted
<1> QED
  BY <1>1, <1>2, <1>3, <1>4, <1>5 DEF Store

\* A round of the loop leaves the state map alone.
LEMMA RoundKeeps ==
  ASSUME HoldInv, NEW c \in Calls, Round(c) \/ User(c)
  PROVE  HoldInv'
<1>1. CASE LeaveLoop(c)
  BY <1>1, MoveKeeps DEF LeaveLoop, Goto, session, holds, Active, Pcs, EntryPcs,
                           ShellPcs, LoopPcs, PlanPcs
<1>2. CASE TakeStep(c)
  BY <1>2, MoveKeeps DEF TakeStep, Goto, session, holds, Active, Pcs, EntryPcs,
                           ShellPcs, LoopPcs, PlanPcs
<1>3. CASE StartSubtask(c)
  BY <1>3, MoveKeeps DEF StartSubtask, NewAssistant, Goto, session, holds, Active, Pcs, EntryPcs,
                           ShellPcs, LoopPcs, PlanPcs
<1>4. CASE StartSummary(c)
  BY <1>4, MoveKeeps DEF StartSummary, NewAssistant, Goto, session, holds, Active, Pcs, EntryPcs,
                           ShellPcs, LoopPcs, PlanPcs
<1>5. CASE StartAnswer(c)
  BY <1>5, MoveKeeps DEF StartAnswer, NewAssistant, Goto, session, holds, Active, Pcs, EntryPcs,
                           ShellPcs, LoopPcs, PlanPcs
<1>6. CASE PreCompact(c)
  BY <1>6, MoveKeeps DEF PreCompact, Goto, session, holds, Active, Pcs, EntryPcs,
                           ShellPcs, LoopPcs, PlanPcs
<1>7. CASE EndSubtask(c)
  BY <1>7, MoveKeeps DEF EndSubtask, Goto, session, holds, Active, Pcs, EntryPcs,
                           ShellPcs, LoopPcs, PlanPcs
<1>8. CASE Throw(c)
  BY <1>8, MoveKeeps DEF Throw, Goto, session, holds, Active, Pcs, EntryPcs,
                           ShellPcs, LoopPcs, PlanPcs
<1>9. CASE BeginStep(c)
  <2>1. PICK to \in {"tail", "read"} : pc' = [pc EXCEPT ![c] = to]
    BY <1>9 DEF BeginStep, Goto
  <2> QED
    BY <1>9, <2>1, MoveKeeps
    DEF BeginStep, holds, Active, Pcs, EntryPcs, ShellPcs, LoopPcs, PlanPcs
<1>10. CASE AskPlan(c)
  BY <1>10, MoveKeeps DEF AskPlan, Goto, session, holds, Active, Pcs, EntryPcs,
                           ShellPcs, LoopPcs, PlanPcs
<1>11. CASE RejectPlan(c)
  BY <1>11, MoveKeeps DEF RejectPlan, Goto, session, holds, Active, Pcs, EntryPcs,
                           ShellPcs, LoopPcs, PlanPcs
<1>12. CASE DismissPlan(c)
  BY <1>12, MoveKeeps DEF DismissPlan, Goto, session, holds, Active, Pcs, EntryPcs,
                           ShellPcs, LoopPcs, PlanPcs
<1>13. CASE ContinuePlan(c)
  BY <1>13, MoveKeeps DEF ContinuePlan, Goto, session, holds, Active, Pcs, EntryPcs,
                           ShellPcs, LoopPcs, PlanPcs
<1>14. CASE ResolvePlan(c)
  <2>1. PICK to \in {"tail", "asked", "unheard"} : pc' = [pc EXCEPT ![c] = to]
    BY <1>14 DEF ResolvePlan, Goto
  <2> QED
    BY <1>14, <2>1, MoveKeeps
    DEF ResolvePlan, session, holds, Active, Pcs, EntryPcs, ShellPcs, LoopPcs, PlanPcs
<1> QED
  BY <1>1, <1>2, <1>3, <1>4, <1>5, <1>6, <1>7, <1>8, <1>9, <1>10, <1>11, <1>12, <1>13, <1>14
  DEF Round, User

\* Nor does the model call.
LEMMA ModelKeeps == ASSUME HoldInv, NEW c \in Calls, Model(c) PROVE HoldInv'
<1>1. CASE StreamStart(c)
  BY <1>1, MoveKeeps DEF StreamStart, Stream, Goto, session, holds, Active, Pcs, EntryPcs,
                           ShellPcs, LoopPcs, PlanPcs
<1>2. CASE FinishStep(c)
  BY <1>2, MoveKeeps DEF FinishStep, Stream, Goto, session, holds, Active, Pcs, EntryPcs,
                           ShellPcs, LoopPcs, PlanPcs
<1>3. CASE StreamEnd(c)
  BY <1>3, MoveKeeps DEF StreamEnd, Stream, Goto, session, holds, Active, Pcs, EntryPcs,
                           ShellPcs, LoopPcs, PlanPcs
<1>4. CASE StreamFail(c)
  BY <1>4, MoveKeeps DEF StreamFail, Stream, Goto, session, holds, Active, Pcs, EntryPcs,
                           ShellPcs, LoopPcs, PlanPcs
<1>5. CASE StreamOverflow(c)
  BY <1>5, MoveKeeps DEF StreamOverflow, Stream, Goto, session, holds, Active, Pcs, EntryPcs,
                           ShellPcs, LoopPcs, PlanPcs
<1>6. CASE StreamRetry(c)
  BY <1>6, MoveKeeps DEF StreamRetry, Stream, Goto, session, holds, Active, Pcs, EntryPcs,
                           ShellPcs, LoopPcs, PlanPcs
<1>7. CASE RetryWake(c)
  BY <1>7, MoveKeeps DEF RetryWake, Stream, Goto, session, holds, Active, Pcs, EntryPcs,
                           ShellPcs, LoopPcs, PlanPcs
<1>8. CASE AnswerReturns(c)
  <2>1. PICK to \in {"tail", "top"} : pc' = [pc EXCEPT ![c] = to]
    BY <1>8 DEF AnswerReturns, Goto
  <2> QED
    BY <1>8, <2>1, MoveKeeps
    DEF AnswerReturns, session, holds, Active, Pcs, EntryPcs, ShellPcs, LoopPcs, PlanPcs
<1>9. CASE SummaryReturns(c)
  <2>1. PICK to \in {"tail", "top"} : pc' = [pc EXCEPT ![c] = to]
    BY <1>9 DEF SummaryReturns, Goto
  <2> QED
    BY <1>9, <2>1, MoveKeeps
    DEF SummaryReturns, session, holds, Active, Pcs, EntryPcs, ShellPcs, LoopPcs, PlanPcs
<1> QED
  BY <1>1, <1>2, <1>3, <1>4, <1>5, <1>6, <1>7, <1>8, <1>9 DEF Model

\* The delivery wakes calls that were queued, so not active; the close is a
\* cancel of whatever entry there is.
LEMMA LeaveKeeps == ASSUME HoldInv, NEW c \in Calls, Leave(c) PROVE HoldInv'
<1>1. CASE Deliver(c)
  <2>1. PICK waiting : /\ \A d \in waiting : pc[d] = "queued"
                       /\ pc' = [d \in Calls |-> IF d = c THEN "closing"
                                   ELSE IF d \in waiting THEN "done" ELSE pc[d]]
    BY <1>1 DEF Deliver
  <2>2. UNCHANGED holds /\ pc[c] = "tail"
    BY <1>1 DEF Deliver, session, holds
  <2>3. \A d \in Calls : Active(d)' <=> Active(d)
    BY <2>1, <2>2 DEF Active, ShellPcs, LoopPcs, PlanPcs
  <2>4. pc' \in [Calls -> Pcs]
    BY <2>1 DEF HoldInv, HoldTypeOK, Pcs, LoopPcs, PlanPcs
  <2> QED
    BY <2>2, <2>3, <2>4
    DEF HoldInv, HoldTypeOK, QueueHasEntry, ActiveHasController, LiveCallHoldsEntry,
        BusyHasOwner, holds, Aborted
<1>2. CASE DeliverNothing(c)
  BY <1>2, MoveKeeps DEF DeliverNothing, Goto, session, holds, Active, Pcs, EntryPcs,
                         ShellPcs, LoopPcs, PlanPcs
<1>3. CASE Close(c)
  <2>1. Cancel /\ UNCHANGED ctl /\ pc' = [pc EXCEPT ![c] = "done"]
    BY <1>3 DEF Close, Goto
  <2>2. pc' \in [Calls -> Pcs] /\ \A d \in Calls : Active(d)' => Active(d)
    BY <2>1 DEF HoldInv, HoldTypeOK, Active, Pcs, ShellPcs, LoopPcs, PlanPcs
  <2> QED
    BY <2>1, <2>2, CancelKeeps
<1> QED
  BY <1>1, <1>2, <1>3 DEF Leave

\* A shell command ends by cancelling what it finds, or by taking it over.
LEMMA ReleasedKeeps ==
  ASSUME HoldInv, NEW c \in Calls, NEW r, pc[c] \in ShellPcs, Released(c, r)
  PROVE  HoldInv'
<1>1. CASE callbacks = {}
  <2>1. Cancel /\ UNCHANGED ctl /\ pc' = [pc EXCEPT ![c] = "done"]
    BY <1>1 DEF Released, Goto
  <2>2. pc' \in [Calls -> Pcs] /\ \A d \in Calls : Active(d)' => Active(d)
    BY <2>1 DEF HoldInv, HoldTypeOK, Active, Pcs, ShellPcs, LoopPcs, PlanPcs
  <2> QED
    BY <2>1, <2>2, CancelKeeps
<1>2. CASE callbacks # {}
  <2>1. /\ ctl' = [ctl EXCEPT ![c] = entry]
        /\ pc' = [pc EXCEPT ![c] = "top"]
        /\ UNCHANGED <<entry, callbacks, aborted>>
    BY <1>2 DEF Released, Goto, session
  <2>2. entry \in Calls /\ entry # None
    BY <1>2, NoneAssumption DEF HoldInv, HoldTypeOK, QueueHasEntry
  <2>3. HoldTypeOK'
    BY <2>1, <2>2 DEF HoldInv, HoldTypeOK, Pcs, LoopPcs, PlanPcs
  <2>4. \A d \in Calls : /\ Active(d)' <=> Active(d)
                         /\ d # c => ctl'[d] = ctl[d]
    BY <2>1 DEF HoldInv, HoldTypeOK, Active, ShellPcs, LoopPcs, PlanPcs
  <2>5. Active(c)' /\ ctl'[c] = entry /\ entry' = entry
    BY <2>1 DEF HoldInv, HoldTypeOK, Active, LoopPcs, PlanPcs
  <2> QED
    BY <2>1, <2>2, <2>3, <2>4, <2>5
    DEF HoldInv, QueueHasEntry, ActiveHasController, LiveCallHoldsEntry, BusyHasOwner, Aborted
<1> QED
  BY <1>1, <1>2

LEMMA ShellRunKeeps == ASSUME HoldInv, NEW c \in Calls, ShellRun(c) PROVE HoldInv'
<1>1. CASE ShellSaveUser(c)
  BY <1>1, MoveKeeps DEF ShellSaveUser, Goto, session, holds, Active, Pcs, EntryPcs,
                         ShellPcs, LoopPcs, PlanPcs
<1>2. CASE ShellSaveAssistant(c)
  BY <1>2, MoveKeeps DEF ShellSaveAssistant, NewAssistant, Goto, session, holds, Active, Pcs,
                         EntryPcs, ShellPcs, LoopPcs, PlanPcs
<1>3. CASE ShellExit(c)
  BY <1>3, ReleasedKeeps DEF ShellExit, ShellPcs
<1>4. CASE ShellFail(c)
  BY <1>4, ReleasedKeeps DEF ShellFail, ShellPcs
<1> QED
  BY <1>1, <1>2, <1>3, <1>4 DEF ShellRun

\* A client's call claims the session, or leaves it alone.
LEMMA ClientKeeps == ASSUME HoldInv, NEW c \in Calls, Client(c) PROVE HoldInv'
<1>1. CASE \E k \in Kinds : Submit(c, k)
  BY <1>1, MoveKeeps DEF Submit, Goto, session, holds, Active, Pcs, EntryPcs,
                         ShellPcs, LoopPcs, PlanPcs
<1>4. CASE Compose(c)
  BY <1>4, MoveKeeps DEF Compose, Goto, session, holds, Active, Pcs, EntryPcs,
                         ShellPcs, LoopPcs, PlanPcs
<1>5. CASE Summarize(c)
  BY <1>5, MoveKeeps DEF Summarize, Goto, session, holds, Active, Pcs, EntryPcs,
                         ShellPcs, LoopPcs, PlanPcs
<1>2. CASE ShellStart(c)
  BY <1>2, ClaimKeeps DEF ShellStart, Goto, ShellPcs
<1>3. CASE ShellBusy(c)
  BY <1>3, MoveKeeps DEF ShellBusy, Goto, session, holds, Active, Pcs, EntryPcs,
                         ShellPcs, LoopPcs, PlanPcs
<1> QED
  BY <1>1, <1>2, <1>3, <1>4, <1>5 DEF Client

LEMMA HoldStep == HoldInv /\ [Next]_vars => HoldInv'
<1>1. SUFFICES ASSUME HoldInv, [Next]_vars PROVE HoldInv'
  OBVIOUS
<1>2. ASSUME NEW c \in Calls, Client(c) \/ User(c) \/ Server(c) PROVE HoldInv'
  BY <1>1, <1>2, ClientKeeps, StoreKeeps, RoundKeeps, ModelKeeps, LeaveKeeps, ShellRunKeeps
  DEF Server
<1>3. CASE Abort
  <2>1. Cancel /\ UNCHANGED <<pc, ctl>>
    BY <1>3 DEF Abort
  <2> QED
    BY <1>1, <2>1, CancelKeeps DEF HoldInv, HoldTypeOK, Active
<1>4. CASE UNCHANGED vars
  BY <1>1, <1>4
  DEF HoldInv, HoldTypeOK, QueueHasEntry, ActiveHasController, LiveCallHoldsEntry,
      BusyHasOwner, Active, Aborted, vars
<1> QED
  BY <1>1, <1>2, <1>3, <1>4 DEF Next, Idle

LEMMA HoldAlways == Spec => []HoldInv
<1> QED
  BY HoldInit, HoldStep, PTL DEF Spec

\* Whatever calls and aborts interleave, a call that still works and was not
\* aborted is the one the state map names: SessionPrompt.cancel reaches it and
\* a second call is told the session is busy.
THEOREM LiveCallIsHeld == Spec => []LiveCallHoldsEntry
<1> QED
  BY HoldAlways, PTL DEF HoldInv

\* A claimed session always has a call at work that will release it: start()
\* and the deferred cancels leave no entry without an owner.
THEOREM EntryHasOwner == Spec => []BusyHasOwner
<1> QED
  BY HoldAlways, PTL DEF HoldInv

\* Both together: the state map names a turn exactly as long as one is at work
\* that nobody aborted, and that turn.
THEOREM EntryMatchesTurns == Spec => []EntryFollowsTurns
<1> QED
  BY HoldAlways, PTL DEF HoldInv, EntryFollowsTurns

-----------------------------------------------------------------------------
(***************************************************************************)
(* The status.  Aborted loops set it to busy and retry after the abort put *)
(* it out, so it is the last loop's close that must put it out again.      *)
(***************************************************************************)
StatusInv == pc \in [Calls -> Pcs] /\ NonIdleHasLoop

\* A call in the loop moves on within it, whatever it does to the status.
LEMMA LoopMoves ==
  ASSUME StatusInv, NEW c \in Calls, NEW to \in LoopPcs,
         pc' = [pc EXCEPT ![c] = to]
  PROVE  StatusInv'
  BY DEF StatusInv, NonIdleHasLoop, Pcs

\* A call outside the loop moves and leaves the status alone.
LEMMA OthersMove ==
  ASSUME StatusInv, NEW c \in Calls, pc[c] \notin LoopPcs, NEW to \in Pcs,
         pc' = [pc EXCEPT ![c] = to], status' = status
  PROVE  StatusInv'
  BY DEF StatusInv, NonIdleHasLoop

\* Whoever cancels puts the status out.
LEMMA CancelIdles ==
  ASSUME Cancel, pc' \in [Calls -> Pcs]
  PROVE  StatusInv'
  BY DEF StatusInv, NonIdleHasLoop, Cancel

LEMMA StatusStep ==
  ASSUME StatusInv, [Next]_vars
  PROVE  StatusInv'
<1>1. ASSUME NEW c \in Calls, Client(c) PROVE StatusInv'
  <2>1. PICK to \in {"composed", "creating", "shell", "done"} :
          /\ pc[c] \in EntryPcs /\ pc' = [pc EXCEPT ![c] = to]
          /\ status' = status
    BY <1>1 DEF Client, Compose, Submit, Summarize, ShellStart, ShellBusy, Goto, session,
                EntryPcs
  <2> QED
    BY <2>1, OthersMove DEF Pcs, EntryPcs, ShellPcs, LoopPcs, PlanPcs
<1>2. ASSUME NEW c \in Calls, Store(c) PROVE StatusInv'
  <2>1. PICK to \in {"partial", "saved", "done", "top", "queued"} :
          /\ pc[c] \in EntryPcs /\ pc' = [pc EXCEPT ![c] = to]
          /\ status' = status
    BY <1>2 DEF Store, SaveMessage, SaveParts, ReturnMessage, StartLoop, QueueBehind,
                Goto, session, EntryPcs
  <2> QED
    BY <2>1, OthersMove DEF Pcs, EntryPcs, LoopPcs, PlanPcs
<1>3. ASSUME NEW c \in Calls, Round(c) \/ User(c) PROVE StatusInv'
  <2>1. PICK to \in LoopPcs : pc' = [pc EXCEPT ![c] = to]
    BY <1>3 DEF Round, User, BeginStep, LeaveLoop, AskPlan, ResolvePlan, RejectPlan, DismissPlan,
         ContinuePlan, TakeStep, StartSubtask, StartSummary, StartAnswer, PreCompact,
         EndSubtask, Throw, NewAssistant, Goto, LoopPcs, PlanPcs
  <2> QED
    BY <2>1, LoopMoves
<1>4. ASSUME NEW c \in Calls, Model(c) PROVE StatusInv'
  <2>1. PICK to \in LoopPcs : pc' = [pc EXCEPT ![c] = to]
    BY <1>4 DEF Model, StreamStart, FinishStep, StreamEnd, StreamFail, StreamOverflow,
                StreamRetry, RetryWake, AnswerReturns, SummaryReturns, Stream, Goto,
         LoopPcs, PlanPcs
  <2> QED
    BY <2>1, LoopMoves
<1>5. ASSUME NEW c \in Calls, Leave(c) PROVE StatusInv'
  <2>1. CASE Deliver(c)
    <3>1. PICK waiting : /\ \A d \in waiting : pc[d] = "queued"
                         /\ pc' = [d \in Calls |-> IF d = c THEN "closing"
                                     ELSE IF d \in waiting THEN "done" ELSE pc[d]]
      BY <2>1 DEF Deliver
    <3> QED
      BY <3>1 DEF StatusInv, NonIdleHasLoop, Pcs, LoopPcs, PlanPcs
  <2>2. CASE DeliverNothing(c)
    BY <2>2, LoopMoves DEF DeliverNothing, Goto, LoopPcs, PlanPcs
  <2>3. CASE Close(c)
    BY <2>3, CancelIdles DEF Close, Goto, StatusInv, Pcs
  <2> QED
    BY <1>5, <2>1, <2>2, <2>3 DEF Leave
<1>6. ASSUME NEW c \in Calls, ShellRun(c) PROVE StatusInv'
  <2>1. ASSUME NEW r, pc[c] \in ShellPcs, Released(c, r) PROVE StatusInv'
    <3>1. CASE callbacks = {}
      BY <2>1, <3>1, CancelIdles DEF Released, Goto, StatusInv, Pcs
    <3>2. CASE callbacks # {}
      BY <2>1, <3>2, LoopMoves DEF Released, Goto, LoopPcs, PlanPcs
    <3> QED
      BY <3>1, <3>2
  <2>2. CASE ShellSaveUser(c)
    BY <2>2, OthersMove DEF ShellSaveUser, Goto, session, Pcs, ShellPcs, LoopPcs, PlanPcs
  <2>3. CASE ShellSaveAssistant(c)
    BY <2>3, OthersMove DEF ShellSaveAssistant, NewAssistant, Goto, session, Pcs,
                            ShellPcs, LoopPcs, PlanPcs
  <2> QED
    BY <1>6, <2>1, <2>2, <2>3 DEF ShellRun, ShellExit, ShellFail, ShellPcs
<1>7. CASE Abort
  BY <1>7, CancelIdles DEF Abort, StatusInv
<1>8. CASE UNCHANGED vars
  BY <1>8 DEF StatusInv, NonIdleHasLoop, vars
<1> QED
  BY <1>1, <1>2, <1>3, <1>4, <1>5, <1>6, <1>7, <1>8 DEF Next, Server, Idle

\* The clients' busy and retry indicators never outlive the last loop, however
\* many aborted loops set them again while they wind down.
THEOREM StatusHasLoop == Spec => []NonIdleHasLoop
<1>1. Init => StatusInv
  BY DEF Init, StatusInv, NonIdleHasLoop, Pcs, EntryPcs
<1> QED
  BY <1>1, StatusStep, PTL DEF Spec, StatusInv

-----------------------------------------------------------------------------
(***************************************************************************)
(* One live loop.  A prompt, a command or a summary works under its own    *)
(* controller and the state map holds one: two that are live would be the  *)
(* same.  Only a shell command takes over a controller it finds.           *)
(***************************************************************************)
KindInv ==
  \A c \in Calls :
    /\ pc[c] \in ShellPcs => loc[c].kind = "shell"
    /\ Active(c) /\ loc[c].kind # "shell" => ctl[c] = c

LEMMA KindMoves ==
  ASSUME KindInv, NEW c \in Calls,
         \A d \in Calls : d # c => /\ pc'[d] \in {pc[d], "done"}
                                   /\ loc'[d].kind = loc[d].kind
                                   /\ ctl'[d] = ctl[d],
         pc'[c] \in ShellPcs => loc'[c].kind = "shell",
         Active(c)' /\ loc'[c].kind # "shell" => ctl'[c] = c
  PROVE  KindInv'
<1>1. "done" \notin ShellPcs \cup LoopPcs
  BY DEF ShellPcs, LoopPcs, PlanPcs
<1> QED
  BY <1>1 DEF KindInv, Active

\* A step within the loop.
LEMMA LoopKeepsKind ==
  ASSUME TypedInv, KindInv, NEW c \in Calls, Active(c), NEW to \in LoopPcs \cup {"done"},
         pc' = [pc EXCEPT ![c] = to], ctl' = ctl,
         NEW l, l.kind = loc[c].kind, loc' = [loc EXCEPT ![c] = l]
  PROVE  KindInv'
<1>1. pc \in [Calls -> Pcs] /\ loc \in [Calls -> Local]
  BY DEF TypedInv, CoreOK, LocOK
<1>2. to \notin ShellPcs
  BY DEF ShellPcs, LoopPcs, PlanPcs
<1> QED
  BY <1>1, <1>2, KindMoves DEF KindInv

LEMMA RoundKeepsKind ==
  ASSUME NEW l \in Local
  PROVE  /\ NextRound(l).kind = l.kind
         /\ \A r : [NextRound(l) EXCEPT !.reason = r].kind = l.kind
  BY DEF NextRound, Local

LEMMA KindClient ==
  ASSUME TypedInv, KindInv, NEW c \in Calls, Client(c)
  PROVE  KindInv'
<1>1. pc \in [Calls -> Pcs] /\ loc \in [Calls -> Local] /\ ctl \in [Calls -> Calls \cup {None}]
  BY DEF TypedInv, CoreOK, LocOK
<1>2. CASE Compose(c) \/ (\E k \in Kinds : Submit(c, k)) \/ Summarize(c)
  <2>1. PICK to \in {"composed", "creating"} : pc' = [pc EXCEPT ![c] = to]
    BY <1>2 DEF Compose, Submit, Summarize, Goto
  <2>2. ctl' = ctl /\ \A d \in Calls : d # c => loc'[d] = loc[d]
    BY <1>1, <1>2 DEF Compose, Submit, Summarize
  <2>3. to \notin ShellPcs \cup LoopPcs
    BY DEF ShellPcs, LoopPcs, PlanPcs
  <2> QED
    BY <1>1, <2>1, <2>2, <2>3, KindMoves DEF Active
<1>3. CASE ShellStart(c) \/ ShellBusy(c)
  <2>1. /\ pc' \in {[pc EXCEPT ![c] = "shell"], [pc EXCEPT ![c] = "done"]}
        /\ loc' = [loc EXCEPT ![c] = [loc[c] EXCEPT !.kind = "shell"]]
        /\ \A d \in Calls : d # c => ctl'[d] = ctl[d]
    BY <1>1, <1>3 DEF ShellStart, ShellBusy, Claim, Goto
  <2>2. loc'[c].kind = "shell"
    BY <1>1, <2>1 DEF Local
  <2> QED
    BY <1>1, <2>1, <2>2, KindMoves
<1> QED
  BY <1>2, <1>3 DEF Client

LEMMA KindStore ==
  ASSUME TypedInv, KindInv, NEW c \in Calls, Store(c)
  PROVE  KindInv'
<1>1. pc \in [Calls -> Pcs] /\ loc \in [Calls -> Local] /\ ctl \in [Calls -> Calls \cup {None}]
  BY DEF TypedInv, CoreOK, LocOK
<1>2. PICK to \in {"partial", "saved", "done", "top", "queued"} : pc' = [pc EXCEPT ![c] = to]
  BY DEF Store, SaveMessage, SaveParts, ReturnMessage, StartLoop, QueueBehind, Goto
<1>3. to \notin ShellPcs
  BY DEF ShellPcs
<1>4. \A d \in Calls : d # c => loc'[d] = loc[d] /\ ctl'[d] = ctl[d]
  BY <1>1 DEF Store, SaveMessage, SaveParts, ReturnMessage, StartLoop, QueueBehind, Claim
<1>5. to = "top" => ctl'[c] = c
  BY <1>1, <1>2 DEF Store, SaveMessage, SaveParts, ReturnMessage, StartLoop, QueueBehind,
                    Claim, Goto
<1>6. to \in LoopPcs => to = "top"
  BY DEF LoopPcs, PlanPcs
<1> QED
  BY <1>1, <1>2, <1>3, <1>4, <1>5, <1>6, KindMoves DEF Active

LEMMA KindRound ==
  ASSUME TypedInv, KindInv, NEW c \in Calls, Round(c) \/ User(c)
  PROVE  KindInv'
<1>1. loc[c] \in Local /\ loc \in [Calls -> Local]
  BY DEF TypedInv, LocOK
<1>2. PICK to \in LoopPcs : pc' = [pc EXCEPT ![c] = to]
  BY DEF Round, User, BeginStep, LeaveLoop, AskPlan, ResolvePlan, RejectPlan, DismissPlan,
         ContinuePlan, TakeStep, StartSubtask, StartSummary, StartAnswer, PreCompact,
         EndSubtask, Throw, NewAssistant, Goto, LoopPcs, PlanPcs
<1>3. ctl' = ctl /\ Active(c)
  BY DEF Round, User, BeginStep, LeaveLoop, AskPlan, ResolvePlan, RejectPlan, DismissPlan,
         ContinuePlan, TakeStep, StartSubtask, StartSummary, StartAnswer, PreCompact,
         EndSubtask, Throw, Active, LoopPcs, PlanPcs
<1>4. PICK l : l.kind = loc[c].kind /\ loc' = [loc EXCEPT ![c] = l]
  <2>1. CASE loc' = loc
    BY <1>1, <2>1
  <2>2. CASE BeginStep(c) /\ loc' # loc
    BY <1>1, <2>2 DEF BeginStep, Local
  <2>3. CASE TakeStep(c)
    BY <1>1, <2>3 DEF TakeStep, Local
  <2>4. CASE StartSubtask(c) \/ StartSummary(c) \/ StartAnswer(c)
    BY <1>1, <2>4 DEF StartSubtask, StartSummary, StartAnswer, NewAssistant, Local
  <2>5. CASE PreCompact(c) \/ EndSubtask(c)
    BY <1>1, <2>5, RoundKeepsKind DEF PreCompact, EndSubtask
  <2>6. CASE Throw(c)
    BY <1>1, <2>6, RoundKeepsKind DEF Throw
  <2>7. CASE LeaveLoop(c) \/ AskPlan(c) \/ ResolvePlan(c) \/ RejectPlan(c) \/ User(c)
    BY <2>1, <2>7 DEF LeaveLoop, AskPlan, ResolvePlan, RejectPlan, User, DismissPlan, ContinuePlan
  <2> QED
    BY <2>1, <2>2, <2>3, <2>4, <2>5, <2>6, <2>7 DEF Round
<1> QED
  BY <1>2, <1>3, <1>4, LoopKeepsKind

LEMMA KindModel ==
  ASSUME TypedInv, KindInv, NEW c \in Calls, Model(c)
  PROVE  KindInv'
<1>1. loc[c] \in Local /\ loc \in [Calls -> Local]
  BY DEF TypedInv, LocOK
<1>2. PICK to \in LoopPcs : pc' = [pc EXCEPT ![c] = to]
  BY DEF Model, StreamStart, FinishStep, StreamEnd, StreamFail, StreamOverflow, StreamRetry,
         RetryWake, AnswerReturns, SummaryReturns, Stream, Goto,
         LoopPcs, PlanPcs
<1>3. ctl' = ctl /\ Active(c)
  BY DEF Model, StreamStart, FinishStep, StreamEnd, StreamFail, StreamOverflow, StreamRetry,
         RetryWake, AnswerReturns, SummaryReturns, Stream, Active, LoopPcs, PlanPcs
<1>4. PICK l : l.kind = loc[c].kind /\ loc' = [loc EXCEPT ![c] = l]
  <2>1. CASE StreamStart(c) \/ StreamEnd(c) \/ RetryWake(c)
    BY <2>1 DEF StreamStart, StreamEnd, RetryWake, Stream
  <2>2. CASE FinishStep(c)
    BY <1>1, <2>2 DEF FinishStep, Stream, Local
  <2>3. CASE StreamFail(c) \/ StreamOverflow(c) \/ StreamRetry(c)
    BY <1>1, <2>3 DEF StreamFail, StreamOverflow, StreamRetry, Stream, Local
  <2>4. CASE AnswerReturns(c) \/ SummaryReturns(c)
    BY <1>1, <2>4, RoundKeepsKind DEF AnswerReturns, SummaryReturns
  <2> QED
    BY <2>1, <2>2, <2>3, <2>4 DEF Model
<1> QED
  BY <1>2, <1>3, <1>4, LoopKeepsKind

LEMMA KindLeave ==
  ASSUME TypedInv, KindInv, NEW c \in Calls, Leave(c)
  PROVE  KindInv'
<1>1. loc[c] \in Local /\ loc \in [Calls -> Local] /\ pc \in [Calls -> Pcs]
  BY DEF TypedInv, LocOK, CoreOK
<1>2. ctl' = ctl /\ Active(c)
  BY DEF Leave, Deliver, DeliverNothing, Close, Active, LoopPcs, PlanPcs
<1>3. CASE Deliver(c)
  <2>1. /\ \A d \in Calls : pc'[d] \in {pc[d], "done"} \/ d = c
        /\ pc'[c] = "closing"
    BY <1>3 DEF Deliver
  <2>2. loc' = [loc EXCEPT ![c] = [loc[c] EXCEPT !.cur = Newest(Assistants(msgs)).id]]
    BY <1>3 DEF Deliver
  <2>3. \A d \in Calls : loc'[d].kind = loc[d].kind
    BY <1>1, <2>2 DEF Local
  <2>4. "closing" \notin ShellPcs
    BY DEF ShellPcs
  <2>5. loc[c].kind # "shell" => ctl[c] = c
    BY <1>2 DEF KindInv
  <2> QED
    BY <1>2, <2>1, <2>3, <2>4, <2>5, KindMoves
<1>4. CASE DeliverNothing(c)
  <2>1. /\ pc' = [pc EXCEPT ![c] = "closing"]
        /\ loc' = [loc EXCEPT ![c] = [loc[c] EXCEPT !.cur = 0]]
    BY <1>4 DEF DeliverNothing, Goto
  <2>2. [loc[c] EXCEPT !.cur = 0].kind = loc[c].kind
    BY <1>1 DEF Local
  <2> QED
    BY <1>2, <2>1, <2>2, LoopKeepsKind DEF LoopPcs, PlanPcs
<1>5. CASE Close(c)
  <2>1. /\ pc' = [pc EXCEPT ![c] = "done"]
        /\ loc' = [loc EXCEPT ![c] = NextRound(loc[c])]
    BY <1>5 DEF Close, Goto
  <2> QED
    BY <1>1, <1>2, <2>1, RoundKeepsKind, LoopKeepsKind
<1> QED
  BY <1>3, <1>4, <1>5 DEF Leave

LEMMA KindShell ==
  ASSUME TypedInv, KindInv, NEW c \in Calls, ShellRun(c)
  PROVE  KindInv'
<1>1. loc[c] \in Local /\ loc \in [Calls -> Local] /\ pc \in [Calls -> Pcs]
      /\ ctl \in [Calls -> Calls \cup {None}]
  BY DEF TypedInv, LocOK, CoreOK
<1>2. loc[c].kind = "shell"
  BY DEF KindInv, ShellRun, ShellSaveUser, ShellSaveAssistant, ShellExit, ShellFail, ShellPcs
<1>3. PICK to : pc' = [pc EXCEPT ![c] = to]
  BY DEF ShellRun, ShellSaveUser, ShellSaveAssistant, NewAssistant, ShellExit, ShellFail,
         Released, Goto
<1>4. \A d \in Calls : d # c => ctl'[d] = ctl[d]
  BY <1>1 DEF ShellRun, ShellSaveUser, ShellSaveAssistant, ShellExit, ShellFail, Released
<1>5. PICK l : l.kind = loc[c].kind /\ loc' = [loc EXCEPT ![c] = l]
  <2>1. CASE ShellSaveUser(c)
    BY <1>1, <2>1 DEF ShellSaveUser
  <2>3. CASE ShellSaveAssistant(c)
    BY <1>1, <2>3 DEF ShellSaveAssistant, NewAssistant, Local
  <2>2. CASE ShellExit(c) \/ ShellFail(c)
    BY <1>1, <2>2, RoundKeepsKind DEF ShellExit, ShellFail, Released
  <2> QED
    BY <2>1, <2>2, <2>3 DEF ShellRun
<1> QED
  BY <1>1, <1>2, <1>3, <1>4, <1>5, KindMoves

LEMMA KindStep ==
  ASSUME TypedInv, KindInv, [Next]_vars
  PROVE  KindInv'
<1>1. CASE Abort \/ UNCHANGED vars
  BY <1>1 DEF Abort, vars, KindInv, Active
<1> QED
  BY <1>1, KindClient, KindStore, KindRound, KindModel, KindLeave, KindShell
  DEF Next, Server, Idle

LEMMA KindInit == Init => KindInv
  BY DEF Init, KindInv, Active, ShellPcs, LoopPcs, PlanPcs

\* Two turns run at once on a session only where a shell command resumed a
\* loop on another turn's entry: start() and the queue keep all others apart.
THEOREM TurnsExclude == Spec => []OneLiveLoop
<1>1. HoldInv /\ KindInv => OneLiveLoop
  BY DEF HoldInv, LiveCallHoldsEntry, KindInv, OneLiveLoop
<1> QED
  BY <1>1, HoldAlways, TypedInit, TypedStep, KindInit, KindStep, PTL DEF Spec

-----------------------------------------------------------------------------
(***************************************************************************)
(* Who aborts.  As long as no client aborted a turn, a call at work watches *)
(* its own controller, which is the one in the state map: so what it aborts *)
(* when it is done is itself.                                               *)
(***************************************************************************)
OwnInv ==
  byUser = {} => /\ \A c \in aborted : pc[c] = "done"
                 /\ \A c \in Calls : Active(c) => ctl[c] = c

\* Nobody but calls that are done by now is aborted, and who is at work was so
\* or claims the session for itself.
LEMMA OwnMoves ==
  ASSUME OwnInv, byUser' = byUser,
         byUser = {} => \A d \in aborted' : d \in aborted \/ pc'[d] = "done",
         \A d : pc[d] = "done" => pc'[d] = "done",
         byUser = {} => \A d \in Calls :
           Active(d)' => (Active(d) /\ ctl'[d] = ctl[d]) \/ ctl'[d] = d
  PROVE  OwnInv'
  BY DEF OwnInv

\* A call that moves and aborts nobody.
LEMMA OwnGoes ==
  ASSUME HoldInv, OwnInv, UNCHANGED <<byUser, aborted>>,
         NEW c \in Calls, pc[c] # "done", NEW to, pc' = [pc EXCEPT ![c] = to],
         ctl' = ctl, to \in ShellPcs \cup LoopPcs => Active(c)
  PROVE  OwnInv'
<1>1. pc \in [Calls -> Pcs]
  BY DEF HoldInv, HoldTypeOK
<1>2. \A d \in Calls : Active(d)' => Active(d)
  BY <1>1 DEF Active
<1> QED
  BY <1>1, <1>2, OwnMoves

\* A call that claims the session.
LEMMA OwnClaims ==
  ASSUME HoldInv, OwnInv, UNCHANGED <<byUser, aborted>>,
         NEW c \in Calls, pc[c] # "done", NEW to, pc' = [pc EXCEPT ![c] = to], Claim(c)
  PROVE  OwnInv'
<1>1. pc \in [Calls -> Pcs] /\ ctl \in [Calls -> Calls \cup {None}]
  BY DEF HoldInv, HoldTypeOK
<1>2. \A d \in Calls : d # c => (Active(d)' <=> Active(d)) /\ ctl'[d] = ctl[d]
  BY <1>1 DEF Active, Claim
<1>3. ctl'[c] = c
  BY <1>1 DEF Claim
<1> QED
  BY <1>1, <1>2, <1>3, OwnMoves

\* A call that is done cancels the entry it finds: its own, or none.
LEMMA OwnCancels ==
  ASSUME HoldInv, OwnInv, byUser' = byUser,
         NEW c \in Calls, Active(c), pc' = [pc EXCEPT ![c] = "done"], Cancel, ctl' = ctl
  PROVE  OwnInv'
<1>1. pc \in [Calls -> Pcs]
  BY DEF HoldInv, HoldTypeOK
<1>2. byUser = {} => entry = c
  <2>1. SUFFICES ASSUME byUser = {} PROVE entry = c
    OBVIOUS
  <2>2. ctl[c] = c /\ c \notin aborted
    BY <2>1 DEF OwnInv, Active, ShellPcs, LoopPcs, PlanPcs
  <2> QED
    BY <2>2 DEF HoldInv, LiveCallHoldsEntry, Aborted
<1>3. byUser = {} => \A d \in aborted' : d \in aborted \/ pc'[d] = "done"
  BY <1>1, <1>2 DEF Cancel
<1>4. \A d \in Calls : Active(d)' => Active(d)
  BY <1>1 DEF Active, ShellPcs, LoopPcs, PlanPcs
<1> QED
  BY <1>1, <1>3, <1>4, OwnMoves

\* A shell command that takes its entry over keeps its controller by that.
LEMMA OwnReleased ==
  ASSUME HoldInv, OwnInv, byUser' = byUser,
         NEW c \in Calls, pc[c] \in ShellPcs, NEW r, Released(c, r)
  PROVE  OwnInv'
<1>1. Active(c) /\ pc[c] # "done"
  BY DEF Active, ShellPcs
<1>2. CASE callbacks = {}
  BY <1>1, <1>2, OwnCancels DEF Released, Goto
<1>3. CASE callbacks # {}
  <2>1. /\ ctl' = [ctl EXCEPT ![c] = entry] /\ pc' = [pc EXCEPT ![c] = "top"]
        /\ aborted' = aborted
    BY <1>3 DEF Released, Goto, session
  <2>2. pc \in [Calls -> Pcs] /\ ctl \in [Calls -> Calls \cup {None}]
    BY DEF HoldInv, HoldTypeOK
  <2>3. byUser = {} => entry = c
    BY <1>1 DEF OwnInv, HoldInv, LiveCallHoldsEntry, Aborted
  <2>4. \A d \in Calls : d # c => (Active(d)' <=> Active(d)) /\ ctl'[d] = ctl[d]
    BY <2>1, <2>2 DEF Active
  <2>5. ctl'[c] = entry
    BY <2>1, <2>2
  <2> QED
    BY <1>1, <2>1, <2>2, <2>3, <2>4, <2>5, OwnMoves
<1> QED
  BY <1>2, <1>3

LEMMA OwnStep ==
  ASSUME HoldInv, OwnInv, [Next]_vars
  PROVE  OwnInv'
<1>1. ASSUME NEW c \in Calls, Client(c) PROVE OwnInv'
  <2>1. CASE Compose(c) \/ (\E k \in Kinds : Submit(c, k)) \/ Summarize(c)
    <3>1. PICK to \in {"composed", "creating"} : pc' = [pc EXCEPT ![c] = to]
      BY <2>1 DEF Compose, Submit, Summarize, Goto
    <3>2. pc[c] # "done" /\ ctl' = ctl /\ UNCHANGED <<byUser, aborted>>
      BY <2>1 DEF Compose, Submit, Summarize, session, bounds
    <3> QED
      BY <3>1, <3>2, OwnGoes DEF ShellPcs, LoopPcs, PlanPcs
  <2>2. CASE ShellStart(c)
    BY <2>2, OwnClaims DEF ShellStart, Goto, bounds
  <2>3. CASE ShellBusy(c)
    BY <2>3, OwnGoes DEF ShellBusy, Goto, session, bounds, ShellPcs, LoopPcs, PlanPcs
  <2> QED
    BY <1>1, <2>1, <2>2, <2>3 DEF Client
<1>2. ASSUME NEW c \in Calls, Store(c) PROVE OwnInv'
  <2>1. CASE StartLoop(c)
    BY <2>1, OwnClaims DEF StartLoop, Goto, bounds
  <2>2. CASE SaveMessage(c) \/ SaveParts(c) \/ ReturnMessage(c) \/ QueueBehind(c)
    <3>1. PICK to \in {"partial", "saved", "done", "queued"} : pc' = [pc EXCEPT ![c] = to]
      BY <2>2 DEF SaveMessage, SaveParts, ReturnMessage, QueueBehind, Goto
    <3>2. pc[c] # "done" /\ ctl' = ctl /\ UNCHANGED <<byUser, aborted>>
      BY <2>2 DEF SaveMessage, SaveParts, ReturnMessage, QueueBehind, session, bounds
    <3> QED
      BY <3>1, <3>2, OwnGoes DEF ShellPcs, LoopPcs, PlanPcs
  <2> QED
    BY <1>2, <2>1, <2>2 DEF Store
<1>3. ASSUME NEW c \in Calls, Round(c) \/ User(c) PROVE OwnInv'
  <2>1. PICK to \in LoopPcs : pc' = [pc EXCEPT ![c] = to]
    BY <1>3 DEF Round, User, BeginStep, LeaveLoop, AskPlan, ResolvePlan, RejectPlan, DismissPlan,
         ContinuePlan, TakeStep, StartSubtask, StartSummary, StartAnswer, PreCompact,
         EndSubtask, Throw, NewAssistant, Goto, LoopPcs, PlanPcs
  <2>2. /\ ctl' = ctl /\ Active(c) /\ pc[c] # "done"
        /\ UNCHANGED <<byUser, aborted>>
    BY <1>3 DEF Round, User, BeginStep, LeaveLoop, AskPlan, ResolvePlan, RejectPlan, DismissPlan,
         ContinuePlan, TakeStep, StartSubtask, StartSummary, StartAnswer, PreCompact,
         EndSubtask, Throw, Active, LoopPcs, PlanPcs, session, bounds
  <2> QED
    BY <2>1, <2>2, OwnGoes
<1>4. ASSUME NEW c \in Calls, Model(c) PROVE OwnInv'
  <2>1. PICK to \in LoopPcs : pc' = [pc EXCEPT ![c] = to]
    BY <1>4 DEF Model, StreamStart, FinishStep, StreamEnd, StreamFail, StreamOverflow,
                StreamRetry, RetryWake, AnswerReturns, SummaryReturns, Stream, Goto,
         LoopPcs, PlanPcs
  <2>2. /\ ctl' = ctl /\ Active(c) /\ pc[c] # "done"
        /\ UNCHANGED <<byUser, aborted>>
    BY <1>4 DEF Model, StreamStart, FinishStep, StreamEnd, StreamFail, StreamOverflow,
                StreamRetry, RetryWake, AnswerReturns, SummaryReturns, Stream, Active,
                LoopPcs, PlanPcs, session, bounds
  <2> QED
    BY <2>1, <2>2, OwnGoes
<1>5. ASSUME NEW c \in Calls, Leave(c) PROVE OwnInv'
  <2>1. CASE Deliver(c)
    <3>1. PICK waiting : /\ \A d \in waiting : pc[d] = "queued"
                         /\ pc' = [d \in Calls |-> IF d = c THEN "closing"
                                     ELSE IF d \in waiting THEN "done" ELSE pc[d]]
      BY <2>1 DEF Deliver
    <3>2. ctl' = ctl /\ pc[c] = "tail" /\ UNCHANGED <<byUser, aborted>>
      BY <2>1 DEF Deliver, session, bounds
    <3>3. \A d \in Calls : /\ Active(d)' <=> Active(d)
                           /\ pc[d] = "done" => pc'[d] = "done"
      BY <3>1, <3>2 DEF Active, ShellPcs, LoopPcs, PlanPcs
    <3>4. aborted \subseteq Calls
      BY DEF HoldInv, HoldTypeOK
    <3> QED
      BY <3>2, <3>3, <3>4 DEF OwnInv
  <2>2. CASE DeliverNothing(c)
    BY <2>2, OwnGoes DEF DeliverNothing, Goto, session, bounds, Active, LoopPcs, PlanPcs
  <2>3. CASE Close(c)
    BY <2>3, OwnCancels DEF Close, Goto, bounds, Active, LoopPcs, PlanPcs
  <2> QED
    BY <1>5, <2>1, <2>2, <2>3 DEF Leave
<1>6. ASSUME NEW c \in Calls, ShellRun(c) PROVE OwnInv'
  <2>1. CASE ShellSaveUser(c)
    BY <2>1, OwnGoes DEF ShellSaveUser, Goto, session, bounds, Active, ShellPcs
  <2>2. CASE ShellSaveAssistant(c)
    BY <2>2, OwnGoes DEF ShellSaveAssistant, NewAssistant, Goto, session, bounds, Active, ShellPcs
  <2>3. CASE ShellExit(c) \/ ShellFail(c)
    <3>1. PICK r : Released(c, r)
      BY <2>3 DEF ShellExit, ShellFail
    <3>2. pc[c] \in ShellPcs
      BY <2>3 DEF ShellExit, ShellFail, ShellPcs
    <3> QED
      BY <3>1, <3>2, OwnReleased DEF Released, bounds
  <2> QED
    BY <1>6, <2>1, <2>2, <2>3 DEF ShellRun
<1>7. CASE Abort
  BY <1>7 DEF Abort, Cancel, OwnInv, Active
<1>8. CASE UNCHANGED vars
  BY <1>8 DEF OwnInv, Active, vars
<1> QED
  BY <1>1, <1>2, <1>3, <1>4, <1>5, <1>6, <1>7, <1>8 DEF Next, Server, Idle

\* Until a client aborts a turn, the deferred cancels of the turns abort nothing
\* but what is done: it takes an abort for one turn to run on beside the next
\* and to take that one's controller for its own.
THEOREM TurnsAbortThemselves == Spec => []AbortsBeginWithAClient
<1>1. Init => OwnInv
  BY DEF Init, OwnInv, Active, ShellPcs, LoopPcs, PlanPcs
<1>2. OwnInv => AbortsBeginWithAClient
  BY DEF OwnInv, AbortsBeginWithAClient
<1> QED
  BY <1>1, <1>2, HoldAlways, OwnStep, PTL DEF Spec

-----------------------------------------------------------------------------
(***************************************************************************)
(* What a loop finds in the history: the two places where the code says    *)
(* that something cannot happen.  Both rest on where a call stands: who    *)
(* reads has a prompt stored, or waits for someone who has; who leaves the *)
(* loop unaborted has an answer stored.                                    *)
(***************************************************************************)
Prompted  == {"partial", "saved", "queued", "shellUser", "shellRun"} \cup LoopPcs
Answering == {"subtask", "calling", "stream", "finishing", "backoff", "wrapup"}

HistoryInv ==
  /\ callbacks # {} => Users(msgs) # {}
  /\ \A c \in Calls : pc[c] \in Prompted => Users(msgs) # {}
  /\ \A c \in Calls : pc[c] \in Answering \cup PlanPcs => Assistants(msgs) # {}
  /\ TailHasAnswer

\* No step takes the last message of a role away.
Grows ==
  /\ Users(msgs) # {} => Users(msgs') # {}
  /\ Assistants(msgs) # {} => Assistants(msgs') # {}

\* Every stored message stays, with its identifier, its time and its role.
SameMessage(m, n) == n.id = m.id /\ n.time = m.time /\ n.role = m.role
Kept == \A m \in msgs : \E n \in msgs' : SameMessage(m, n)

LEMMA HistoryMoves ==
  ASSUME TypedInv, HistoryInv, Grows, aborted \subseteq aborted',
         NEW c \in Calls, NEW to, pc' = [pc EXCEPT ![c] = to],
         \A d \in Calls : d # c => ctl'[d] = ctl[d],
         callbacks' # {} => Users(msgs') # {},
         to \in Prompted => Users(msgs') # {},
         to \in Answering \cup PlanPcs => Assistants(msgs') # {},
         to = "tail" => ctl'[c] \in aborted' \/ Assistants(msgs') # {}
  PROVE  HistoryInv'
<1>1. /\ pc'[c] = to
      /\ \A d \in Calls : d # c => pc'[d] = pc[d]
  BY DEF TypedInv, CoreOK
<1> QED
  BY <1>1 DEF HistoryInv, Grows, TailHasAnswer, Aborted

(***************************************************************************)
(* Messages are added, and changed in place without changing their role.   *)
(***************************************************************************)
LEMMA AddGrows ==
  ASSUME NEW s, NEW m, NEW t, t = s \cup {m}
  PROVE  /\ Users(s) # {} => Users(t) # {}
         /\ Assistants(s) # {} => Assistants(t) # {}
         /\ m.role = "user" => Users(t) # {}
         /\ m.role = "assistant" => Assistants(t) # {}
  BY DEF Users, Assistants

\* Every message has a counterpart of its role.
LEMMA CounterpartGrows ==
  ASSUME NEW s, NEW t, \A m \in s : \E n \in t : n.role = m.role
  PROVE  /\ Users(s) # {} => Users(t) # {}
         /\ Assistants(s) # {} => Assistants(t) # {}
  BY DEF Users, Assistants

LEMMA UserAdded ==
  ASSUME NEW s, NEW i, NEW t, NEW f
  PROVE  Users(s \cup {UserMessage(i, t, f)}) # {}
<1>1. UserMessage(i, t, f).role = "user"
  BY DEF UserMessage
<1> QED
  BY <1>1, AddGrows

LEMMA AssistantAdded ==
  ASSUME NEW s, NEW i, NEW sum
  PROVE  Assistants(s \cup {AssistantMessage(i, sum)}) # {}
<1>1. AssistantMessage(i, sum).role = "assistant"
  BY DEF AssistantMessage
<1> QED
  BY <1>1, AddGrows

LEMMA StepKeeps ==
  ASSUME TypedInv, [Next]_vars
  PROVE  Kept
<1>0. msgs \subseteq Message
  BY DEF TypedInv, StoreOK, Stored
<1>1. CASE msgs' = msgs
  BY <1>1 DEF Kept, SameMessage
<1>2. CASE \E m : msgs' = msgs \cup {m}
  BY <1>2 DEF Kept, SameMessage
<1>3. ASSUME NEW c \in Calls, SaveParts(c) PROVE Kept
  <2> DEFINE changed(m) == IF m.id = loc[c].user THEN [m EXCEPT !.full = TRUE] ELSE m
  <2>1. ASSUME NEW m \in msgs PROVE \E n \in msgs' : SameMessage(m, n)
    <3>1. changed(m) \in msgs'
      BY <1>3 DEF SaveParts, Update
    <3>2. SameMessage(m, changed(m))
      BY <1>0 DEF Message, SameMessage
    <3> QED
      BY <3>1, <3>2
  <2> QED
    BY <2>1 DEF Kept
<1>4. ASSUME NEW c \in Calls, EndSubtask(c) PROVE Kept
  <2> DEFINE changed(m) == IF m.id = loc[c].cur THEN [m EXCEPT !.finish = "tool-calls"] ELSE m
  <2>1. ASSUME NEW m \in msgs PROVE \E n \in msgs' : SameMessage(m, n)
    <3>1. changed(m) \in msgs'
      BY <1>4 DEF EndSubtask, Update
    <3>2. SameMessage(m, changed(m))
      BY <1>0 DEF Message, SameMessage
    <3> QED
      BY <3>1, <3>2
  <2> QED
    BY <2>1 DEF Kept
<1>5. ASSUME NEW c \in Calls, FinishStep(c) PROVE Kept
  <2>0. PICK f \in {"stop", "tool-calls"} :
          msgs' = Update(msgs, loc[c].cur, LAMBDA m : [m EXCEPT !.finish = f])
    BY <1>5 DEF FinishStep
  <2> DEFINE changed(m) == IF m.id = loc[c].cur THEN [m EXCEPT !.finish = f] ELSE m
  <2>1. ASSUME NEW m \in msgs PROVE \E n \in msgs' : SameMessage(m, n)
    <3>1. changed(m) \in msgs'
      BY <2>0 DEF Update
    <3>2. SameMessage(m, changed(m))
      BY <1>0 DEF Message, SameMessage
    <3> QED
      BY <3>1, <3>2
  <2> QED
    BY <2>1 DEF Kept
<1>7. ASSUME NEW c \in Calls, SummaryReturns(c) PROVE Kept
  <2> DEFINE changed(m) ==
        IF m.id = loc[c].cur
        THEN [m EXCEPT !.finish = IF loc[c].result = "compact" THEN "error" ELSE @]
        ELSE m
  <2>1. ASSUME NEW m \in msgs PROVE \E n \in msgs' : SameMessage(m, n)
    <3>1. changed(m) \in msgs'
      BY <1>7 DEF SummaryReturns, Update
    <3>2. SameMessage(m, changed(m))
      BY <1>0 DEF Message, SameMessage
    <3> QED
      BY <3>1, <3>2
  <2> QED
    BY <2>1 DEF Kept
<1>8. ASSUME NEW c \in Calls, Client(c) \/ Leave(c) PROVE Kept
  BY <1>1, <1>8 DEF Client, Compose, Submit, Summarize, ShellStart, ShellBusy, Leave,
                    Deliver, DeliverNothing, Close, store
<1>9. ASSUME NEW c \in Calls, Store(c) PROVE Kept
  BY <1>1, <1>2, <1>3, <1>9 DEF Store, SaveMessage, ReturnMessage, StartLoop, QueueBehind, store
<1>10. ASSUME NEW c \in Calls, Round(c) \/ User(c) PROVE Kept
  BY <1>1, <1>2, <1>4, <1>10
  DEF Round, User, BeginStep, LeaveLoop, AskPlan, ResolvePlan, RejectPlan, DismissPlan,
      ContinuePlan, TakeStep, StartSubtask, StartSummary, StartAnswer, PreCompact, Throw,
      NewAssistant, store
<1>11. ASSUME NEW c \in Calls, Model(c) PROVE Kept
  BY <1>1, <1>2, <1>5, <1>7, <1>11
  DEF Model, AnswerReturns, StreamStart, StreamEnd, StreamFail, StreamOverflow, StreamRetry,
      RetryWake
<1>12. ASSUME NEW c \in Calls, ShellRun(c) PROVE Kept
  BY <1>1, <1>2, <1>12
  DEF ShellRun, ShellSaveUser, ShellSaveAssistant, ShellExit, ShellFail, NewAssistant,
      Released, store
<1> QED
  BY <1>1, <1>8, <1>9, <1>10, <1>11, <1>12 DEF Next, Server, Abort, Idle, vars, store

LEMMA StepGrows ==
  ASSUME TypedInv, [Next]_vars
  PROVE  Grows
  BY StepKeeps, CounterpartGrows DEF Kept, SameMessage, Grows

-----------------------------------------------------------------------------
(***************************************************************************)
(* One step.                                                               *)
(***************************************************************************)
LEMMA HistoryClient ==
  ASSUME TypedInv, HistoryInv, Grows, NEW c \in Calls, Client(c)
  PROVE  HistoryInv'
<1>1. PICK to \in {"composed", "creating", "shell", "done"} : pc' = [pc EXCEPT ![c] = to]
  BY DEF Client, Compose, Submit, Summarize, ShellStart, ShellBusy, Goto
<1>2. /\ aborted' = aborted
      /\ callbacks' \in {{}, callbacks}
      /\ \A d \in Calls : d # c => ctl'[d] = ctl[d]
  BY DEF Client, Compose, Submit, Summarize, ShellStart, ShellBusy, Claim, session, TypedInv, CoreOK
<1>3. to \notin Prompted /\ to \notin Answering \cup PlanPcs /\ to # "tail"
  BY DEF Prompted, Answering, LoopPcs, PlanPcs
<1>4. callbacks' # {} => Users(msgs') # {}
  BY <1>2 DEF HistoryInv, Grows
<1> QED
  BY <1>1, <1>2, <1>3, <1>4, HistoryMoves

LEMMA HistoryStore ==
  ASSUME TypedInv, HistoryInv, Grows, NEW c \in Calls, Store(c)
  PROVE  HistoryInv'
<1>1. PICK to \in {"partial", "saved", "done", "top", "queued"} : pc' = [pc EXCEPT ![c] = to]
  BY DEF Store, SaveMessage, SaveParts, ReturnMessage, StartLoop, QueueBehind, Goto
<1>2. /\ aborted' = aborted
      /\ \A d \in Calls : d # c => ctl'[d] = ctl[d]
  BY DEF Store, SaveMessage, SaveParts, ReturnMessage, StartLoop, QueueBehind, Claim, session,
         TypedInv, CoreOK
<1>3. Users(msgs') # {}
  <2>1. CASE SaveMessage(c)
    <3> DEFINE k == loc[c].kind
               i == IF k = "summarize" THEN nextId ELSE loc[c].user
               t == IF k = "summarize" THEN nextId ELSE loc[c].sent
               m == [UserMessage(i, TaskOf(k), FALSE) EXCEPT !.time = t]
    <3>1. msgs' = msgs \cup {m}
      BY <2>1 DEF SaveMessage
    <3>2. m.role = "user"
      BY DEF UserMessage
    <3> HIDE DEF m
    <3> QED
      BY <3>1, <3>2, AddGrows
  <2>2. CASE ~SaveMessage(c)
    <3>1. pc[c] \in {"partial", "saved"}
      BY <2>2 DEF Store, SaveParts, ReturnMessage, StartLoop, QueueBehind
    <3> QED
      BY <3>1 DEF HistoryInv, Prompted, Grows
  <2> QED
    BY <2>1, <2>2
<1>4. to \notin Answering \cup PlanPcs /\ to # "tail"
  BY DEF Answering, PlanPcs
<1> QED
  BY <1>1, <1>2, <1>3, <1>4, HistoryMoves

LEMMA HistoryRound ==
  ASSUME TypedInv, HistoryInv, Grows, NEW c \in Calls,
         Round(c) \/ User(c)
  PROVE  HistoryInv'
<1>1. PICK to \in LoopPcs : pc' = [pc EXCEPT ![c] = to]
  BY DEF Round, User, BeginStep, LeaveLoop, AskPlan, ResolvePlan, RejectPlan, DismissPlan,
         ContinuePlan, TakeStep, StartSubtask, StartSummary, StartAnswer, PreCompact,
         EndSubtask, Throw, NewAssistant, Goto, LoopPcs, PlanPcs
<1>2. UNCHANGED <<callbacks, aborted, ctl>>
  BY DEF Round, User, BeginStep, LeaveLoop, AskPlan, ResolvePlan, RejectPlan, DismissPlan,
         ContinuePlan, TakeStep, StartSubtask, StartSummary, StartAnswer, PreCompact,
         EndSubtask, Throw, session
<1>3. Users(msgs') # {}
  <2>1. pc[c] \in LoopPcs
    BY DEF Round, User, BeginStep, LeaveLoop, AskPlan, ResolvePlan, RejectPlan, DismissPlan,
         ContinuePlan, TakeStep, StartSubtask, StartSummary, StartAnswer, PreCompact,
         EndSubtask, Throw, LoopPcs, PlanPcs
  <2> QED
    BY <2>1 DEF HistoryInv, Prompted, Grows
<1>4. (to \in Answering \cup PlanPcs => Assistants(msgs') # {})
      /\ (to = "tail" => ctl'[c] \in aborted' \/ Assistants(msgs') # {})
  <2>0. pc'[c] = to
    BY <1>1 DEF TypedInv, CoreOK
  <2>1. CASE BeginStep(c)
    BY <1>2, <2>0, <2>1 DEF BeginStep, Goto, Aborted, Answering, PlanPcs, TypedInv, CoreOK
  <2>2. CASE LeaveLoop(c) \/ AskPlan(c)
    BY <2>2 DEF LeaveLoop, AskPlan, Answered, Grows
  <2>5. CASE ResolvePlan(c) \/ RejectPlan(c) \/ DismissPlan(c)
    BY <2>5 DEF ResolvePlan, RejectPlan, DismissPlan, PlanPcs, HistoryInv, Grows
  <2>3. CASE TakeStep(c) \/ Throw(c) \/ PreCompact(c) \/ EndSubtask(c) \/ ContinuePlan(c)
    <3>1. to \in {"work", "closing", "top"}
      BY <2>0, <2>3 DEF TakeStep, Throw, PreCompact, EndSubtask, ContinuePlan, Goto, TypedInv,
                        CoreOK
    <3> QED
      BY <3>1 DEF Answering, PlanPcs
  <2>4. CASE StartSubtask(c) \/ StartSummary(c) \/ StartAnswer(c)
    <3>1. PICK sum : msgs' = msgs \cup {AssistantMessage(nextId, sum)}
      BY <2>4 DEF StartSubtask, StartSummary, StartAnswer, NewAssistant
    <3> QED
      BY <1>2, <2>0, <3>1, AssistantAdded
  <2> QED
    BY <2>1, <2>2, <2>3, <2>4, <2>5 DEF Round, User
<1>5. callbacks' # {} => Users(msgs') # {}
  BY <1>3
<1> QED
  BY <1>1, <1>2, <1>3, <1>4, <1>5, HistoryMoves

LEMMA HistoryModel ==
  ASSUME TypedInv, HistoryInv, Grows, NEW c \in Calls, Model(c)
  PROVE  HistoryInv'
<1>1. PICK to \in LoopPcs : pc' = [pc EXCEPT ![c] = to]
  BY DEF Model, StreamStart, FinishStep, StreamEnd, StreamFail, StreamOverflow, StreamRetry,
         RetryWake, AnswerReturns, SummaryReturns, Stream, Goto,
         LoopPcs, PlanPcs
<1>2. UNCHANGED <<callbacks, aborted, ctl>>
  BY DEF Model, StreamStart, FinishStep, StreamEnd, StreamFail, StreamOverflow, StreamRetry,
         RetryWake, AnswerReturns, SummaryReturns, Stream, session
<1>3. pc[c] \in Answering /\ pc[c] \in LoopPcs
  BY DEF Model, StreamStart, FinishStep, StreamEnd, StreamFail, StreamOverflow, StreamRetry,
         RetryWake, AnswerReturns, SummaryReturns, Stream, Answering, LoopPcs, PlanPcs
<1>4. Users(msgs') # {} /\ Assistants(msgs') # {}
  BY <1>3 DEF HistoryInv, Prompted, Grows
<1> QED
  BY <1>1, <1>2, <1>4, HistoryMoves

LEMMA HistoryLeave ==
  ASSUME TypedInv, HistoryInv, Grows, NEW c \in Calls, Leave(c)
  PROVE  HistoryInv'
<1>0. pc[c] \in Prompted /\ msgs' = msgs /\ ctl' = ctl
  BY DEF Leave, Deliver, DeliverNothing, Close, store, Prompted, LoopPcs, PlanPcs
<1>1. Users(msgs') # {}
  BY <1>0 DEF HistoryInv, Grows
<1>2. CASE Deliver(c)
  <2>1. \A d \in Calls : pc'[d] \in {pc[d], "closing", "done"}
    BY <1>2 DEF Deliver
  <2>2. UNCHANGED <<callbacks, aborted>>
    BY <1>2 DEF Deliver, session
  <2>3. \A d \in Calls : pc'[d] \in Answering \cup PlanPcs \cup {"tail"} => pc'[d] = pc[d]
    BY <2>1 DEF PlanPcs, Answering
  <2>4. Assistants(msgs') # {}
    BY <1>0, <1>2 DEF Deliver
  <2> QED
    BY <1>1, <2>2, <2>4 DEF HistoryInv, TailHasAnswer
<1>3. CASE DeliverNothing(c) \/ Close(c)
  <2>1. PICK to \in {"closing", "done"} : pc' = [pc EXCEPT ![c] = to]
    BY <1>3 DEF DeliverNothing, Close, Goto
  <2>2. aborted \subseteq aborted'
    BY <1>3 DEF DeliverNothing, Close, Cancel, session
  <2>3. to \notin Answering \cup PlanPcs /\ to # "tail"
    BY DEF Answering, PlanPcs
  <2> QED
    BY <1>0, <1>1, <2>1, <2>2, <2>3, HistoryMoves
<1> QED
  BY <1>2, <1>3 DEF Leave

LEMMA HistoryShell ==
  ASSUME TypedInv, HistoryInv, Grows, NEW c \in Calls, ShellRun(c)
  PROVE  HistoryInv'
<1>1. CASE ShellSaveUser(c) \/ ShellSaveAssistant(c)
  <2>1. PICK to \in {"shellUser", "shellRun"} : pc' = [pc EXCEPT ![c] = to]
    BY <1>1 DEF ShellSaveUser, ShellSaveAssistant, NewAssistant, Goto
  <2>2. UNCHANGED <<callbacks, aborted, ctl>>
    BY <1>1 DEF ShellSaveUser, ShellSaveAssistant, session
  <2>3. ASSUME ShellSaveUser(c) PROVE Users(msgs') # {}
    <3>1. msgs' = msgs \cup {UserMessage(nextId, "none", TRUE)}
      BY <2>3 DEF ShellSaveUser
    <3> QED
      BY <3>1, UserAdded
  <2>4. ASSUME ShellSaveAssistant(c) PROVE Users(msgs') # {}
    BY <2>4 DEF ShellSaveAssistant, HistoryInv, Prompted, Grows
  <2>5. Users(msgs') # {}
    BY <1>1, <2>3, <2>4
  <2>6. to \notin Answering \cup PlanPcs /\ to # "tail"
    BY DEF Answering, PlanPcs
  <2> QED
    BY <2>1, <2>2, <2>5, <2>6, HistoryMoves
<1>2. ASSUME NEW r, Released(c, r) PROVE HistoryInv'
  <2>1. PICK to \in {"done", "top"} : /\ pc' = [pc EXCEPT ![c] = to]
                                      /\ to = "top" => callbacks # {}
    BY <1>2 DEF Released, Goto
  <2>2. /\ aborted \subseteq aborted'
        /\ callbacks' # {} => callbacks # {}
        /\ \A d \in Calls : d # c => ctl'[d] = ctl[d]
    BY <1>2 DEF Released, Cancel, session, TypedInv, CoreOK
  <2>3. callbacks # {} => Users(msgs') # {}
    BY DEF HistoryInv, Grows
  <2>4. to \notin Answering \cup PlanPcs /\ to # "tail" /\ (to \in Prompted => to = "top")
    BY DEF Answering, Prompted, LoopPcs, PlanPcs
  <2> QED
    BY <2>1, <2>2, <2>3, <2>4, HistoryMoves
<1> QED
  BY <1>1, <1>2 DEF ShellRun, ShellExit, ShellFail

LEMMA HistoryStep ==
  ASSUME TypedInv, HistoryInv, [Next]_vars
  PROVE  HistoryInv'
<1>0. Grows
  BY StepGrows
<1>1. CASE Abort
  <2>1. UNCHANGED <<pc, ctl, msgs>> /\ aborted \subseteq aborted' /\ callbacks' = {}
    BY <1>1 DEF Abort, Cancel, store
  <2> QED
    BY <2>1 DEF HistoryInv, TailHasAnswer, Aborted
<1>2. CASE UNCHANGED vars
  BY <1>2 DEF HistoryInv, TailHasAnswer, Aborted, vars
<1> QED
  BY <1>0, <1>1, <1>2, HistoryClient, HistoryStore, HistoryRound, HistoryModel, HistoryLeave,
     HistoryShell
  DEF Next, Server, Idle

LEMMA HistoryInit == Init => HistoryInv
  BY DEF Init, HistoryInv, TailHasAnswer, Prompted, Answering, LoopPcs, PlanPcs

LEMMA HistoryHolds == Spec => [](TypedInv /\ HistoryInv)
  BY TypedInit, TypedStep, HistoryInit, HistoryStep, PTL DEF Spec

\* A round that reads the history finds a user message in it, whatever else
\* clients do meanwhile: "This should never happen" never does.
THEOREM ReadFindsUser == Spec => []NeverEmptyRead
<1>1. HistoryInv => NeverEmptyRead
  BY DEF HistoryInv, NeverEmptyRead, Prompted, LoopPcs, PlanPcs
<1> QED
  BY <1>1, HistoryHolds, PTL

\* A loop that comes to its end without having been aborted has an answer to
\* return: the end of loop() is "Impossible", as it says, unless it was aborted.
THEOREM TailFindsAnswer == Spec => []TailHasAnswer
<1>1. HistoryInv => TailHasAnswer
  BY DEF HistoryInv
<1> QED
  BY <1>1, HistoryHolds, PTL

\* What loop() throws for as impossible is so, in every loop nobody aborts.
THEOREM NothingImpossibleHappens == Spec => []NothingImpossible
<1> QED
  BY ReadFindsUser, TailFindsAnswer, PTL DEF NothingImpossible

-----------------------------------------------------------------------------
(***************************************************************************)
(* What a turn returns.  A prompt is told nothing but the newest answer of *)
(* the store, so that answer has to be newer than the prompt: the turn     *)
(* wrote one itself, under an identifier taken after the prompt came, or   *)
(* left because the identifier of the newest answer is above that of the   *)
(* newest user message.  By the clock that message may be the newer one:   *)
(* then the answer overtook it on its way.                                 *)
(***************************************************************************)
HasPrompt(s, t) == \E m \in Users(s) : m.time = t
HasAnswer(s, i) == \E m \in Assistants(s) : m.id = i

\* The answer i is newer than a prompt of time t, or overtook that one or a later.
FreshFor(s, i, t) ==
  \/ t < i
  \/ \E n \in Users(s) : n.id < i /\ i <= n.time /\ t <= n.time

HasFresh(s, t) == \E m \in Assistants(s) : FreshFor(s, m.id, t)

\* A turn of its own that was not interrupted.
Turn(c) == loc[c].kind # "shell" /\ loc[c].reason # "interrupted"

FreshCall(c) ==
  /\ pc[c] \in EntryPcs \cup {"queued"} => ctl[c] = None
  /\ pc[c] \in {"partial", "saved", "queued"} \cup LoopPcs /\ loc[c].kind # "shell" =>
       HasPrompt(msgs, loc[c].sent)
  /\ pc[c] \in Answering => HasAnswer(msgs, loc[c].cur) /\ loc[c].sent < loc[c].cur
  /\ pc[c] \in PlanPcs \cup {"tail"} /\ Turn(c) => HasFresh(msgs, loc[c].sent)
  /\ pc[c] = "closing" /\ Turn(c) /\ loc[c].cur # 0 =>
       FreshFor(msgs, loc[c].cur, loc[c].sent)
  /\ pc[c] = "done" /\ ctl[c] = c /\ Turn(c) /\ reply[c].as = "message" =>
       FreshFor(msgs, reply[c].id, loc[c].sent)

FreshInv == \A c \in Calls : FreshCall(c)

LEMMA KeptFound ==
  ASSUME Kept, NEW t
  PROVE  /\ HasPrompt(msgs, t) => HasPrompt(msgs', t)
         /\ HasAnswer(msgs, t) => HasAnswer(msgs', t)
         /\ \A i : FreshFor(msgs, i, t) => FreshFor(msgs', i, t)
         /\ HasFresh(msgs, t) => HasFresh(msgs', t)
<1>1. \A m \in Users(msgs) : \E n \in Users(msgs') : n.id = m.id /\ n.time = m.time
  BY DEF Kept, SameMessage, Users
<1>2. \A m \in Assistants(msgs) : \E n \in Assistants(msgs') : n.id = m.id
  BY DEF Kept, SameMessage, Assistants
<1>3. \A i : FreshFor(msgs, i, t) => FreshFor(msgs', i, t)
  BY <1>1 DEF FreshFor
<1> QED
  BY <1>1, <1>2, <1>3 DEF HasPrompt, HasAnswer, HasFresh

\* If some answer is fresh, so is the newest one.
LEMMA NewestIsFresh ==
  ASSUME NEW s, NEW n \in Nat, Stored(s, n), NEW t \in Nat, HasFresh(s, t)
  PROVE  FreshFor(s, Newest(Assistants(s)).id, t)
<1> DEFINE a == Newest(Assistants(s))
<1>1. PICK m \in Assistants(s) : FreshFor(s, m.id, t)
  BY DEF HasFresh
<1>2. a \in Assistants(s) /\ m.time <= a.time
  BY <1>1, SubsetStored, NewestExists
<1>3. /\ m.id \in Nat /\ a.id \in Nat /\ m.id = m.time /\ a.id = a.time
      /\ \A u \in Users(s) : u.id \in Nat /\ u.time \in Nat
  BY <1>2 DEF Stored, Message, Assistants, Users
<1> HIDE DEF a
<1>4. m.id <= a.id
  BY <1>2, <1>3
<1>5. ASSUME t < m.id PROVE FreshFor(s, a.id, t)
  BY <1>3, <1>4, <1>5 DEF FreshFor
<1>6. ASSUME NEW u \in Users(s), u.id < m.id, m.id <= u.time, t <= u.time
      PROVE  FreshFor(s, a.id, t)
  <2>1. u.id < a.id
    BY <1>3, <1>4, <1>6
  <2>2. CASE a.id <= u.time
    BY <1>6, <2>1, <2>2 DEF FreshFor
  <2>3. CASE ~(a.id <= u.time)
    BY <1>3, <1>6, <2>3 DEF FreshFor
  <2> QED
    BY <2>2, <2>3
<1>7. FreshFor(s, a.id, t)
  BY <1>1, <1>5, <1>6 DEF FreshFor
<1> QED
  BY <1>7 DEF a

LEMMA FreshMoves ==
  ASSUME TypedInv, FreshInv, Kept, NEW c \in Calls, FreshCall(c)',
         \A d \in Calls : d # c =>
           /\ loc'[d] = loc[d] /\ ctl'[d] = ctl[d]
           /\ \/ pc'[d] = pc[d] /\ reply'[d] = reply[d]
              \/ pc[d] = "queued" /\ pc'[d] = "done"
  PROVE  FreshInv'
<1>1. SUFFICES ASSUME NEW d \in Calls, d # c PROVE FreshCall(d)'
  BY DEF FreshInv
<1>2. FreshCall(d) /\ loc'[d] = loc[d] /\ ctl'[d] = ctl[d]
  BY <1>1 DEF FreshInv
<1>3. CASE pc'[d] = pc[d] /\ reply'[d] = reply[d]
  BY <1>2, <1>3, KeptFound DEF FreshCall, Turn
<1>4. CASE pc[d] = "queued" /\ pc'[d] = "done"
  <2>1. ctl'[d] # d
    BY <1>2, <1>4, NoneAssumption DEF FreshCall
  <2> QED
    BY <1>4, <2>1 DEF FreshCall, EntryPcs, LoopPcs, PlanPcs, Answering
<1> QED
  BY <1>1, <1>3, <1>4

\* A step of c within the loop.
LEMMA FreshLoop ==
  ASSUME TypedInv, FreshInv, Kept, NEW c \in Calls, pc[c] \in LoopPcs,
         UNCHANGED <<ctl, reply>>,
         NEW to \in LoopPcs, pc' = [pc EXCEPT ![c] = to],
         NEW l, loc' = [loc EXCEPT ![c] = l],
         l.sent = loc[c].sent, l.kind = loc[c].kind,
         to \in Answering => HasAnswer(msgs', l.cur) /\ l.sent < l.cur,
         to \in PlanPcs \cup {"tail"} /\ l.kind # "shell" /\ l.reason # "interrupted" =>
           HasFresh(msgs', l.sent),
         to = "closing" /\ l.kind # "shell" /\ l.reason # "interrupted" /\ l.cur # 0 =>
           FreshFor(msgs', l.cur, l.sent)
  PROVE  FreshInv'
<1>1. /\ pc'[c] = to /\ loc'[c] = l
      /\ \A d \in Calls : d # c => pc'[d] = pc[d] /\ loc'[d] = loc[d]
  BY DEF TypedInv, CoreOK, LocOK
<1>2. to \notin EntryPcs /\ to \notin {"queued", "done", "partial", "saved"}
  BY DEF EntryPcs, LoopPcs, PlanPcs
<1>3. loc[c].kind # "shell" => HasPrompt(msgs', l.sent)
  BY KeptFound DEF FreshInv, FreshCall
<1>4. FreshCall(c)'
  BY <1>1, <1>2, <1>3 DEF FreshCall, Turn
<1> QED
  BY <1>1, <1>4, FreshMoves

\* Leaving the loop, the newest answer is fresh for every stored prompt.
LEMMA AnsweredIsFresh ==
  ASSUME TypedInv, Answered(msgs), NEW t, HasPrompt(msgs, t)
  PROVE  HasFresh(msgs, t)
<1> DEFINE u == Newest(Users(msgs))
           a == Newest(Assistants(msgs))
<1>1. PICK m \in Users(msgs) : m.time = t
  BY DEF HasPrompt
<1>2. /\ Stored(Users(msgs), nextId) /\ Stored(Assistants(msgs), nextId)
      /\ nextId \in Nat
  BY SubsetStored DEF TypedInv, StoreOK
<1>3. u \in Users(msgs) /\ m.time <= u.time /\ a \in Assistants(msgs)
  BY <1>2, NewestExists DEF Answered
<1>4. /\ m.time \in Nat /\ u.time \in Nat /\ u.id \in Nat /\ a.id \in Nat
  BY <1>1, <1>2, <1>3 DEF Stored, Message
<1>5. u.id < a.id
  BY DEF Answered
<1> HIDE DEF u, a
<1>6. CASE u.time < a.id
  BY <1>1, <1>3, <1>4, <1>6 DEF HasFresh, FreshFor
<1>7. CASE ~(u.time < a.id)
  BY <1>1, <1>3, <1>4, <1>5, <1>7 DEF HasFresh, FreshFor
<1> QED
  BY <1>6, <1>7

LEMMA FreshClient ==
  ASSUME TypedInv, FreshInv, Kept, NEW c \in Calls, Client(c)
  PROVE  FreshInv'
<1>0. /\ pc \in [Calls -> Pcs] /\ loc \in [Calls -> Local]
      /\ ctl \in [Calls -> Calls \cup {None}]
  BY DEF TypedInv, CoreOK, LocOK
<1>1. CASE Compose(c) \/ (\E k \in Kinds : Submit(c, k)) \/ Summarize(c)
  <2>0. PICK to \in {"composed", "creating"} : pc' = [pc EXCEPT ![c] = to]
    BY <1>1 DEF Compose, Submit, Summarize, Goto
  <2>1. /\ ctl' = ctl /\ reply' = reply
        /\ \A d \in Calls : d # c => loc'[d] = loc[d] /\ pc'[d] = pc[d]
    BY <1>0, <1>1, <2>0 DEF Compose, Submit, Summarize
  <2>2. ctl[c] = None
    BY <1>1 DEF Compose, Submit, Summarize, FreshInv, FreshCall, EntryPcs
  <2>3. FreshCall(c)'
    BY <1>0, <2>0, <2>1, <2>2 DEF FreshCall, LoopPcs, PlanPcs, Answering
  <2> QED
    BY <1>0, <2>1, <2>3, FreshMoves
<1>2. CASE ShellStart(c) \/ ShellBusy(c)
  <2>1. /\ pc' \in {[pc EXCEPT ![c] = "shell"], [pc EXCEPT ![c] = "done"]}
        /\ loc' = [loc EXCEPT ![c] = [loc[c] EXCEPT !.kind = "shell"]]
        /\ \A d \in Calls : d # c => ctl'[d] = ctl[d] /\ reply'[d] = reply[d]
    BY <1>0, <1>2 DEF ShellStart, ShellBusy, Claim, Goto, TypedInv, CoreOK
  <2>2. loc'[c].kind = "shell" /\ pc'[c] \in {"shell", "done"}
    BY <1>0, <2>1 DEF Local
  <2>3. FreshCall(c)'
    BY <2>2 DEF FreshCall, Turn, EntryPcs, LoopPcs, PlanPcs, Answering
  <2> QED
    BY <1>0, <2>1, <2>3, FreshMoves
<1> QED
  BY <1>1, <1>2 DEF Client

LEMMA FreshStore ==
  ASSUME TypedInv, FreshInv, Kept, NEW c \in Calls, Store(c)
  PROVE  FreshInv'
<1>0. /\ pc \in [Calls -> Pcs] /\ loc \in [Calls -> Local] /\ reply \in [Calls -> Replies]
      /\ ctl \in [Calls -> Calls \cup {None}] /\ loc[c] \in Local
  BY DEF TypedInv, CoreOK, LocOK
<1>1. PICK to \in {"partial", "saved", "done", "top", "queued"} : pc' = [pc EXCEPT ![c] = to]
  BY DEF Store, SaveMessage, SaveParts, ReturnMessage, StartLoop, QueueBehind, Goto
<1>2. \A d \in Calls : d # c =>
        loc'[d] = loc[d] /\ ctl'[d] = ctl[d] /\ pc'[d] = pc[d] /\ reply'[d] = reply[d]
  BY <1>0, <1>1 DEF Store, SaveMessage, SaveParts, ReturnMessage, StartLoop, QueueBehind, Claim
<1>3. ctl[c] = None /\ pc'[c] = to
  BY <1>0, <1>1 DEF Store, SaveMessage, SaveParts, ReturnMessage, StartLoop, QueueBehind,
     FreshInv, FreshCall, EntryPcs
<1>4. CASE SaveMessage(c)
  <2> DEFINE k == loc[c].kind
             i == IF k = "summarize" THEN nextId ELSE loc[c].user
             t == IF k = "summarize" THEN nextId ELSE loc[c].sent
             m == [UserMessage(i, TaskOf(k), FALSE) EXCEPT !.time = t]
             l == [loc[c] EXCEPT !.user = i, !.sent = t]
  <2>1. /\ msgs' = msgs \cup {m} /\ loc' = [loc EXCEPT ![c] = l]
        /\ ctl' = ctl /\ pc' = [pc EXCEPT ![c] = "partial"]
    BY <1>4 DEF SaveMessage, Goto
  <2>2. m.time = t /\ m.role = "user"
    BY DEF UserMessage
  <2>3. l.sent = t
    BY <1>0 DEF Local
  <2> HIDE DEF m, l, i, t
  <2>4. HasPrompt(msgs', t)
    BY <2>1, <2>2 DEF HasPrompt, Users
  <2>5. loc'[c] = l /\ pc'[c] = "partial"
    BY <1>0, <2>1
  <2>6. FreshCall(c)'
    BY <1>3, <2>1, <2>3, <2>4, <2>5 DEF FreshCall, Answering, PlanPcs
  <2> QED
    BY <1>2, <2>6, FreshMoves
<1>5. CASE ~SaveMessage(c)
  <2>1. pc[c] \in {"partial", "saved"} /\ loc' = loc /\ (to # "top" => ctl' = ctl)
    BY <1>0, <1>3, <1>5
    DEF Store, SaveParts, ReturnMessage, StartLoop, QueueBehind, Goto
  <2>2. loc[c].kind # "shell" => HasPrompt(msgs', loc[c].sent)
    BY <2>1, KeptFound DEF FreshInv, FreshCall
  <2> QED
    BY <1>2, <1>3, <2>1, <2>2, NoneAssumption, FreshMoves
    DEF FreshCall, EntryPcs, Answering, PlanPcs
<1> QED
  BY <1>4, <1>5

LEMMA FreshAssistant ==
  ASSUME TypedInv, FreshInv, Kept, NEW c \in Calls, pc[c] = "work",
         UNCHANGED <<ctl, reply>>,
         NEW sum, NEW to \in {"subtask", "calling"}, NewAssistant(c, sum, to)
  PROVE  FreshInv'
<1> DEFINE l == [loc[c] EXCEPT !.cur = nextId]
           m == AssistantMessage(nextId, sum)
<1>1. loc[c] \in Local /\ loc[c].sent < nextId
  BY DEF TypedInv, LocOK
<1>2. m.id = nextId /\ m.role = "assistant"
  BY DEF AssistantMessage
<1>3. /\ loc' = [loc EXCEPT ![c] = l] /\ pc' = [pc EXCEPT ![c] = to]
      /\ msgs' = msgs \cup {m}
  BY DEF NewAssistant, Goto
<1>4. l.cur = nextId /\ l.sent = loc[c].sent /\ l.kind = loc[c].kind
  BY <1>1 DEF Local
<1> HIDE DEF l, m
<1>5. HasAnswer(msgs', l.cur) /\ l.sent < l.cur
  BY <1>1, <1>2, <1>3, <1>4 DEF HasAnswer, Assistants
<1>6. to \in LoopPcs /\ pc[c] \in LoopPcs /\ to \notin PlanPcs \cup {"tail", "closing"}
  BY DEF LoopPcs, PlanPcs
<1> QED
  BY <1>3, <1>4, <1>5, <1>6, FreshLoop

\* What a new round keeps of the locals.
LEMMA RoundLocals ==
  ASSUME NEW l \in Local
  PROVE  /\ NextRound(l).sent = l.sent /\ NextRound(l).kind = l.kind
         /\ NextRound(l).cur = 0 /\ NextRound(l).reason = l.reason
         /\ \A r : LET n == [NextRound(l) EXCEPT !.reason = r]
                   IN n.sent = l.sent /\ n.kind = l.kind /\ n.cur = 0 /\ n.reason = r
  BY DEF NextRound, Local

LEMMA FreshRound ==
  ASSUME TypedInv, FreshInv, Kept, NEW c \in Calls, Round(c) \/ User(c)
  PROVE  FreshInv'
<1>0. /\ loc[c] \in Local /\ loc \in [Calls -> Local] /\ pc \in [Calls -> Pcs]
  BY DEF TypedInv, LocOK, CoreOK
<1>1. pc[c] \in LoopPcs /\ UNCHANGED <<ctl, reply>>
  BY DEF Round, User, BeginStep, LeaveLoop, AskPlan, ResolvePlan, RejectPlan, DismissPlan,
         ContinuePlan, TakeStep, StartSubtask, StartSummary, StartAnswer, PreCompact,
         EndSubtask, Throw, LoopPcs, PlanPcs
<1>11. /\ {"top", "read", "work"} \subseteq LoopPcs
       /\ \A to \in {"top", "read", "work"} :
            to \notin Answering \cup PlanPcs \cup {"tail", "closing"}
  BY DEF LoopPcs, PlanPcs, Answering
<1>2. CASE BeginStep(c) /\ Aborted(c)
  <2> DEFINE l == [loc[c] EXCEPT !.reason = "interrupted"]
  <2>1. /\ loc' = [loc EXCEPT ![c] = l] /\ pc' = [pc EXCEPT ![c] = "tail"]
    BY <1>2 DEF BeginStep, Goto
  <2>2. l.sent = loc[c].sent /\ l.kind = loc[c].kind /\ l.reason = "interrupted"
    BY <1>0 DEF Local
  <2> HIDE DEF l
  <2>3. "tail" \in LoopPcs /\ "tail" \notin Answering
    BY DEF LoopPcs, Answering
  <2> QED
    BY <1>1, <2>1, <2>2, <2>3, FreshLoop
<1>3. CASE BeginStep(c) /\ ~Aborted(c)
  <2>1. /\ loc' = [loc EXCEPT ![c] = loc[c]] /\ pc' = [pc EXCEPT ![c] = "read"]
    BY <1>0, <1>3 DEF BeginStep, Goto
  <2> QED
    BY <1>1, <1>11, <2>1, FreshLoop
<1>4. CASE LeaveLoop(c) \/ AskPlan(c)
  <2>1. PICK to \in {"tail", "plan"} :
          /\ loc' = [loc EXCEPT ![c] = loc[c]] /\ pc' = [pc EXCEPT ![c] = to]
          /\ Answered(msgs)
    BY <1>0, <1>4 DEF LeaveLoop, AskPlan, Goto
  <2>2. loc[c].kind # "shell" => HasFresh(msgs', loc[c].sent)
    BY <1>1, <2>1, AnsweredIsFresh, KeptFound DEF FreshInv, FreshCall
  <2> QED
    BY <1>1, <2>1, <2>2, FreshLoop DEF Answering, LoopPcs, PlanPcs
<1>5. CASE TakeStep(c)
  <2>1. pc' = [pc EXCEPT ![c] = "work"]
    BY <1>5 DEF TakeStep, Goto
  <2>2. PICK j : loc' = [loc EXCEPT ![c] = [loc[c] EXCEPT !.task = j]]
    BY <1>5 DEF TakeStep
  <2> DEFINE l == [loc[c] EXCEPT !.task = j]
  <2>3. l.sent = loc[c].sent /\ l.kind = loc[c].kind
    BY <1>0 DEF Local
  <2>4. loc' = [loc EXCEPT ![c] = l]
    BY <2>2
  <2> HIDE DEF l
  <2> QED
    BY <1>1, <1>11, <2>1, <2>3, <2>4, FreshLoop
<1>9. CASE ResolvePlan(c) \/ RejectPlan(c) \/ DismissPlan(c)
  <2>1. PICK to \in {"tail", "asked", "unheard"} :
          loc' = [loc EXCEPT ![c] = loc[c]] /\ pc' = [pc EXCEPT ![c] = to]
    BY <1>0, <1>9 DEF ResolvePlan, RejectPlan, DismissPlan, Goto
  <2>2. pc[c] \in PlanPcs
    BY <1>9 DEF ResolvePlan, RejectPlan, DismissPlan, PlanPcs
  <2>3. Turn(c) => HasFresh(msgs', loc[c].sent)
    BY <2>2, KeptFound DEF FreshInv, FreshCall
  <2> QED
    BY <1>1, <2>1, <2>3, FreshLoop DEF Answering, LoopPcs, PlanPcs, Turn
<1>10. CASE ContinuePlan(c)
  <2>1. loc' = [loc EXCEPT ![c] = loc[c]] /\ pc' = [pc EXCEPT ![c] = "top"]
    BY <1>0, <1>10 DEF ContinuePlan, Goto
  <2> QED
    BY <1>1, <1>11, <2>1, FreshLoop
<1>6. CASE StartSubtask(c) \/ StartSummary(c) \/ StartAnswer(c)
  BY <1>1, <1>6, FreshAssistant DEF StartSubtask, StartSummary, StartAnswer
<1>7. CASE PreCompact(c) \/ EndSubtask(c)
  <2>1. /\ pc' = [pc EXCEPT ![c] = "top"]
        /\ loc' = [loc EXCEPT ![c] = NextRound(loc[c])]
    BY <1>7 DEF PreCompact, EndSubtask, Goto
  <2> QED
    BY <1>0, <1>1, <1>11, <2>1, RoundLocals, FreshLoop
<1>8. CASE Throw(c)
  <2>1. PICK r : /\ pc' = [pc EXCEPT ![c] = "closing"]
                 /\ loc' = [loc EXCEPT ![c] = [NextRound(loc[c]) EXCEPT !.reason = r]]
    BY <1>8 DEF Throw, Goto
  <2> DEFINE l == [NextRound(loc[c]) EXCEPT !.reason = r]
  <2>2. l.sent = loc[c].sent /\ l.kind = loc[c].kind /\ l.cur = 0
    BY <1>0, RoundLocals
  <2>3. loc' = [loc EXCEPT ![c] = l]
    BY <2>1
  <2> HIDE DEF l
  <2>4. "closing" \in LoopPcs /\ "closing" \notin Answering \cup PlanPcs \cup {"tail"}
    BY DEF LoopPcs, PlanPcs, Answering
  <2> QED
    BY <1>1, <2>1, <2>2, <2>3, <2>4, FreshLoop
<1> QED
  BY <1>2, <1>3, <1>4, <1>5, <1>6, <1>7, <1>8, <1>9, <1>10 DEF Round, User

\* The turn wrote an answer: whatever loop leaves after it finds a fresh one.
LEMMA WrittenIsFresh ==
  ASSUME FreshInv, Kept, NEW c \in Calls, pc[c] \in Answering
  PROVE  HasFresh(msgs', loc[c].sent)
<1>1. HasAnswer(msgs', loc[c].cur) /\ loc[c].sent < loc[c].cur
  BY KeptFound DEF FreshInv, FreshCall
<1> QED
  BY <1>1 DEF HasAnswer, HasFresh, FreshFor

LEMMA FreshModel ==
  ASSUME TypedInv, FreshInv, Kept, NEW c \in Calls, Model(c)
  PROVE  FreshInv'
<1>0. /\ loc[c] \in Local /\ loc \in [Calls -> Local] /\ pc \in [Calls -> Pcs]
  BY DEF TypedInv, LocOK, CoreOK
<1>1. pc[c] \in LoopPcs /\ pc[c] \in Answering /\ UNCHANGED <<ctl, reply>>
  BY DEF Model, StreamStart, FinishStep, StreamEnd, StreamFail, StreamOverflow, StreamRetry,
         RetryWake, AnswerReturns, SummaryReturns, Stream, LoopPcs, PlanPcs, Answering
<1>2. HasAnswer(msgs', loc[c].cur) /\ loc[c].sent < loc[c].cur
  BY <1>1, KeptFound DEF FreshInv, FreshCall
<1>3. CASE AnswerReturns(c) \/ SummaryReturns(c)
  <2>1. PICK to \in {"top", "tail"} : pc' = [pc EXCEPT ![c] = to]
    BY <1>3 DEF AnswerReturns, SummaryReturns, Goto
  <2>2. PICK l : /\ loc' = [loc EXCEPT ![c] = l]
                 /\ l.sent = loc[c].sent /\ l.kind = loc[c].kind
    <3>1. CASE AnswerReturns(c)
      <4>1. PICK r : loc' = [loc EXCEPT ![c] = [NextRound(loc[c]) EXCEPT !.reason = r]]
        BY <3>1 DEF AnswerReturns
      <4> DEFINE l == [NextRound(loc[c]) EXCEPT !.reason = r]
      <4>2. l.sent = loc[c].sent /\ l.kind = loc[c].kind
        BY <1>0, RoundLocals
      <4>3. loc' = [loc EXCEPT ![c] = l]
        BY <4>1
      <4> HIDE DEF l
      <4> QED
        BY <4>2, <4>3
    <3>2. CASE SummaryReturns(c)
      <4>1. loc' = [loc EXCEPT ![c] = NextRound(loc[c])]
        BY <3>2 DEF SummaryReturns
      <4> QED
        BY <1>0, <4>1, RoundLocals
    <3> QED
      BY <1>3, <3>1, <3>2
  <2>3. HasFresh(msgs', l.sent)
    BY <1>1, <2>2, WrittenIsFresh
  <2> QED
    BY <1>1, <2>1, <2>2, <2>3, FreshLoop DEF Answering, LoopPcs, PlanPcs
<1>4. CASE ~(AnswerReturns(c) \/ SummaryReturns(c))
  <2>1. PICK to \in Answering : pc' = [pc EXCEPT ![c] = to]
    BY <1>4 DEF Model, StreamStart, FinishStep, StreamEnd, StreamFail, StreamOverflow,
                StreamRetry, RetryWake, Stream, Goto, Answering
  <2>2. PICK l : /\ loc' = [loc EXCEPT ![c] = l] /\ l.cur = loc[c].cur
                 /\ l.sent = loc[c].sent /\ l.kind = loc[c].kind
    <3>1. CASE StreamStart(c) \/ StreamEnd(c) \/ RetryWake(c)
      BY <3>1 DEF StreamStart, StreamEnd, RetryWake, Stream
    <3>2. CASE FinishStep(c)
      BY <1>0, <3>2 DEF FinishStep, Stream, Local
    <3>3. CASE StreamFail(c) \/ StreamOverflow(c) \/ StreamRetry(c)
      BY <1>0, <3>3 DEF StreamFail, StreamOverflow, StreamRetry, Stream, Local
    <3> QED
      BY <1>4, <3>1, <3>2, <3>3 DEF Model
  <2>3. to \in LoopPcs /\ to \notin PlanPcs \cup {"tail", "closing"}
    BY DEF Answering, LoopPcs, PlanPcs
  <2> QED
    BY <1>1, <1>2, <2>1, <2>2, <2>3, FreshLoop
<1> QED
  BY <1>3, <1>4

LEMMA FreshLeave ==
  ASSUME TypedInv, FreshInv, Kept, NEW c \in Calls, Leave(c)
  PROVE  FreshInv'
<1>0. /\ loc[c] \in Local /\ loc \in [Calls -> Local] /\ pc \in [Calls -> Pcs]
      /\ reply \in [Calls -> Replies]
  BY DEF TypedInv, LocOK, CoreOK
<1>1. pc[c] \in LoopPcs /\ msgs' = msgs /\ ctl' = ctl
  BY DEF Leave, Deliver, DeliverNothing, Close, store, LoopPcs, PlanPcs
<1>2. loc[c].kind # "shell" => HasPrompt(msgs', loc[c].sent)
  BY <1>1 DEF FreshInv, FreshCall
<1>3. CASE Deliver(c)
  <2> DEFINE item == Newest(Assistants(msgs)).id
             l == [loc[c] EXCEPT !.cur = item]
  <2>1. /\ loc' = [loc EXCEPT ![c] = l] /\ pc'[c] = "closing" /\ pc[c] = "tail"
        /\ \A d \in Calls : d # c =>
             \/ pc'[d] = pc[d] /\ reply'[d] = reply[d]
             \/ pc[d] = "queued" /\ pc'[d] = "done"
    BY <1>0, <1>3 DEF Deliver, Settle
  <2>2. l.cur = item /\ l.sent = loc[c].sent /\ l.kind = loc[c].kind
        /\ l.reason = loc[c].reason
    BY <1>0 DEF Local
  <2>3. Turn(c) => FreshFor(msgs', l.cur, l.sent)
    <3>1. Turn(c) => HasFresh(msgs, loc[c].sent)
      BY <2>1 DEF FreshInv, FreshCall
    <3>2. Stored(msgs, nextId) /\ nextId \in Nat /\ loc[c].sent \in Nat
      BY <1>0 DEF TypedInv, StoreOK, Local
    <3>3. Turn(c) => FreshFor(msgs, item, loc[c].sent)
      BY <3>1, <3>2, NewestIsFresh
    <3> QED
      BY <1>1, <2>2, <3>3
  <2> HIDE DEF l
  <2>4. loc'[c] = l /\ \A d \in Calls : d # c => loc'[d] = loc[d]
    BY <1>0, <2>1
  <2>5. FreshCall(c)'
    BY <1>2, <2>1, <2>2, <2>3, <2>4 DEF FreshCall, Turn, EntryPcs, Answering, PlanPcs
  <2> QED
    BY <1>1, <2>1, <2>4, <2>5, FreshMoves
<1>4. CASE DeliverNothing(c)
  <2> DEFINE l == [loc[c] EXCEPT !.cur = 0]
  <2>1. /\ loc' = [loc EXCEPT ![c] = l] /\ pc' = [pc EXCEPT ![c] = "closing"]
        /\ reply' = reply
    BY <1>4 DEF DeliverNothing, Goto
  <2>2. l.cur = 0 /\ l.sent = loc[c].sent /\ l.kind = loc[c].kind
    BY <1>0 DEF Local
  <2> HIDE DEF l
  <2>3. "closing" \in LoopPcs /\ "closing" \notin Answering \cup PlanPcs \cup {"tail"}
    BY DEF LoopPcs, PlanPcs, Answering
  <2> QED
    BY <1>1, <2>1, <2>2, <2>3, FreshLoop
<1>5. CASE Close(c)
  <2> DEFINE l == NextRound(loc[c])
  <2>1. /\ loc' = [loc EXCEPT ![c] = l] /\ pc' = [pc EXCEPT ![c] = "done"]
        /\ pc[c] = "closing"
    BY <1>5 DEF Close, Goto
  <2>2. l.sent = loc[c].sent /\ l.kind = loc[c].kind /\ l.reason = loc[c].reason
    BY <1>0, RoundLocals
  <2>3. \A d \in Calls : d # c => reply'[d] = reply[d]
    BY <1>5 DEF Close, Settle
  <2>4. loc[c].kind # "shell" =>
          reply'[c] = IF loc[c].cur = 0 THEN Without("error") ELSE Returns(loc[c].cur)
    BY <1>5 DEF Close, Settle
  <2>5. Turn(c) /\ reply'[c].as = "message" => FreshFor(msgs', reply'[c].id, loc[c].sent)
    BY <1>1, <2>1, <2>4 DEF Turn, FreshInv, FreshCall, Without, Returns
  <2> HIDE DEF l
  <2>6. /\ loc'[c] = l /\ pc'[c] = "done"
        /\ \A d \in Calls : d # c => loc'[d] = loc[d] /\ pc'[d] = pc[d]
    BY <1>0, <2>1
  <2>7. FreshCall(c)'
    BY <2>2, <2>5, <2>6 DEF FreshCall, Turn, EntryPcs, Answering, LoopPcs, PlanPcs
  <2> QED
    BY <1>1, <2>3, <2>6, <2>7, FreshMoves
<1> QED
  BY <1>3, <1>4, <1>5 DEF Leave

LEMMA FreshShell ==
  ASSUME TypedInv, KindInv, FreshInv, Kept, NEW c \in Calls, ShellRun(c)
  PROVE  FreshInv'
<1>0. /\ loc[c] \in Local /\ loc \in [Calls -> Local] /\ pc \in [Calls -> Pcs]
      /\ reply \in [Calls -> Replies] /\ ctl \in [Calls -> Calls \cup {None}]
  BY DEF TypedInv, LocOK, CoreOK
<1>1. loc[c].kind = "shell"
  BY DEF KindInv, ShellRun, ShellSaveUser, ShellSaveAssistant, ShellExit, ShellFail, ShellPcs
<1>2. PICK to \in {"shellUser", "shellRun", "done", "top"} : pc' = [pc EXCEPT ![c] = to]
  BY DEF ShellRun, ShellSaveUser, ShellSaveAssistant, NewAssistant, ShellExit, ShellFail,
         Released, Goto
<1>3. PICK l : l.kind = "shell" /\ loc' = [loc EXCEPT ![c] = l]
  <2>1. CASE ShellSaveUser(c)
    <3>1. loc' = [loc EXCEPT ![c] = loc[c]]
      BY <1>0, <2>1 DEF ShellSaveUser
    <3> QED
      BY <1>1, <3>1
  <2>3. CASE ShellSaveAssistant(c)
    BY <1>0, <1>1, <2>3 DEF ShellSaveAssistant, NewAssistant, Local
  <2>2. CASE ShellExit(c) \/ ShellFail(c)
    BY <1>0, <1>1, <2>2, RoundKeepsKind DEF ShellExit, ShellFail, Released
  <2> QED
    BY <2>1, <2>2, <2>3 DEF ShellRun
<1>4. \A d \in Calls : d # c => ctl'[d] = ctl[d] /\ reply'[d] = reply[d]
  BY <1>0 DEF ShellRun, ShellSaveUser, ShellSaveAssistant, ShellExit, ShellFail, Released,
     Settle
<1>5. /\ pc'[c] = to /\ loc'[c] = l
      /\ \A d \in Calls : d # c => pc'[d] = pc[d] /\ loc'[d] = loc[d]
  BY <1>0, <1>2, <1>3
<1>6. FreshCall(c)'
  BY <1>3, <1>5 DEF FreshCall, Turn, EntryPcs, Answering
<1> QED
  BY <1>4, <1>5, <1>6, FreshMoves

LEMMA FreshStep ==
  ASSUME TypedInv, KindInv, FreshInv, [Next]_vars
  PROVE  FreshInv'
<1>1. Kept
  BY StepKeeps
<1>2. CASE Abort \/ UNCHANGED vars
  <2>1. UNCHANGED <<pc, ctl, loc, reply, msgs>>
    BY <1>2 DEF Abort, vars, store
  <2> QED
    BY <2>1 DEF FreshInv, FreshCall, Turn
<1> QED
  BY <1>1, <1>2, FreshClient, FreshStore, FreshRound, FreshModel, FreshLeave, FreshShell
  DEF Next, Server, Idle

LEMMA FreshInit == Init => FreshInv
  BY DEF Init, FreshInv, FreshCall, EntryPcs, LoopPcs, PlanPcs, Answering

\* A prompt that is answered by its own turn gets an answer newer than itself,
\* not one of an earlier turn, however the prompts and answers of other calls
\* interleave with its own: loop() returns the newest answer of the store.  The
\* exception is a message whose identifier its client took before that answer:
\* where such a message came last, the loop takes it for answered.
THEOREM RepliesAreFresh == Spec => []FreshReply
<1>1. FreshInv => FreshReply
  BY DEF FreshInv, FreshCall, FreshFor, FreshReply, Overtaken, Turn
<1> QED
  BY <1>1, TypedInit, TypedStep, KindInit, KindStep, FreshInit, FreshStep, PTL DEF Spec
=============================================================================
