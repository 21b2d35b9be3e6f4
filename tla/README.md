# Models of the Kilo Code backend

The repository is a merge of two trees. `src/vscode/` is the upstream VS Code
editor, vendored. `src/kilocode/` is Kilo Code: a command line agent with an HTTP
server (`packages/opencode`), the VS Code extension that starts it and talks to
it (`packages/kilo-vscode`), a web app and packages around them. The program's
own logic, and nearly all of its concurrency, is in the server. This directory
models its core: the agent loop of a session with the tool parts of its answers
and the undo of its changes, the permission requests of its tools, the locks and
checks around the files they edit, the stored JSON files and their read-write
lock, the life of an instance, the queue by which a shared session is sent
upstream, and, on the side of the extension, the connection to the server.

Paths below are relative to `src/kilocode/packages/opencode/src/` unless they
begin with a package name.

## 1. The system

The server is one JavaScript thread. What a handler does between two `await`s is
atomic; at every `await` any other handler may run. State is held in module
variables and in per-directory *instance states* (`Instance.state`), so it is
shared by all requests for that directory; messages and parts are rows of SQLite.
There is no lock but `FileTime.withLock` and `Lock`. Hence the same hazards
everywhere: a check made before an await and used after it, a cleanup that runs
late and acts on its successor's state, and promises held in maps that somebody
must settle.

| component | state it keeps | operations | interacts with | hard about it |
|---|---|---|---|---|
| **Session loop** `session/prompt.ts`, `processor.ts`, `compaction.ts`, `status.ts`, `retry.ts`, `kilocode/plan-followup.ts` | per session: an `AbortController` and a list of waiting callbacks; the status; the messages | `prompt`, `command`, `summarize`, `shell`, `cancel`; rounds of `loop`; stream events | permission, tools, bus, database, provider, questions | queueing behind a running turn, aborts, deferred release, retries, two orders of messages (identifiers and times) |
| **Permission** `permission/next.ts`, `kilocode/permission/*` | pending requests with promises; approved rules; rules in the config file | `ask`, `reply`, `saveAlwaysRules`, `drainCovered`, `Config.updateGlobal` | every tool, config, clients | replies that settle several promises, saves in flight |
| **File times** `file/time.ts`, `tool/edit.ts`, `write.ts`, `read.ts` | per path a chain of promises; per session and path the time of the last read | `read`, `assert`, `withLock`; the steps of the tools | permission, disk | asking the user between check and write, throwing inside the lock |
| **Ingest queue** `kilo-sessions/ingest-queue.ts` | queued items by key with a due time; retry count and pause | `sync`, `flush`, the ends of a request | bus, share server | overlapping requests, retries that must not undo newer updates, giving up |
| **Read-write lock and JSON store** `util/lock.ts`, `storage/storage.ts` | per file a lock object with counts and two lists of waiters; the file | `read`, `write`, `update`, `remove`, release | sharing, diffs | wake-ups, writers first, a lock object deleted and made again, files written in place |
| **Instance lifecycle** `project/instance.ts`, `state.ts`, the end of `Config.updateGlobal` | promise of an instance per directory; states per directory | `provide`, `reload`, `dispose`, `disposeAll`, `resetStateEntry` | everything | requests and boots during a disposal, overlapping disposals |
| **Tool parts** `session/processor.ts`, the callbacks of `prompt.ts`, `tool/batch.ts` | the parts of the tool calls of one answer | stream events, `metadata`, abort, retry, closing | session loop, permission | tools that outlive the stream that started them |
| **Revert, snapshots** `session/revert.ts`, `snapshot/` | the marker of the session, the files | `revert`, `unrevert`, `cleanup` | session loop, disk | repeated undo, lists made before an await |
| **Extension connection** `kilo-vscode/src/services/cli-backend/` | server process, event stream, the state told to the views | `connect`, reconnect, heartbeat, health poll, `dispose` | HTTP server, webviews | a server that dies, a poll that ends late, disposal during a start |
| In-flight cache `kilo-sessions/inflight-cache.ts` | entry per key with a running lookup | call, clear, settle | share client | a cleared lookup that ends late |
| Questions `question/index.ts` | pending questions | `ask`, `reply`, `reject` | tools | as permission, without rules |
| Bus `bus/index.ts` | subscriptions | `publish`, `subscribe`, `once` | everything | publishing awaits subscribers |
| Remote connection `kilo-sessions/remote-*.ts` | websocket, subscriptions | connect, reconnect, commands | sessions | reconnection |
| PTY, worktree, scheduler, MCP, LSP, ACP, control plane, providers, other tools, config, CLI/TUI | see `PROJECT.json` | | | mostly I/O or protocols of libraries |
| Extension views, web app sync, gateway, UI, SDK, docs, desktop | copies of the server's state | event reducers | HTTP server | gaps between streams |
| VS Code tree | | | | third-party, not modelled |

What makes each of the first ones correct:

- **Session loop.** At most one turn works on a session and the state map names
  it, so that an abort reaches it; every turn ends and gives the session back,
  unless the provider or the user holds it up; the status goes out with the last
  turn; a caller gets an answer to its own message; whoever waits is answered.
- **Permission.** No promise is lost when several are settled at once; a tool goes
  ahead only with a reason; rejecting ends all that a session waits for; config
  files are never granted by saved rules; decisions survive in the config.
- **File times.** Edits of a file take turns in order; none overwrites a change
  its session has not read; nothing is left locked.
- **Ingest queue.** What the queue was given last of an entity is not lost while it
  can still be sent, nor overtaken by what is sent again; pauses are kept; failures end.
- **Lock and store.** Writers exclude everybody, writers that wait go before
  readers, nobody waits on a free lock; a read finds a whole file; an update
  builds on what the file holds.
- **Instance.** Every state that was made is disposed of once; requests find the
  newest instance; after a pass of `disposeAll` nothing has the configuration from
  before it; the pass ends.
- **Tool parts.** No part is left pending or running when the answer is stored; an
  outcome is not overwritten; a rejection stops the loop, unless the context is full;
  an abort ends it.
- **Revert.** The files are those that the messages in sight led to; redo brings the
  files back; what is not undone is never deleted.
- **Connection.** One server and one loop; the views are told the state of the
  stream there is; nothing lives on after disposal; a lost stream comes back.

The hazards of the code, line by line, with the properties that watch them, are
in `PROJECT.json`.

## 2. Modules

| module | models | role |
|---|---|---|
| `SessionLoop` | one session, all calls made to it | component |
| `SessionLoopProofs` | | theorems about it |
| `Permission` | the permission service of one instance, with the config file | component |
| `PermissionProofs` | | theorems about it |
| `FileTime` | one file, the tools that use it | component |
| `FileLock` | what `withLock` promises | abstract specification, implemented by `FileTime` |
| `IngestQueue` | the queue of one shared session | component |
| `IngestQueueProofs` | | theorems about it |
| `Storage` | one stored file and its lock object | component |
| `ReadWriteLock` | what callers expect of `Lock` | abstract specification, implemented by `Storage` |
| `StorageProofs` | | theorems about them, the refinement among them |
| `Instance` | the instances and states of the directories | component |
| `InstanceProofs` | | theorems about it |
| `ToolParts` | the tool parts of one run of `process()` | component |
| `ToolPartsProofs` | | theorems about it |
| `Revert` | undo and redo of one session | component |
| `UndoRedo` | what undo and redo promise | abstract specification, implemented by `Revert` |
| `FilesProofs` | | theorems about `FileTime` and `Revert`, their refinements of `FileLock` and `UndoRedo` |
| `Connection` | the connection of the extension to its server | component |
| `ConnectionProofs` | | theorems about it |
| `MC...` | | values of constants and symmetry for TLC |

Definitions named `Mut...` are mutated copies of the definition that follows
them. They are used by no specification: replacing the definition by its copy
must make TLC report the property that `PROJECT.json` pairs it with, which shows
that the property can fail.

### SessionLoop

`Calls` are the HTTP calls that clients make; each is a process with a program
counter. An action is what one call does between two awaits.

- `entry` and `callbacks` are `state()[sessionID]` of `prompt.ts:82`: whose
  `AbortController` the map holds, and who waits on it. `ctl[c]` is the
  controller whose signal call `c` looks at, `aborted` the controllers that are
  aborted. `status` is `SessionStatus`, `msgs` the stored messages.
- A message has an identifier, by which the loop tells whether the newest user message
  is answered (`prompt.ts:366`), and a time, by which the stream of messages is sorted
  (`message-v2.ts:806`) and "newest" is meant. The server takes both at one moment for
  the messages it makes. A client may choose the identifier of its message before it
  sends it, as the terminal UI does (`Compose`, if `ClientIds`); the time is the
  server's (`Submit`). `nextId` is the one clock of both.
- A call starts with `Submit`, `SaveMessage`, `SaveParts` (`createUserMessage`: the time
  is taken first, the message is stored later, its parts after it) or `Summarize`
  (`SessionCompaction.create` takes identifier and time as it stores the message), and
  goes on with `StartLoop` or `QueueBehind` (`loop()` with or without an entry).
- A round of the loop is `BeginStep` (status busy, abort check), `LeaveLoop` or
  `TakeStep` (the history is read; what to do), then one of `StartAnswer`,
  `StartSummary`, `StartSubtask`, `PreCompact`, or `Throw`.
- Where a tool ran since the last user message it may have been `plan_exit`, and then a
  loop about to leave asks the user about the plan (`PlanFollowup.ask`): `AskPlan`,
  `ResolvePlan` (no text, or the question is put), `DismissPlan` (also for a new session,
  which is another session's affair), `ContinuePlan` (a message is stored and the loop
  goes round again), and `RejectPlan` for the abort, which is heard only if it comes
  after the question: else the call is `unheard` and waits for the user.
- The model call is `StreamStart`, `FinishStep`, `StreamEnd`, `StreamFail`,
  `StreamOverflow`, `StreamRetry`/`RetryWake`, and `AnswerReturns` or
  `SummaryReturns`. What the model answers is a nondeterministic choice.
- `Deliver` returns the newest answer to all waiting calls; `Close` runs after
  the subscribers of `TurnClose` were awaited and performs the deferred `cancel`.
- Shell commands are `ShellStart` .. `ShellExit`, with `Released` for the deferred
  block that frees the session or resumes a loop for the waiting calls.
- `Abort` is the abort route.

Without a limit on retries (`RetryLimit = Unlimited`, the default) no count is kept,
since nothing but the length of the pause depends on it.

Left out: text, tools inside an answer (`steps` counts the answers that end with tool
calls; `ToolParts` has the tools), titles and summaries computed beside the loop,
structured output, undo (`Revert` has it), deletion and disposal of the instance; clocks
of client and server that disagree, and two messages of the same millisecond.

### Permission

`pending` with `outcome` are the map of pending requests and their promises;
`approved` is what the list of approved rules says of each pattern (the last
match decides, so the list is kept by its effect); `config` is the permission
part of the global config file. A rule, a permission with a wildcard, is the set
of patterns it matches. `Ask`, `Reject`, `Once`, `Always`, `SaveRules`,
`SaveNoRules` are the routes; `ReadConfig` and `WriteConfig` are the two halves of
`Config.updateGlobal`, between which other handlers run. `Drain` is
`drainCovered`, which runs after the write.

### FileTime and FileLock

`slot` is the map entry `locks.get(path)`, `ahead[c]` the promise the call found in
it, `released` the promises that are resolved; `read` and `disk.mtime` are the
times that `assert` compares. Edits run `Queue`, `EnterEdit` (or `EnterCreate` when
nothing is replaced), `Load`, then the user is asked: `Refused` or `Write`, and
`Update`. `write` runs `LoadWrite`, `CheckWrite`, `Write`, `Update` with no lock,
`read` runs `Read`, `Update`. A throw anywhere goes through `Unlock`, the `finally`
block. What the file holds is named after the call that wrote it.

`FileLock` says what callers expect of `withLock`: a line of waiting calls, one
holder, first come first served, no starvation. `FileTime` maps to it (`TurnsInOrder`):
its history variable `line` has the calls that wait, in the order in which they
asked, and `LeaveLine` takes a call out when it enters, wherever it stands. That the
line is served from its head is what the chain of promises has to bring about.

### IngestQueue

`data` and `due` are the queued items and their flush time, `retry` the failure
count and pause, `request[q]` what a request in flight carries. Times count down
to 0. Callers read an entity and call `sync`, which awaits its client, some after they
awaited other data for the same call: `Read` is the reading, of which each entity has
`version` many, and `coming` what was read and has not reached the queue. `Sync` gives
it to the queue, in any order, or `Skip` drops it, as there is no client; `given` is what
the queue was given last. `Flush` is the timer, and `Unsent`, `Answered` and `Failed`
the ways a request ends. The timer does not wait for a request in flight, so
requests overlap here as they do in the code.

### Storage and ReadWriteLock

`lock` is the entry of the file in the `locks` map of `util/lock.ts`, an object
with the counts `readers` and `writer` and the two lists of waiters, or nothing.
`ReadLock` and `WriteLock` take it or join a list; `Release` lowers the count,
hands the lock on (`Process`: the next writer or all readers, whose continuations
raise the counts) and deletes the object when nobody is left. The operations
are those of `storage.ts`: `read` (`StartRead`, `EndRead`), `write` and `update`
(`StartWrite`, then `Load` or `FailLoad`, `Truncate`, `Fill` or `FailWrite`), `remove`,
which takes no lock, and `derive`, the callers that read, release, wait and write
what they made of it (`WriteMade`, `DropMade`). Writing is two steps because
`Filesystem.write` truncates and then fills in place. `Crash` is the death of the
process: the map of locks and the callers go, the file stays as it is.

`ReadWriteLock` has a line of writers, a crowd of readers and who is inside.
`Storage` maps its counts and lists to them (`LockIsShared`).

### Instance

`cache` is the map of instance promises, `boots` every instance that was ever
asked for; `records` and `maps` are the states of `state.ts`, per directory the map
of what was made (`made`), what was made while the directory was already being
disposed of (`late`) and how often each dispose function ran (`runs`). `Provide`,
`Use`, `Booted` and `BootFails` are a request, a state made on first use, and the
ends of a boot. `StateDispose` (which collects the dispose functions), `Task` and
`DropMap` are the three stretches of `State.dispose`; `StartDispose`/`EndDispose`
are `reload` and `dispose`, `BeginPass`, `Walk`, `Awaited`, `EndPass` are
`disposeAll`, which callers join while it runs. `WriteConfig`,
`ResetStateEntry` and `DisposeForConfig` are the end of `Config.updateGlobal`.

### ToolParts

One run of `SessionProcessor.process()`. The AI SDK, which calls the model, starts
tools and puts their outcomes into the stream, is outside the repository: `Announce`,
`Call`, `FinishStep`, `StreamFails` and `End` say what it does as far as the code
relies on it. The processor reads the stream event by event (`ReadInputStart`,
`ReadCall`, `ReadResult`, `ReadError`, `ReadFinish`, `ReadFailure`, `ReadAborted`), sends a
failed request again after a pause (`Wake`) and closes what is open (`Close`). Beside
it, a tool reports metadata (`Metadata`) and a batch stores parts of inner calls
that no processor knows (`InnerStart`, `InnerEnd`). `toolcalls` is what the processor
remembers, `part` and `inner` what is stored. `overruled` is history: the batches an
inner call of which was rejected, which is a failed inner part and nothing else.

### Revert and UndoRedo

A piece of `history` is a step of an answer that changed files, with the snapshot
from before it; the set of pieces is ordered by their identifiers. The files may be
anything at first (`origin`). `Revert`, `Find`, `Track`, `UndoFile`, `SetRevert` are `revert` with
`Snapshot.revert`, `Unrevert`, `Restore`, `ClearRevert` are `unrevert`; `Prompt`, `Shell`,
`Delete`, `EndCleanup`, `Save` are the calls that make an undo final, by the list
they made when they began. `TakeStep` is a step of the answer of a turn. The
variables `intact`, `raced` and `astray` are history: the files before the first undo,
whether an undo or redo met another call, whether a redo left the files other
than the messages say.

`UndoRedo` says what a user expects: a line of steps, a mark in it, and the files that
the steps before the mark led to. `Undo`, `Redo` and `Take` are one step each, `Drop` and
`Settle` make an undo final. `Revert` implements it (`UndoIsOneStep`): the mark is the piece
of the marker; the files are the project's, but while an undo is at work those from
before it (`Shown`); so an undo counts when `SetRevert` stores the marker, a redo when
`ClearRevert` removes it. After `raced` or `astray` nothing is promised (`Break`).

### Connection

Each run of `doConnect` has a number, which its adapter and the process it may start
share. `StartServer`, `Started`, `StartFails` and `ConnectAgain` are `connect` with
`ServerManager.getServer`; `Exit` is a server that dies. `loop` is where the
`consumeLoop` of an adapter stands: `StreamOpens`, `StreamEnds` (by itself or by the
heartbeat timer), `Again` after the delay, `LoopEnds` once its signal is aborted.
`Poll`, `Healthy`, `Unhealthy` are the health timer and the ends of its request, and
`Dispose` is the end of the service. `Tell` is what reaches the views.

## 3. Runs

| run | question | bounds | states |
|---|---|---|---|
| `session_turns` | do status, answers and locals stay consistent across turns? | 2 calls of kinds prompt, command, summarize, identifiers chosen by clients or not; any 2 of 1 abort, 1 tool round, 1 overflow; 6 messages; symmetric | 990 k |
| `session_shell` | do the state map and the turns agree, and who aborts, when shell commands and prompts mix? | 3 calls, prompt, noReply and shell; 1 abort, 1 throw; 5 messages; symmetric | 650 k |
| `session_liveness` | does every turn end, is every waiting call answered? | 2 calls, prompt and shell; any 2 of 1 abort, 1 tool round, 1 overflow, 1 throw; retries and messages without limit, plan follow-ups; fairness | 410 k |
| `session_lost_waiter` | (violation) does every prompt return? | 2 prompts, nothing goes wrong; fairness | |
| `permission` | are promises settled once, with a reason, and rules applied as promised? | 3 requests of five shapes from two sessions, 2 config updates; symmetric | 1.0 M |
| `file_edit` | do edits take turns in order and lose no locked change, and do they end? | 3 calls of 2 sessions with 4 tools, 2 ticks of the clock; fairness | 230 k |
| `ingest_sync` | are pauses kept, is what the queue was given last kept and sent in turn, and does syncing end? | 2 entities read 3 times each, readings that overtake one another, 2 requests at once, a retry budget of 2; fairness | 990 k |
| `storage` | does the lock object implement a shared lock, do operations keep the file, does nobody starve? | 3 callers with 5 operations again and again, 1 death of the process; fairness | 96 k |
| `instance` | are states disposed of once, is the newest instance cached, does a pass leave nothing old and end? | 1 directory, 2 requests and the pass, 1 state besides the configuration, 3 versions of it; fairness | 410 k |
| `tool_parts` | are parts closed, outcomes kept, rejections final where they should be, aborts obeyed? | 2 tool calls, one a batch with an inner call; 1 retry; fairness | 170 k |
| `connection` | one server, one loop, the right state told, streams taken up again? | 4 runs of `doConnect`; fairness | 12 k |
| `revert` | do files and messages agree through undo and redo, is only what is undone deleted, is each undo one step of `UndoRedo`? | 2 clients, 2 files, 2 steps that change them, any files at first; symmetric | 3.0 M |

Why the bounds are enough. The races of the session loop need a turn that ends,
a second call, and one event (an abort, a throw) between them; a third call is
needed only for the mix of a shell command, a turn begun after it was aborted and
a call waiting on that turn, which is what `session_shell` has. `MaxMessages` stops
two loops that run at once from feeding each other new messages for ever. With
shell commands and three calls a bound of five messages lets each of two turns
store its prompt and its answer. `MaxEvents` bounds aborts, tool rounds, overflows and
throws together: two of them let any one come before, within or after another. In
`session_liveness`, whose `MaxMessages` of 30 no run of two calls reaches, they are what
keeps the model's answers from going on for ever. Three permission requests let one reply settle
another request of its session while a third is of the subagent. Three calls on
a file let one wait while another leaves and a third arrives, the case in which
deleting the slot could go wrong. Two keys let an update meet a retry that carries
the other key as well; a budget of two, where the code has six, exercises counting
and giving up. Three callers of `Storage` are a holder, a waiting reader and a waiting
writer, and they call again without a bound. Two requests and the pass are the two
disposals that overlap and the boot in between; with three versions of the
configuration it can change before and during a pass. Directories share nothing but the
pass. Two tool calls are one that rejects and one that reports after it; one retry
leaves tools of a failed attempt behind. Four connects let a first server die, a
second fail to start, and a third be disposed of or replaced while the health
request to the first is under way. Two steps and two clients are the least with
which undo goes back twice, redo comes half way, and a prompt cleans up beside
another.

The code's constants appear as constants: the retry limit of the model call
(`RetryLimit`, or `Unlimited`), the 50 ms a file may be newer than its last read (`Tolerance`), the
retry budget of the queue (`Budget`, 6 in the code), and whether a rejection stops the
loop (`ShouldBreak`, unless `experimental.continue_loop_on_deny` is set).

**Deadlock.** TLC checks it for `SessionLoop`, where `Idle` names the states in
which nothing is left to do, and for `Storage` and `Revert`, whose clients can always
call. It is switched off where the system may stop: all calls of `FileTime` and all
requests of `Permission` may be over, the queue is empty when nothing changes, every
request of `Instance` ends, an answer is finished, a service is disposed of.

**Fairness.** `SessionLoop`: weak fairness of `Server(c)`, all that a call does once
it was made; each await of the code ends by itself (a query, a stream with
timeouts, a process). None for clients and users: nobody has to call, abort or answer the
question about a plan (`User(c)` is not in `Server(c)`), and the provider may ask for another
try for ever. So `EveryTurnEnds` and `WaiterIsAnswered` say what is left to say: a turn
ends unless it is `Held`, that is, it comes to wait for the provider or the user again
and again, not being aborted. That a model stops calling tools by itself is assumed,
not shown (`MaxSteps`, `MaxOverflows`). `FileTime`:
weak fairness of `Step(c)`, which includes the user's answer to a permission
request; a user who never answers keeps the lock. `IngestQueue`: time passes,
timers fire, requests end one way or another, and so does the wait for the client. `Storage`: weak fairness of `Step(c)`,
reads and writes of files end. `Instance`: weak fairness of `Progress`, boots, requests
and dispose functions end, well or badly; the code awaits them without a timeout,
though a warning after ten seconds says that they sometimes do not. `ToolParts`: weak fairness of the
processor alone; neither the provider nor a tool nor the user has to go on, and
`AbortEnds` leaves out the wait for a permission, which an abort does not end.
`Connection`: weak fairness of what the adapters do by themselves, and strong
fairness of a stream that opens, since an attempt at a living server may be cut off
again and again but not for ever. `Permission` and `Revert` have no liveness property:
whether users answer or redo is up to them.

### What the runs show

Holding: the state map names the live turn and always has a call that will free
it; turns end, and waiting calls are answered, unless the provider or the user holds
a turn up, in spite of any two of a tool round, a compaction, a throw and an abort that
meet them; a turn that is not interrupted returns an answer newer than its message, or
one that overtook it, or a message sent after it, on its way to the server; the status is idle once the
last loop is over, although aborted loops still set it; turns are aborted by
others only once a client aborted; every grant of a permission has a reason and no
promise is lost; saved rules settle all that they cover and spare config files;
edits take turns in order and lose no locked change; while requests do not overlap,
failed items never push aside what the queue was given since, and a request carries what
the queue was given last; the
read-write lock, made and deleted as it is, excludes, passes in order and forgets
nobody; states are disposed of once, and a pass leaves no old configuration; no part
stays open, and a rejection stops the loop unless the context is full; undo and redo give the files back, each
as if in one step; one server and one loop,
however connects and deaths interleave.

Violated, by what the code does:

- `EveryPromptReturns`: `loop()` hands its answer to the waiting calls and then
  awaits the subscribers of `TurnClose`; a prompt that arrives in that window waits
  on an entry that the deferred `cancel` deletes, and never returns
  (`prompt.ts:304-319`, `802-813`). An abort or a throw orphans waiting calls too.

Behaviour a reader should know, which the properties are worded around. In each
case the model has the behaviour and the property names the case it leaves out:

- The deferred `cancel(sessionID)` (`prompt.ts:315`) does not check whose entry it
  deletes: an aborted turn that winds down late aborts the turn after it.
  `AbortsBeginWithAClient` says that it takes a client's abort to begin such a chain.
- A shell command that was aborted and ends while a newer turn has waiting calls
  resumes a second loop on that turn's entry: two loops run on one session
  (`OneLiveLoop` names the case and only says that there is no other), and each can keep
  the other going.
- A prompt's identifier is taken long before it is stored, by the client even before
  it is sent (`prompt.ts:1058`, `cli/cmd/tui/component/prompt/index.tsx:549`), while the
  stream of messages is sorted by the time the server took (`message-v2.ts:806`). An answer
  finished in between has the higher identifier: the message counts as answered
  (`prompt.ts:366`), and its call, interrupted by nobody, returns an answer that is older
  than it. `FreshReply` names the case (`Overtaken`) and says that there is no other.
- A provider that asks for another try is asked again without limit, unless
  `KILO_SESSION_RETRY_LIMIT` is set (`processor.ts:417`, `flag/flag.ts:62`).
- Where a plan was handed over, the loop asks the user and waits, and the calls queued
  behind it wait with it (`prompt.ts:371`). An abort rejects the question, but the signal is
  listened to only once the question is put (`kilocode/plan-followup.ts:245`): an abort
  while the plan's file is read leaves the question up and the turn waiting.
- A turn aborted before its first model call returns the newest answer there is,
  which belongs to an earlier prompt (`FreshReply` leaves out interrupted turns).
- A failed manual summary ends its turn with the reason "completed".
- "Always" on an ordinary edit approves `*` for edits and grants the waiting edit of
  a config file of the same session (`permission/next.ts:323`), which the drain
  beside it never does (`kilocode/permission/drain.ts:29`).
- Two updates of the global config in flight overwrite each other (`config.ts:1649`).
- A request with several patterns is judged by the first that is not simply allowed;
  a later pattern that a rule denies can be granted by reply.
- The write tool does not take the lock (`tool/write.ts:45`; `file/time.ts:9` says
  that all tools that overwrite existing files should), so an edit that waited for its user can
  overwrite what it wrote.
- Two requests in flight that fail, the older first, leave the older version in the
  ingest queue and drop the newest (`ingest-queue.ts:166`).
- `sync` awaits its client and then queues what its caller read before, some callers
  having awaited other data as well (`kilo-sessions/kilo-sessions.ts:148`, `486`;
  `ingest-queue.ts:295`). A reading that comes late takes the place of a newer one in the
  queue, or is sent after it; without a client the update is dropped. So the properties
  of the queue are about what it was given last, not about what is newest.
- `remove` takes no lock, and callers that read, wait and write back lose what was
  written meanwhile. A process that dies while it writes leaves a file that cannot be parsed.
- A state made while its directory is being disposed of is dropped undisposed, and
  two disposals that overlap call each dispose function twice (`state.ts:74`).
- A call that joins a running `disposeAll` returns when that pass ends, though the pass
  began before the configuration changed (`instance.ts:132`).
- A tool that outlives an aborted answer and reports metadata puts its part back to
  running (`prompt.ts:848`); a rejection among the tools of an attempt that failed and
  was sent again is lost.
- When an answer fills the context, `process()` returns "compact" before it looks at
  rejections (`processor.ts:479-480`), and the loop compacts and goes on over the
  rejection (`prompt.ts:791-800`), although rejecting without a message is said to halt
  execution (`permission/next.ts:381`). A rejection of an inner call is swallowed by the
  batch (`tool/batch.ts:109`). `RejectionStopsUnlessFull` says both. A denial by rule
  is an error like any other to the processor (`processor.ts:248`).
- A redo to a later message (`cli/cmd/tui/routes/session/index.tsx:593`) brings
  no file back, and `unrevert` does not remove files that its snapshot lacks.
- `revert` looks whether the session is idle before its awaits (`revert.ts:25`); a prompt
  that starts meanwhile works on files that are being put back.
- A service disposed of while its server starts goes on to connect, and the server
  outlives the extension (`connection-service.ts:320`).

## 4. Proofs

The theorems hold for all values of the constants that satisfy the assumptions
named in the component modules; `tlapm` checks every step.

- **SessionLoopProofs.** `SessionType`: `TypeOK` is an invariant. What needs an argument
  is that the newest and the oldest message of a set exist, which `CHOOSE` picks:
  the inductive invariant `TypedInv` adds that every stored message is older than
  the next tick of the clock, so a non-empty set of messages has a greatest time
  (from the well-foundedness of the naturals) and a least one.
  `EntryMatchesTurns` (from `LiveCallIsHeld` and
  `EntryHasOwner`): `LiveCallHoldsEntry` and `BusyHasOwner`, the two halves of
  `EntryFollowsTurns`, are invariants. They are not inductive: the inductive invariant
  `HoldInv` adds that a queue hangs on an entry (`QueueHasEntry`; a resumed shell
  command takes the entry it finds) and that an active call watches some
  controller (`ActiveHasController`; an absent entry is nobody's). `Cancel` is the
  only step that empties the map, and it aborts what it takes out: so even the
  late cancel leaves no live call without an entry.
  `StatusHasLoop`: `NonIdleHasLoop` is inductive with the type of `pc`, since only
  calls in the loop set the status and whoever leaves the loop puts it out.
  `TurnsExclude`: `OneLiveLoop` follows from `HoldInv` and from `KindInv`, that all but
  shell commands work under a controller of their own.
  `TurnsAbortThemselves`: `AbortsBeginWithAClient` follows from `OwnInv`, that as long
  as no client aborted, whoever is aborted is done and whoever is at work watches
  its own controller, so that the release it defers aborts itself.
  `NothingImpossibleHappens` (from `ReadFindsUser` and
  `TailFindsAnswer`): `NeverEmptyRead` and `TailHasAnswer` are invariants.
  `HistoryInv` says from where on a call knows that a prompt is stored (`Prompted`) and from where on an answer (`Answering`), and that
  somebody has a prompt stored if anybody waits, which is what a resumed shell
  command reads. No step takes the last message of a role away (`StepGrows`).
  `RepliesAreFresh`: `FreshReply`. `FreshInv` follows a turn of its own through its rounds:
  a prompt of its time (`sent`) stays stored; while it answers, its answer (`cur`) is
  stored and newer; when it left its loop uninterrupted, some answer is fresh
  (`FreshFor`): newer than the prompt, or one that overtook it or a later one. It is so
  because the turn wrote it (`WrittenIsFresh`), or because the newest answer has an
  identifier above that of the newest prompt, which is no older than its own: either it
  is newer than that one too, or it overtook it (`AnsweredIsFresh`). If some answer is
  fresh so is the newest (`NewestIsFresh`), which is what the turn returns. No step of any
  call takes a message away or changes its identifier or time (`Kept`, `StepKeeps`). Nothing
  is assumed of the identifiers clients choose but that they took them before.
- **PermissionProofs.** `NoPromiseIsLost`: a promise waits exactly as long as its
  request is listed. `GrantsAreJustified`: the action property that a tool goes ahead
  on a reply to its own request or on rules that allow all of its patterns. Both
  rest on `Shape`, which adds the types of `pending` and `outcome` to the first.
  `ConfigFilesNeedReply`: `SavesSpareConfigFiles`, from `Shape` and `Answered`: who was
  answered is granted already, so a step that grants a config file either adds an
  answer or is a drain, which spares it. `SavedRulesSettleAll`: `SavesLeaveNoCovered`,
  from `SaveInv`: besides `Shape` and the types, a save that is to drain is under way
  until the step that writes, and that step drains; so what a save leaves pending is
  what the drain leaves. `PermissionType`: `TypeOK`.
- **FilesProofs**, about `FileTime`. `LockSound` (with `LockAdmitsOne` and
  `LockLeavesNothing`), `FileTimeType`, `LockedEditsLoseNothing`. The chain of promises is
  described without recursion: there is a numbering of the
  calls at work in the lock in which each call stands one after the call it waits
  for, the slot holds the last, and only the first can be inside. Every step either
  appends a call or removes the first. From that, while a call with the lock has
  read the text and not yet written, only calls without the lock can have written.
  `TurnsAreKept`: every step is a step of `FileLock` or leaves it alone, the safety
  part of `TurnsInOrder`. `Linked` ties the line to the promises: the line
  names each queued call once, each call of it waits for the promise of the one before
  it, and the slot holds the last. So only the first of the line may enter, and with
  `LineInv` it finds nobody inside.
- **FilesProofs**, about `Revert`. `UndoKeepsFiles`, `RedoGivesBack`, `OnlyUndoneGoes` are
  `FilesMatchMessages`, `UnrevertGivesBack` and `OnlyUndoneIsDeleted`; `UndoType` is the type
  invariant. `FilesProofs` extends both modules, so the names of `Revert` differ
  from those of `FileTime` (`RevertSpec`, `at`, `tree`). The inductive invariant `UndoInv` says, until an undo meets another call: it is the only call at
  work and the session is idle, and from the moment a prompt stores its message
  nothing is undone (`Alone`); what a cleanup has listed and not deleted is what is
  undone, also for a second prompt whose list is older than the cleared marker
  (`Doomed`); the snapshot of the marker is the files before the first undo, through
  every undo that follows (`Saved`). And, until a redo goes astray, `Agrees`: each
  piece knows what the pieces before it led to (`Chained`), the snapshot has what
  all of them led to (`Whole`), and while an undo puts files back, a file holds what
  the pieces left in sight led to or the plan has it (`Planned`). That the oldest patch
  of a file is the right one is `WantedIs`: a file that no piece between two points
  names is the same at both (`Untouched`, by the least counterexample).
  `UndoRefines`: `Revert` implements `UndoRedo`. Steps that leave the pieces and the marker
  alone are stutters, since the files shown are those of the messages in sight before
  and after (`ShownIsTold`); the others are mapped one by one (`SetRevertIsPromised`, ...). It
  takes one more invariant, that the piece an undo goes back to stays stored (`Aimed`).
- **IngestQueueProofs.** `IngestType`, `FlushWaitsForBackoff`, `LastGivenKeptInTurn`,
  `RetriesSendLastGiven`. For the last two, `InTurn` says that until requests overlap at
  most one of them carries items, that what is queued is what the queue was given last
  of its entity, and that what is in flight is so too unless something given since is
  queued behind it. A flush therefore sends what was given last, of what it sends again
  too (`FlushSends`). Nothing is assumed of the order in which readings arrive.
- **StorageProofs.** `StorageType`, `LockExcludes`, `NobodyIsForgotten`, `ReadsFindWhole`,
  `UpdatesLoseNothing` and the refinement `LockRefines`. The inductive invariant
  `StoreInv` is `LockInv /\ FileInv`. `LockInv` ties the lock object to the callers:
  its counts are the numbers of readers and writers inside, its lists name each
  waiting call once and nobody else, a writer is alone, nobody waits without
  somebody inside, and the object is there exactly while somebody is inside. The
  numbers are cardinalities, so each step needs the lemmas on adding a caller to a
  finite set and taking one away. `FileInv` says whose work an unwhole file is and
  that an update still has what the file holds. For the refinement each action is
  mapped to one of `ReadWriteLock`: a release to the hand-over, a crash to the reset
  of both, everything done to the file to a stutter.
- **InstanceProofs.** `InstanceType`, `CacheHoldsNewest`, `StatesAreDisposedOnce` and
  `NothingStaleIsLeft` are `TypeOK`, `CachedIsNewest`, `EachIsDisposedOnce` and
  `PassLeavesNothingStale`. `TypedInv` adds to the types what each place of a request
  refers to (`PlacesOK`): a boot that was made, a map that was made. `HoldsNewest` adds to
  `CachedIsNewest` that an instance is cached for its own directory only (`OwnCache`), so
  that a boot that fails empties the entry it would be in. `DisposeInv` is about the
  dispose functions of a map: maps and disposals belong to their directory (`OwnMaps`);
  a disposal is still to call, or called, whatever is not late in the map its directory
  has (`AllAreCalled`); a map that no two disposals shared had each run at most once
  (`RunOnce`), for which sharing has to be noticed (`SharedIsMarked`), what is still to be
  called must not have run (`PendingNotRun`), and a map nobody disposes of must have had
  none run (`RestIsClean`). `PassInv`: an instance the pass began with is still to be
  walked, in hand or settled, and settled as soon as it is no longer cached; settled is
  one whose boot failed or whose directory holds no configuration older than the pass.
- **ToolPartsProofs.** `ToolType`, `AllIsClosed`, `RejectionsStop`, `OutcomesAreKept`. The
  inductive invariant `ToolInv` follows the calls of the request at work through the
  stream. `InOrder`: the events about a call stand in the queue in their order, once
  each, and each fits what is stored of the call. `Complete`: an outcome was read and
  stored, is in the queue, or the stream failed; a tool that goes on has its call
  read or in the queue. `Finished`: when the step finished, all outcomes were read.
  `Remembered` says that until the answer is closed the stored part is what the
  processor remembers, and that afterwards only a tool that outlives it writes.
  `BlockedByCall` says that the loop is only ever blocked by a rejected call of the
  answer itself, never by one within a batch, so that without one the verdict is "stop"
  only after a failure (`RejectionsStop`).
  Each step appends one event or reads one (`EmitStep`, `ReadStep`).
- **ConnectionProofs.** `OneOfEach`, `StateIsTold`, `DisposalIsWhole`, `ConnectionType`. The
  inductive invariant `ConnInv` adds to the properties that all runs of `doConnect`
  but the last are over, so that a start belongs to the newest one (`RunsInTurn`),
  that only the adapter there is has handlers (`OneIsHeard`), that its loop decides
  the state (`SaidByAdapter`), and what disposal leaves (`DisposedAll`).

Each property was checked by TLC in a run before it was proved.

Only model-checked: the liveness properties (`EveryTurnEnds`, `WaiterIsAnswered`,
`EveryCallEnds`, `SyncingEnds`, `NobodyStarves`, `PassEnds`, `AbortEnds`, `StreamIsWatched`, and the
fairness that `FileLock` asks for in `TurnsInOrder`): weak and strong fairness and ENABLED
are outside the prover's reach. Every safety property of a run that is expected to
hold is a theorem.

## 5. Plan

Done, in this order: `SessionLoop`; `Permission`; `FileTime` with `FileLock`; `IngestQueue`;
`Storage` with `ReadWriteLock`; `Instance`; `ToolParts`; `Connection`; `Revert`; theorems
about all of them, the three refinements among them (`FileLock`, `ReadWriteLock`,
`UndoRedo`).

What would come next: `Instance` composed with `SessionLoop`, where a disposal aborts the
sessions of its directory; `Question` beside `Permission`; the reconnection of the remote websocket; the edits of `apply_patch` over several files.

## 6. Not modelled, and why

The content of messages, prompts and model answers; pattern matching of wildcards
(rules are sets of patterns); parsing and writing of config files; the replacement
algorithms of `edit.ts`; files changed by programs outside, created or removed
during a call; the share server's copy of a session; process crashes between two
database writes (SQLite recovers single writes, and nothing resumes a turn after a
restart). Of sessions: clocks that disagree, and messages of the same millisecond; the
session a user starts with a plan. Of permissions: an update of the global config that
fails, after which the rules are in force and nothing is drained. Of the store: `list` and the migrations, which run once before the first
operation. Of an answer: text and reasoning parts and calls the provider executes
itself. Of undo: what shell commands change, git commands that fail, pruned
snapshots. Of the connection: what events carry, and calls of `connect` after the
disposal. The in-flight cache is one map whose hazard costs a second lookup.
Components that are mostly I/O or views are listed with their reasons in
`PROJECT.json`, and the vendored editor, by far the largest part of the tree, is
third-party.
