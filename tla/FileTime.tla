------------------------------- MODULE FileTime -------------------------------
(***************************************************************************)
(* The tools of several sessions reading and changing one file: the time   *)
(* each session last read it, the check that it is not changed unread, and *)
(* the lock by which edits take turns                                      *)
(* (packages/opencode/src/file/time.ts, tool/edit.ts, write.ts, read.ts).  *)
(*                                                                         *)
(* Locks and times are kept per path, so one file stands for each.  What   *)
(* the file holds is named after the call that wrote it.                   *)
(***************************************************************************)
EXTENDS Naturals, Sequences

CONSTANTS
  Calls,      \* the tool calls of a run
  Sessions,   \* the sessions that make them
  Tools,      \* the tools a run lets them call
  None,       \* no call; also what the file holds at first
  Tolerance,  \* ticks a file may be newer than the time it was read (50 ms)
  MaxTime     \* bound: ticks of the clock

ASSUME NoneAssumption == None \notin Calls
ASSUME ToolsAssumption == Tools \subseteq {"edit", "create", "write", "read"}
ASSUME TimeAssumption == Tolerance \in Nat /\ MaxTime \in Nat \ {0}

VARIABLES
  call,      \* the tool a call runs and the session it belongs to
  pc,        \* where its execution stands
  slot,      \* locks: the call whose promise new calls wait for
  ahead,     \* currentLock: the call whose promise this call waits for
  released,  \* the calls that resolved their promise
  seen,      \* contentOld: what the call found in the file
  disk,      \* the file: what it holds and when it was written
  read,      \* read: when a session last read the file, 0 if it never did
  now,       \* the clock
  line       \* history: the calls that wait for the lock, as they asked for it

vars == <<call, pc, slot, ahead, released, seen, disk, read, now, line>>

Pcs == {"new", "queued", "load", "check", "ask", "update", "done"}

\* The tools that run inside withLock: edit, with an empty oldString "create".
Locks(c) == call[c].tool \in {"edit", "create"}

Init ==
  /\ call \in [Calls -> [tool : Tools, session : Sessions]]
  /\ pc = [c \in Calls |-> "new"]
  /\ slot = None
  /\ ahead = [c \in Calls |-> None]
  /\ released = {}
  /\ seen = [c \in Calls |-> None]
  /\ disk = [content |-> None, mtime |-> 1]
  /\ read = [s \in Sessions |-> 0]
  /\ now = 1
  /\ line = <<>>

Goto(c, l) == pc' = [pc EXCEPT ![c] = l]

\* assert: the session read the file, and nobody wrote it since.
Fresh(s) == read[s] # 0 /\ disk.mtime <= read[s] + Tolerance

(***************************************************************************)
(* withLock.  A call waits for the promise of the call before it, and      *)
(* leaving, normally or by a throw, resolves its own.                      *)
(***************************************************************************)
\* Mutant: the promise is only stored if the path has none.
MutQueue(c) ==
  /\ Locks(c) /\ pc[c] = "new"
  /\ ahead' = [ahead EXCEPT ![c] = slot]
  /\ slot' = IF slot = None THEN c ELSE slot
  /\ line' = Append(line, c)
  /\ Goto(c, "queued")
  /\ UNCHANGED <<call, released, seen, disk, read, now>>

Queue(c) ==
  /\ Locks(c) /\ pc[c] = "new"
  /\ ahead' = [ahead EXCEPT ![c] = slot]
  /\ slot' = c
  /\ line' = Append(line, c)
  /\ Goto(c, "queued")
  /\ UNCHANGED <<call, released, seen, disk, read, now>>

\* Mutant: whoever asked for the lock has it.
MutMayEnter(c) == pc[c] = "queued"

MayEnter(c) == pc[c] = "queued" /\ (ahead[c] = None \/ ahead[c] \in released)

\* The call waits no longer, wherever it stands in the line.
LeaveLine(c) ==
  \E i \in DOMAIN line :
    /\ line[i] = c
    /\ line' = SubSeq(line, 1, i - 1) \o SubSeq(line, i + 1, Len(line))

\* Mutant: the slot is deleted whoever waits in it.
MutUnlock(c) ==
  IF Locks(c)
  THEN released' = released \cup {c} /\ slot' = None
  ELSE UNCHANGED <<released, slot>>

\* Mutant: a call that throws does not resolve its promise.
MutRelease(c) ==
  IF Locks(c)
  THEN /\ released' = IF pc[c] = "update" THEN released \cup {c} ELSE released
       /\ slot' = IF slot = c THEN None ELSE slot
  ELSE UNCHANGED <<released, slot>>

Unlock(c) ==
  IF Locks(c)
  THEN /\ released' = released \cup {c}
       /\ slot' = IF slot = c THEN None ELSE slot
  ELSE UNCHANGED <<released, slot>>

\* The call goes on or throws.
Proceed(c, ok, l) ==
  IF ok THEN Goto(c, l) /\ UNCHANGED <<released, slot>>
        ELSE Goto(c, "done") /\ Unlock(c)

(***************************************************************************)
(* The edit tool.  To create a file nothing is checked or read.            *)
(***************************************************************************)
EnterEdit(c) ==
  /\ call[c].tool = "edit" /\ MayEnter(c)
  /\ LeaveLine(c)
  /\ Proceed(c, Fresh(call[c].session), "load")
  /\ UNCHANGED <<call, ahead, seen, disk, read, now>>

EnterCreate(c) ==
  /\ call[c].tool = "create" /\ MayEnter(c)
  /\ LeaveLine(c)
  /\ Goto(c, "ask")
  /\ UNCHANGED <<call, slot, ahead, released, seen, disk, read, now>>

\* Read the text and replace oldString in it, which may not be found.
Load(c) ==
  /\ pc[c] = "load"
  /\ seen' = [seen EXCEPT ![c] = disk.content]
  /\ \E found \in BOOLEAN : Proceed(c, found, "ask")
  /\ UNCHANGED <<call, ahead, disk, read, now, line>>

(***************************************************************************)
(* The write tool takes no lock; the read tool only notes the time, after  *)
(* it has read the lines.                                                  *)
(***************************************************************************)
LoadWrite(c) ==
  /\ call[c].tool = "write" /\ pc[c] = "new"
  /\ seen' = [seen EXCEPT ![c] = disk.content]
  /\ Goto(c, "check")
  /\ UNCHANGED <<call, slot, ahead, released, disk, read, now, line>>

CheckWrite(c) ==
  /\ pc[c] = "check"
  /\ Proceed(c, Fresh(call[c].session), "ask")
  /\ UNCHANGED <<call, ahead, seen, disk, read, now, line>>

Read(c) ==
  /\ call[c].tool = "read" /\ pc[c] = "new"
  /\ seen' = [seen EXCEPT ![c] = disk.content]
  /\ Goto(c, "update")
  /\ UNCHANGED <<call, slot, ahead, released, disk, read, now, line>>

(***************************************************************************)
(* The user is asked, which takes any time; the call writes or throws.     *)
(***************************************************************************)
Refused(c) ==
  /\ pc[c] = "ask"
  /\ Proceed(c, FALSE, "done")
  /\ UNCHANGED <<call, ahead, seen, disk, read, now, line>>

Write(c) ==
  /\ pc[c] = "ask"
  /\ disk' = [content |-> c, mtime |-> now]
  /\ Goto(c, "update")
  /\ UNCHANGED <<call, slot, ahead, released, seen, read, now, line>>

\* FileTime.read, and withLock is left.
Update(c) ==
  /\ pc[c] = "update"
  /\ read' = [read EXCEPT ![call[c].session] = now]
  /\ Goto(c, "done")
  /\ Unlock(c)
  /\ UNCHANGED <<call, ahead, seen, disk, now, line>>

Tick ==
  /\ now < MaxTime
  /\ now' = now + 1
  /\ UNCHANGED <<call, pc, slot, ahead, released, seen, disk, read, line>>

Step(c) ==
  \/ EnterEdit(c) \/ EnterCreate(c) \/ Load(c) \/ CheckWrite(c)
  \/ Refused(c) \/ Write(c) \/ Update(c)

Next ==
  \/ \E c \in Calls : Queue(c) \/ LoadWrite(c) \/ Read(c) \/ Step(c)
  \/ Tick

Spec == Init /\ [][Next]_vars

\* A call that was begun goes on: its promises settle, and the user answers.
Fairness == \A c \in Calls : WF_vars(Step(c))
FairSpec == Spec /\ Fairness

-----------------------------------------------------------------------------
TypeOK ==
  /\ call \in [Calls -> [tool : Tools, session : Sessions]]
  /\ pc \in [Calls -> Pcs]
  /\ slot \in Calls \cup {None}
  /\ ahead \in [Calls -> Calls \cup {None}]
  /\ released \subseteq Calls
  /\ seen \in [Calls -> Calls \cup {None}]
  /\ disk \in [content : Calls \cup {None}, mtime : 1..MaxTime]
  /\ read \in [Sessions -> 0..MaxTime]
  /\ now \in 1..MaxTime
  /\ line \in Seq(Calls)

Inside(c) == Locks(c) /\ pc[c] \in {"load", "ask", "update"}

\* The lock admits one call at a time, though the slot that links one call to
\* the next is deleted and taken again while others wait.
OneInside == \A c, d \in Calls : Inside(c) /\ Inside(d) => c = d

\* A path whose calls all ended leaves no promise behind in the map of locks.
SlotIsFreed == (\A c \in Calls : pc[c] \in {"new", "done"}) => slot = None

\* The map of locks holds a promise for a file just as long as calls are at it,
\* and lets one of them in at a time.
LockIsSound == OneInside /\ SlotIsFreed

EditWrites(c) == call[c].tool = "edit" /\ pc[c] = "ask" /\ pc'[c] = "update"

\* What the file holds comes from a call that took no lock.
WrittenUnlocked == disk.content \in Calls /\ call[disk.content].tool = "write"

\* An edit replaces the very text it read, though the user is asked in between:
\* among the calls that take the lock no change is lost, however they throw,
\* are refused and queue up again.
LockedEditsBuildOnDisk ==
  [][\A c \in Calls :
       EditWrites(c) => disk.content = seen[c] \/ WrittenUnlocked]_vars

\* The call inside, if there is one.
Occupant == IF \E c \in Calls : Inside(c) THEN CHOOSE c \in Calls : Inside(c) ELSE None

Lock == INSTANCE FileLock WITH holder <- Occupant

\* The chain of promises is a lock that lets calls in in the order they asked,
\* whatever those before them do, and makes nobody wait for ever.
TurnsInOrder == Lock!Spec

\* Every call that waits for the lock ends, whether those before it wrote,
\* were refused or threw.
EveryCallEnds == \A c \in Calls : pc[c] # "new" ~> pc[c] = "done"
=============================================================================
