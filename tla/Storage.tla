------------------------------- MODULE Storage -------------------------------
(***************************************************************************)
(* One file of the JSON store, the read-write lock its operations take, and *)
(* the operations, up to the death of the process in the middle of one      *)
(* (packages/opencode/src/util/lock.ts, storage/storage.ts).                *)
(*                                                                         *)
(* Locks are kept per path, so one file stands for each.  The file holds    *)
(* the set of the calls whose change it contains.                           *)
(***************************************************************************)
EXTENDS Naturals, Sequences, FiniteSets

CONSTANTS
  Clients,   \* the callers, each with one call at a time
  Ops,       \* what they call: see Operations
  Nobody,    \* no lock object; no file; no call
  Restarts   \* bound: how often the process may die

(***************************************************************************)
(* derive is a caller that reads, waits and then writes what it made of it, *)
(* as SessionSummary.diff and KiloSessions.share and unshare do.            *)
(***************************************************************************)
Operations == {"read", "write", "update", "derive", "remove"}

ASSUME OpsAssumption == Ops \subseteq Operations
ASSUME NobodyAssumption ==
  /\ Nobody \notin Operations
  /\ Nobody \notin [readers : Nat, writer : BOOLEAN,
                    waitingReaders : Seq(Clients), waitingWriters : Seq(Clients)]
  /\ Nobody \notin [holds : SUBSET Clients, whole : BOOLEAN]
ASSUME RestartsAssumption == Restarts \in Nat

VARIABLES
  lock,     \* locks: the lock object of the file, Nobody if the map has none
  pc,       \* where a caller stands
  op,       \* the call it makes, Nobody if none
  seen,     \* the content a call read, with the change it made to it
  file,     \* what is on disk; not whole between truncation and last byte
  cut,      \* history: whether a call that failed or died left the file unwhole
  crashes   \* how often the process died

vars == <<lock, pc, op, seen, file, cut, crashes>>

Pcs == {"idle", "waitRead", "read", "made", "waitWrite", "load", "write", "writing"}

Lock == [readers : Nat, writer : BOOLEAN,
         waitingReaders : Seq(Clients), waitingWriters : Seq(Clients)]
File == [holds : SUBSET Clients, whole : BOOLEAN]

Empty == [readers |-> 0, writer |-> FALSE, waitingReaders |-> <<>>, waitingWriters |-> <<>>]

Init ==
  /\ lock = Nobody
  /\ pc = [c \in Clients |-> "idle"]
  /\ op = [c \in Clients |-> Nobody]
  /\ seen = [c \in Clients |-> {}]
  /\ file \in {Nobody, [holds |-> {}, whole |-> TRUE]}
  /\ cut = FALSE
  /\ crashes = 0

\* get: the object of the path, made when there is none.
Got == IF lock = Nobody THEN Empty ELSE lock

Goto(c, l) == pc' = [pc EXCEPT ![c] = l]

\* Where a call stands once it has the lock for writing.
\* Mutant: an update goes on behind its load.
MutHeld(o) == "write"

Held(o) == IF o = "update" THEN "load" ELSE "write"

(***************************************************************************)
(* Lock.read and Lock.write.                                               *)
(***************************************************************************)
\* Mutant: a reader goes in though writers wait.
MutReadBarges(c) ==
  IF ~Got.writer
  THEN lock' = [Got EXCEPT !.readers = @ + 1] /\ Goto(c, "read")
  ELSE lock' = [Got EXCEPT !.waitingReaders = Append(@, c)] /\ Goto(c, "waitRead")

\* Mutant: a reader only looks for writers that wait.
MutReadLock(c) ==
  IF Got.waitingWriters = <<>>
  THEN lock' = [Got EXCEPT !.readers = @ + 1] /\ Goto(c, "read")
  ELSE lock' = [Got EXCEPT !.waitingReaders = Append(@, c)] /\ Goto(c, "waitRead")

ReadLock(c) ==
  IF ~Got.writer /\ Got.waitingWriters = <<>>
  THEN lock' = [Got EXCEPT !.readers = @ + 1] /\ Goto(c, "read")
  ELSE lock' = [Got EXCEPT !.waitingReaders = Append(@, c)] /\ Goto(c, "waitRead")

WriteLock(c, o) ==
  IF ~Got.writer /\ Got.readers = 0
  THEN lock' = [Got EXCEPT !.writer = TRUE] /\ Goto(c, Held(o))
  ELSE lock' = [Got EXCEPT !.waitingWriters = Append(@, c)] /\ Goto(c, "waitWrite")

(***************************************************************************)
(* c gives the lock back: process hands it to the first writer that waits   *)
(* or to all readers, and deletes the object if nobody waits.               *)
(***************************************************************************)
Left(c) == IF pc[c] = "read" THEN [lock EXCEPT !.readers = @ - 1]
                             ELSE [lock EXCEPT !.writer = FALSE]

Members(s) == {s[i] : i \in DOMAIN s}

\* Mutant: one reader is woken instead of all.
MutWakeOne(l) ==
  IF l.writer \/ l.readers > 0 THEN [lock |-> l, woken |-> {}]
  ELSE IF l.waitingWriters # <<>>
  THEN [lock  |-> [l EXCEPT !.writer = TRUE, !.waitingWriters = Tail(@)],
        woken |-> {Head(l.waitingWriters)}]
  ELSE IF l.waitingReaders # <<>>
  THEN [lock  |-> [l EXCEPT !.readers = 1, !.waitingReaders = Tail(@)],
        woken |-> {Head(l.waitingReaders)}]
  ELSE [lock |-> Nobody, woken |-> {}]

Process(l) ==
  IF l.writer \/ l.readers > 0 THEN [lock |-> l, woken |-> {}]
  ELSE IF l.waitingWriters # <<>>
  THEN [lock  |-> [l EXCEPT !.writer = TRUE, !.waitingWriters = Tail(@)],
        woken |-> {Head(l.waitingWriters)}]
  ELSE IF l.waitingReaders # <<>>
  THEN [lock  |-> [l EXCEPT !.readers = Len(l.waitingReaders), !.waitingReaders = <<>>],
        woken |-> Members(l.waitingReaders)]
  ELSE [lock |-> Nobody, woken |-> {}]

Release(c, l) ==
  LET p == Process(Left(c))
  IN /\ lock' = p.lock
     /\ pc' = [d \in Clients |->
                 IF d = c THEN l
                 ELSE IF d \notin p.woken THEN pc[d]
                 ELSE IF pc[d] = "waitRead" THEN "read" ELSE Held(op[d])]

Forget(c) == op' = [op EXCEPT ![c] = Nobody] /\ seen' = [seen EXCEPT ![c] = {}]

\* The call ends inside the lock, by its last step or by a throw.
Return(c) == Release(c, "idle") /\ Forget(c)

(***************************************************************************)
(* The operations.  A read or an update that finds no file, or only a part  *)
(* of one, throws, and with every way out of a call the lock is given back. *)
(***************************************************************************)
StartRead(c) ==
  /\ pc[c] = "idle"
  /\ \E o \in Ops \cap {"read", "derive"} : op' = [op EXCEPT ![c] = o]
  /\ ReadLock(c)
  /\ UNCHANGED <<seen, file, cut, crashes>>

StartWrite(c) ==
  /\ pc[c] = "idle"
  /\ \E o \in Ops \cap {"write", "update"} :
       op' = [op EXCEPT ![c] = o] /\ WriteLock(c, o)
  /\ seen' = [seen EXCEPT ![c] = IF op'[c] = "write" THEN {c} ELSE {}]
  /\ UNCHANGED <<file, cut, crashes>>

Readable == file # Nobody /\ file.whole

\* The file is read and the lock given back; derive goes on with what it read.
EndRead(c) ==
  /\ pc[c] = "read"
  /\ IF op[c] = "derive" /\ Readable
     THEN /\ Release(c, "made")
          /\ seen' = [seen EXCEPT ![c] = file.holds \cup {c}]
          /\ UNCHANGED op
     ELSE Return(c)
  /\ UNCHANGED <<file, cut, crashes>>

WriteMade(c) ==
  /\ pc[c] = "made"
  /\ WriteLock(c, "derive")
  /\ UNCHANGED <<op, seen, file, cut, crashes>>

\* Nothing changed, or the server refused: what was made is dropped.
DropMade(c) ==
  /\ pc[c] = "made"
  /\ Goto(c, "idle") /\ Forget(c)
  /\ UNCHANGED <<lock, file, cut, crashes>>

Load(c) ==
  /\ pc[c] = "load" /\ Readable
  /\ seen' = [seen EXCEPT ![c] = file.holds \cup {c}]
  /\ Goto(c, "write")
  /\ UNCHANGED <<lock, op, file, cut, crashes>>

\* The file cannot be read, or the change throws.
FailLoad(c) ==
  /\ pc[c] = "load"
  /\ Return(c)
  /\ UNCHANGED <<file, cut, crashes>>

\* Filesystem.writeJson truncates the file, or makes it, and then fills it.
Truncate(c) ==
  /\ pc[c] = "write"
  /\ file' = [holds |-> {}, whole |-> FALSE]
  /\ cut' = FALSE
  /\ Goto(c, "writing")
  /\ UNCHANGED <<lock, op, seen, crashes>>

\* A file that was removed meanwhile stays so: its bytes go to no name.
Fill(c) ==
  /\ pc[c] = "writing"
  /\ file' = IF file = Nobody THEN Nobody ELSE [holds |-> seen[c], whole |-> TRUE]
  /\ Return(c)
  /\ UNCHANGED <<cut, crashes>>

FailWrite(c) ==
  /\ pc[c] \in {"write", "writing"}
  /\ cut' = (cut \/ (pc[c] = "writing" /\ file # Nobody))
  /\ Return(c)
  /\ UNCHANGED <<file, crashes>>

\* remove takes no lock.
Remove(c) ==
  /\ pc[c] = "idle" /\ "remove" \in Ops
  /\ file' = Nobody
  /\ cut' = FALSE
  /\ UNCHANGED <<lock, pc, op, seen, crashes>>

\* The process dies: the locks and the calls are gone, the file stays.
Crash ==
  /\ crashes < Restarts
  /\ crashes' = crashes + 1
  /\ lock' = Nobody
  /\ pc' = [c \in Clients |-> "idle"]
  /\ cut' = (cut \/ \E c \in Clients : pc[c] = "writing" /\ file # Nobody)
  /\ op' = [c \in Clients |-> Nobody]
  /\ seen' = [c \in Clients |-> {}]
  /\ UNCHANGED file

Step(c) ==
  \/ EndRead(c) \/ Load(c) \/ FailLoad(c)
  \/ Truncate(c) \/ Fill(c) \/ FailWrite(c)

Next ==
  \/ \E c \in Clients :
       StartRead(c) \/ StartWrite(c) \/ WriteMade(c) \/ DropMade(c) \/ Remove(c) \/ Step(c)
  \/ Crash

Spec == Init /\ [][Next]_vars

\* Reads and writes of a file come to an end; nobody has to call again.
FairSpec == Spec /\ \A c \in Clients : WF_vars(Step(c))

-----------------------------------------------------------------------------
TypeOK ==
  /\ lock \in Lock \cup {Nobody}
  /\ pc \in [Clients -> Pcs]
  /\ op \in [Clients -> Ops \cup {Nobody}]
  /\ seen \in [Clients -> SUBSET Clients]
  /\ file \in File \cup {Nobody}
  /\ cut \in BOOLEAN
  /\ crashes \in 0..Restarts

WritesInside(c) == pc[c] \in {"load", "write", "writing"}
ReadsInside(c) == pc[c] = "read"

\* The counts of the lock object admit a writer alone: whoever is woken, by a
\* release that hands the lock on, shares the file with nobody.
WriterIsAlone ==
  \A c, d \in Clients :
    WritesInside(c) /\ (WritesInside(d) \/ ReadsInside(d)) => c = d

\* Whoever waits, waits in the object that the holder will hand on: the object
\* is deleted with its last user and never from under a caller.
WaitersHaveHolder ==
  (lock # Nobody \/ \E c \in Clients : pc[c] \in {"waitRead", "waitWrite"})
    => /\ lock # Nobody
       /\ \E c \in Clients : ReadsInside(c) \/ WritesInside(c)
       /\ \A c \in Clients : pc[c] = "waitRead" => c \in Members(lock.waitingReaders)
       /\ \A c \in Clients : pc[c] = "waitWrite" => c \in Members(lock.waitingWriters)

\* Who reads finds a file without its end only where a call that failed or a
\* process that died left it so, never the one that is being written.
ReadsAreWhole ==
  \A c \in Clients :
    (ReadsInside(c) \/ pc[c] = "load") /\ file # Nobody => file.whole \/ cut

\* An update replaces the very content it changed, unless that was removed.
UpdateBuildsOnFile ==
  [][\A c \in Clients :
       op[c] = "update" /\ pc[c] = "write" /\ pc'[c] = "writing"
         => file = Nobody \/ seen[c] = file.holds \cup {c}]_vars

Shared == INSTANCE ReadWriteLock WITH
  line    <- Got.waitingWriters,
  crowd   <- {c \in Clients : pc[c] = "waitRead"},
  readers <- {c \in Clients : ReadsInside(c)},
  writers <- {c \in Clients : WritesInside(c)}

\* The lock object, made, handed on and deleted, is a lock that readers share,
\* that writers take in the order they asked and before any reader that waits.
LockIsShared == Shared!Spec

\* A waiting writer gets its turn however many readers keep calling.
WriterGetsIn == \A c \in Clients : pc[c] = "waitWrite" ~> pc[c] # "waitWrite"

\* A waiting reader gets its turn once writers stop queueing before it.
ReaderGetsIn ==
  <>[](Got.waitingWriters = <<>>)
    => \A c \in Clients : pc[c] = "waitRead" ~> pc[c] # "waitRead"

\* No hand-over of the lock passes over somebody for ever.
NobodyStarves == WriterGetsIn /\ ReaderGetsIn
=============================================================================
