---------------------------- MODULE ReadWriteLock ----------------------------
(***************************************************************************)
(* What Lock promises the operations that share a file: readers together or *)
(* one writer alone, writers in the order they asked, and no reader is let  *)
(* in while a writer waits (packages/opencode/src/util/lock.ts).            *)
(***************************************************************************)
EXTENDS Sequences

CONSTANT Clients   \* the callers of the lock

VARIABLES
  line,     \* the writers that wait, in the order they asked
  crowd,    \* the readers that wait
  readers,  \* the readers inside
  writers   \* the writers inside, at most one

vars == <<line, crowd, readers, writers>>

Init == line = <<>> /\ crowd = {} /\ readers = {} /\ writers = {}

Away(c) ==
  /\ c \notin crowd \cup readers \cup writers
  /\ \A i \in DOMAIN line : line[i] # c

WaitToRead(c) ==
  /\ Away(c)
  /\ crowd' = crowd \cup {c}
  /\ UNCHANGED <<line, readers, writers>>

WaitToWrite(c) ==
  /\ Away(c)
  /\ line' = Append(line, c)
  /\ UNCHANGED <<crowd, readers, writers>>

\* A reader that need not wait.
Read(c) ==
  /\ Away(c) /\ writers = {} /\ line = <<>>
  /\ readers' = readers \cup {c}
  /\ UNCHANGED <<line, crowd, writers>>

\* A writer that need not wait.
Write(c) ==
  /\ Away(c) /\ writers = {} /\ readers = {}
  /\ writers' = {c}
  /\ UNCHANGED <<line, crowd, readers>>

\* Whoever leaves last lets in the first writer or, if none waits, all readers.
Leave(c) ==
  /\ c \in readers \cup writers
  /\ LET r == readers \ {c}
         w == writers \ {c}
     IN IF r # {} THEN readers' = r /\ writers' = w /\ UNCHANGED <<line, crowd>>
        ELSE IF line # <<>>
        THEN /\ writers' = {Head(line)} /\ line' = Tail(line)
             /\ readers' = {} /\ UNCHANGED crowd
        ELSE /\ readers' = crowd /\ crowd' = {}
             /\ writers' = {} /\ UNCHANGED line

\* The process that holds the lock dies with all its callers.
Crash == line' = <<>> /\ crowd' = {} /\ readers' = {} /\ writers' = {}

Next ==
  \/ \E c \in Clients :
       WaitToRead(c) \/ WaitToWrite(c) \/ Read(c) \/ Write(c) \/ Leave(c)
  \/ Crash

Spec == Init /\ [][Next]_vars
=============================================================================
