------------------------------- MODULE FileLock -------------------------------
(***************************************************************************)
(* What FileTime.withLock promises the calls that use it for one path: they *)
(* are let in one at a time and in the order they asked, and as long as    *)
(* those inside leave again everybody's turn comes                         *)
(* (packages/opencode/src/file/time.ts).                                   *)
(***************************************************************************)
EXTENDS Sequences

CONSTANTS
  Calls,   \* the calls that use the lock
  None     \* nobody; not a call

VARIABLES
  line,    \* the calls that wait, in the order they asked
  holder   \* the call inside

vars == <<line, holder>>

Init == line = <<>> /\ holder = None

Join(c) ==
  /\ c # holder
  /\ \A i \in DOMAIN line : line[i] # c
  /\ line' = Append(line, c)
  /\ UNCHANGED holder

Enter ==
  /\ holder = None
  /\ line # <<>>
  /\ holder' = Head(line)
  /\ line' = Tail(line)

\* The first of the line throws as soon as it is let in.
Pass ==
  /\ holder = None
  /\ line # <<>>
  /\ line' = Tail(line)
  /\ UNCHANGED holder

Leave ==
  /\ holder # None
  /\ holder' = None
  /\ UNCHANGED line

Next == (\E c \in Calls : Join(c)) \/ Enter \/ Pass \/ Leave

Spec == Init /\ [][Next]_vars /\ WF_vars(Enter \/ Pass) /\ WF_vars(Leave)
=============================================================================
