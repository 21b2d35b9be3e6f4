------------------------------- MODULE UndoRedo -------------------------------
(***************************************************************************)
(* What undo and redo of a session promise, each as one step: the steps of *)
(* the answers stand in a line, the mark tells which of them are undone,   *)
(* and the files are those that the steps in sight led to                  *)
(* (packages/opencode/src/session/revert.ts).                              *)
(*                                                                         *)
(* Once an undo met another call, or a redo could not restore the files,   *)
(* nothing is promised any more.                                           *)
(***************************************************************************)
EXTENDS Naturals

VARIABLES
  first,   \* the files before the first step
  steps,   \* the steps stored, with the files each led to
  mark,    \* the first step undone, 0 if none is
  files,   \* the files a user finds between undos
  broken   \* nothing is promised any more

vars == <<first, steps, mark, files, broken>>

InSight == {s \in steps : mark = 0 \/ s.id < mark}

\* The files that a set of steps led to.
Led(S) == IF S = {} THEN first ELSE (CHOOSE s \in S : \A t \in S : t.id <= s.id).after

Init == steps = {} /\ mark = 0 /\ files = first /\ ~broken

\* An answer goes on from what is in sight only once nothing is undone.
Take ==
  /\ mark = 0
  /\ \E s \in steps' :
       /\ steps' = steps \cup {s}
       /\ \A t \in steps : t.id < s.id
       /\ files' = s.after
  /\ UNCHANGED <<first, mark>>

Undo ==
  /\ \E s \in InSight : mark' = s.id
  /\ files' = Led(InSight)'
  /\ UNCHANGED <<first, steps>>

Redo ==
  /\ mark # 0 /\ mark' = 0
  /\ files' = Led(steps)
  /\ UNCHANGED <<first, steps>>

\* An undo is made final step by step.
Drop ==
  /\ \E s \in steps \ InSight : steps' = steps \ {s}
  /\ UNCHANGED <<first, mark, files>>

Settle ==
  /\ mark # 0 /\ InSight = steps
  /\ mark' = 0
  /\ UNCHANGED <<first, steps, files>>

Break == broken' = TRUE

Next ==
  \/ Break
  \/ ~broken /\ ~broken' /\ (Take \/ Undo \/ Redo \/ Drop \/ Settle)

Spec == Init /\ [][Next]_vars
=============================================================================
