-------------------------------- MODULE Revert --------------------------------
(***************************************************************************)
(* Undo and redo of one session: the files of the project, the steps of the *)
(* answers that changed them, the marker that says what is undone, and the  *)
(* prompts that make an undo final (packages/opencode/src/session/revert.ts *)
(* with snapshot/index.ts and the calls of cleanup).                        *)
(*                                                                         *)
(* A piece is a step of an answer that changed files: its patch part names  *)
(* them and the snapshot from before the step.  Messages and parts without  *)
(* a patch leave the files alone and are not told apart from the piece that *)
(* follows them.  Identifiers of pieces only grow, and the history is the set *)
(* of the pieces, in the order of their identifiers.                        *)
(***************************************************************************)
EXTENDS Naturals

CONSTANTS
  Clients,    \* those who call, one call at a time each
  Files,      \* the files of the project
  Contents,   \* what a file may hold
  Absent,     \* the content of a file that is not there
  Unset,       \* no marker; nobody
  MaxPieces   \* bound: how many steps answers take

ASSUME AbsentAssumption == Absent \notin Contents
ASSUME BoundAssumption == MaxPieces \in Nat

Trees == [Files -> Contents \cup {Absent}]

ASSUME UnsetAssumption ==
  Unset \notin Clients /\ Unset \notin Trees /\ Unset \notin [id : Nat, snapshot : Trees]

VARIABLES
  tree,      \* the files
  origin,    \* history: the files before the first step
  history,   \* the pieces stored; after is a history field, the files they led to
  last,      \* the last identifier taken
  marker,    \* session.revert: the first piece undone and the snapshot, Unset if not set
  busy,      \* the call whose turn works, Unset if the session is idle
  at,        \* where a call stands
  target,    \* what a revert will store as the marker; what an unrevert restores
  plan,      \* the contents a revert has still to put back
  doomed,    \* the pieces cleanup has still to delete
  intact,    \* history: the files before the undo that set the marker
  raced,     \* history: an undo or redo met another call
  astray     \* history: a redo left files that are not those of the messages

revertVars ==
  <<tree, origin, history, last, marker, busy, at, target, plan, doomed, intact, raced, astray>>

Nothing == [f \in {} |-> Absent]
Empty == [f \in Files |-> Absent]

RevertInit ==
  /\ tree \in Trees
  /\ origin = tree
  /\ history = {}
  /\ last = 0
  /\ marker = Unset
  /\ busy = Unset
  /\ at = [c \in Clients |-> "idle"]
  /\ target = [c \in Clients |-> Unset]
  /\ plan = [c \in Clients |-> Nothing]
  /\ doomed = [c \in Clients |-> {}]
  /\ intact = Empty
  /\ raced = FALSE
  /\ astray = FALSE

MoveTo(c, l) == at' = [at EXCEPT ![c] = l]

Undoes == {"find", "track", "undo", "restore", "restored"}
Undoing == \E c \in Clients : at[c] \in Undoes
Prompting == \E c \in Clients : at[c] \in {"delete", "save"}

Ids(h) == {p.id : p \in h}
From(i) == {p \in history : p.id >= i}
Before(i) == {p \in history : p.id < i}

First(h) == CHOOSE p \in h : \A q \in h : p.id <= q.id
Newest(h) == CHOOSE p \in h : \A q \in h : q.id <= p.id

\* The files that the pieces h led to.
Tip(h) == IF h = {} THEN origin ELSE Newest(h).after

(***************************************************************************)
(* SessionPrompt.prompt, summarize and shell, and the turn that follows.    *)
(* They look at the marker and read the history at once, delete what is     *)
(* undone, message by message, and forget the marker.                       *)
(***************************************************************************)
\* Mutant: the history is cleared.
MutRemoveAll(i) == Ids(history)

\* Mutant: the piece that the undo went back to is kept.
MutRemoved(i) == Ids(From(i)) \ {i}

Removed(i) == Ids(From(i))

Cleanup(c) ==
  IF marker = Unset
  THEN MoveTo(c, "save") /\ UNCHANGED doomed
  ELSE MoveTo(c, "delete") /\ doomed' = [doomed EXCEPT ![c] = Removed(marker.id)]

Prompt(c) ==
  /\ at[c] = "idle"
  /\ Cleanup(c)
  /\ raced' = (raced \/ Undoing)
  /\ UNCHANGED <<tree, origin, history, last, marker, busy, target, plan, intact, astray>>

\* shell claims the session first.
Shell(c) ==
  /\ at[c] = "idle" /\ busy = Unset
  /\ busy' = c
  /\ Cleanup(c)
  /\ raced' = (raced \/ Undoing)
  /\ UNCHANGED <<tree, origin, history, last, marker, target, plan, intact, astray>>

Delete(c) ==
  /\ at[c] = "delete"
  /\ \E i \in doomed[c] :
       /\ \A j \in doomed[c] : i <= j
       /\ history' = {p \in history : p.id # i}
       /\ doomed' = [doomed EXCEPT ![c] = @ \ {i}]
  /\ UNCHANGED <<tree, origin, last, marker, busy, at, target, plan, intact, raced, astray>>

EndCleanup(c) ==
  /\ at[c] = "delete" /\ doomed[c] = {}
  /\ marker' = Unset
  /\ intact' = Empty
  /\ MoveTo(c, "save")
  /\ UNCHANGED <<tree, origin, history, last, busy, target, plan, doomed, raced, astray>>

\* The message is stored.  It starts a turn, is left for the turn at work, or,
\* with noReply, for a later one.
Save(c) ==
  /\ at[c] = "save"
  /\ \/ busy = Unset /\ busy' = c /\ MoveTo(c, "turn")
     \/ busy = c /\ UNCHANGED busy /\ MoveTo(c, "shell")
     \/ busy # c /\ UNCHANGED busy /\ MoveTo(c, "idle")
  /\ UNCHANGED <<tree, origin, history, last, marker, target, plan, doomed, intact, raced, astray>>

\* A step of the answer: the files are tracked, tools change some, and the
\* patch names those that differ.
TakeStep(c) ==
  /\ at[c] = "turn" /\ last < MaxPieces
  /\ \E t \in Trees \ {tree} :
       /\ tree' = t
       /\ history' = history \cup {[id |-> last + 1, hash |-> tree, after |-> t,
                                    files |-> {f \in Files : t[f] # tree[f]}]}
  /\ last' = last + 1
  /\ UNCHANGED <<origin, marker, busy, at, target, plan, doomed, intact, raced, astray>>

EndTurn(c) ==
  /\ at[c] \in {"turn", "shell"}
  /\ busy' = Unset
  /\ MoveTo(c, "idle")
  /\ UNCHANGED <<tree, origin, history, last, marker, target, plan, doomed, intact, raced, astray>>

(***************************************************************************)
(* revert, to any piece of the history.                                     *)
(***************************************************************************)
Revert(c) ==
  /\ at[c] = "idle" /\ busy = Unset
  /\ MoveTo(c, "find")
  /\ raced' = (raced \/ Undoing \/ Prompting)
  /\ intact' = IF marker = Unset THEN tree ELSE intact
  /\ UNCHANGED <<tree, origin, history, last, marker, busy, target, plan, doomed, astray>>

Touched(h) == UNION {p.files : p \in h}

\* Mutant: the last patch of a file wins.
MutWanted(h) == [f \in Touched(h) |-> Newest({p \in h : f \in p.files}).hash[f]]

\* Snapshot.revert: a file goes back to the snapshot of the first patch of the
\* pieces h that names it.
Wanted(h) == [f \in Touched(h) |-> First({p \in h : f \in p.files}).hash[f]]

Find(c) ==
  /\ at[c] = "find"
  /\ \/ /\ history = {}
        /\ MoveTo(c, "idle")
        /\ UNCHANGED <<target, plan>>
     \/ \E i \in Ids(history) :
          /\ target' = [target EXCEPT ![c] = [id |-> i, snapshot |-> Empty]]
          /\ plan' = [plan EXCEPT ![c] = Wanted(From(i))]
          /\ MoveTo(c, "track")
  /\ UNCHANGED <<tree, origin, history, last, marker, busy, doomed, intact, raced, astray>>

\* Mutant: every undo takes a snapshot of its own.
MutKept == tree

\* The snapshot an undo keeps: that of the marker, if there is one.
Kept == IF marker = Unset THEN tree ELSE marker.snapshot

Track(c) ==
  /\ at[c] = "track"
  /\ target' = [target EXCEPT ![c].snapshot = Kept]
  /\ MoveTo(c, "undo")
  /\ UNCHANGED <<tree, origin, history, last, marker, busy, plan, doomed, intact, raced, astray>>

\* git checkout of the file, or its removal.
UndoFile(c) ==
  /\ at[c] = "undo"
  /\ \E f \in DOMAIN plan[c] :
       /\ tree' = [tree EXCEPT ![f] = plan[c][f]]
       /\ plan' = [plan EXCEPT ![c] = [g \in DOMAIN plan[c] \ {f} |-> plan[c][g]]]
  /\ UNCHANGED <<origin, history, last, marker, busy, at, target, doomed, intact, raced, astray>>

\* setRevert.  A marker that moves forward brings no file back.
SetRevert(c) ==
  /\ at[c] = "undo" /\ plan[c] = Nothing
  /\ marker' = target[c]
  /\ target' = [target EXCEPT ![c] = Unset]
  /\ MoveTo(c, "idle")
  /\ astray' = (astray \/ (marker # Unset /\ target[c].id > marker.id))
  /\ UNCHANGED <<tree, origin, history, last, busy, plan, doomed, intact, raced>>

(***************************************************************************)
(* unrevert.                                                               *)
(***************************************************************************)
Unrevert(c) ==
  /\ at[c] = "idle" /\ busy = Unset /\ marker # Unset
  /\ target' = [target EXCEPT ![c] = marker]
  /\ MoveTo(c, "restore")
  /\ raced' = (raced \/ Undoing \/ Prompting)
  /\ UNCHANGED <<tree, origin, history, last, marker, busy, plan, doomed, intact, astray>>

\* read-tree and checkout-index: a file the snapshot does not have stays.
Restored(t) == [f \in Files |-> IF t[f] = Absent THEN tree[f] ELSE t[f]]

Restore(c) ==
  /\ at[c] = "restore"
  /\ tree' = Restored(target[c].snapshot)
  /\ astray' = (astray \/ tree' # target[c].snapshot)
  /\ MoveTo(c, "restored")
  /\ UNCHANGED <<origin, history, last, marker, busy, target, plan, doomed, intact, raced>>

ClearRevert(c) ==
  /\ at[c] = "restored"
  /\ marker' = Unset
  /\ intact' = Empty
  /\ target' = [target EXCEPT ![c] = Unset]
  /\ MoveTo(c, "idle")
  /\ UNCHANGED <<tree, origin, history, last, busy, plan, doomed, raced, astray>>

RevertNext ==
  \E c \in Clients :
    \/ Prompt(c) \/ Shell(c) \/ Delete(c) \/ EndCleanup(c) \/ Save(c)
    \/ TakeStep(c) \/ EndTurn(c)
    \/ Revert(c) \/ Find(c) \/ Track(c) \/ UndoFile(c) \/ SetRevert(c)
    \/ Unrevert(c) \/ Restore(c) \/ ClearRevert(c)

RevertSpec == RevertInit /\ [][RevertNext]_revertVars

-----------------------------------------------------------------------------
\* The files that the messages not undone lead to.
Told == Tip(IF marker = Unset THEN history ELSE Before(marker.id))

\* Undo after undo, and prompts that make it final while others queue behind a
\* turn, keep the files those that the messages left in sight lead to, but where
\* a redo moved the marker forward or found a file it does not remove.
FilesMatchMessages == ~raced /\ ~astray /\ ~Undoing => tree = Told

\* What a user finds: while an undo is at work, the files as they were before it.
Shown == IF Undoing THEN Told ELSE tree

Promised ==
  INSTANCE UndoRedo
  WITH first <- origin, steps <- history, mark <- IF marker = Unset THEN 0 ELSE marker.id,
       files <- Shown, broken <- raced \/ astray

\* Undo, redo and what makes an undo final, of many steps each between which others
\* may come, are single steps along the line of what the answers did: an answer goes
\* on only once nothing is undone, and only what is undone is dropped.
UndoIsOneStep == Promised!Spec

\* However far undo and redo went back and forth, unrevert brings back every
\* file as it was before the first of them.
UnrevertGivesBack ==
  [][\A c \in Clients :
       at[c] = "restored" /\ at'[c] = "idle" /\ ~raced =>
         \A f \in Files : intact[f] # Absent => tree[f] = intact[f]]_revertVars

\* A piece is deleted only while it is undone, not by a prompt that comes late.
OnlyUndoneIsDeleted ==
  [][~raced => \A i \in Ids(history) \ Ids(history') : marker # Unset /\ i >= marker.id]_revertVars
=============================================================================
