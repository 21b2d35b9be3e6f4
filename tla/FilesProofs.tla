---------------------------- MODULE FilesProofs ----------------------------
(***************************************************************************)
(* The files of a project, for any number of calls.                        *)
(*                                                                         *)
(* The first part is about the lock of FileTime: the promises that calls   *)
(* leave behind keep them in one line, in which only the first may be      *)
(* inside, although the line is known only by its last call ("slot") and   *)
(* by the call that each one waits for ("ahead").  The second part is      *)
(* about undo and redo.                                                    *)
(***************************************************************************)
EXTENDS FileTime, Revert, WellFoundedInduction, TLAPS

\* The calls that asked for the lock and have not left it.
Active(c) == Locks(c) /\ pc[c] \in {"queued", "load", "ask", "update"}

\* The promise a call waits for is resolved.
Free(c) == ahead[c] = None \/ ahead[c] \in released

LockType ==
  /\ call \in [Calls -> [tool : Tools, session : Sessions]]
  /\ pc \in [Calls -> Pcs]
  /\ slot \in Calls \cup {None}
  /\ ahead \in [Calls -> Calls \cup {None}]
  /\ released \subseteq Calls
  /\ seen \in [Calls -> Calls \cup {None}]
  /\ disk.content \in Calls \cup {None}
  /\ \A c \in released : pc[c] = "done"
  /\ \A c \in Calls : pc[c] = "check" => ~Locks(c)
  /\ \A c \in Calls : pc[c] = "load" => Locks(c)
  /\ \A c \in Calls : Inside(c) => Free(c)

\* f numbers the active calls in the order they asked in.
Line(f) ==
  /\ \A c, d \in Calls : Active(c) /\ Active(d) /\ f[c] = f[d] => c = d
  /\ slot = None => \A c \in Calls : ~Active(c)
  /\ slot # None => /\ Active(slot)
                    /\ \A c \in Calls : Active(c) => f[c] <= f[slot]
  /\ \A c \in Calls : Active(c) /\ Free(c) =>
       \A d \in Calls : Active(d) => f[c] <= f[d]
  /\ \A c \in Calls : Active(c) /\ ~Free(c) =>
       /\ Active(ahead[c])
       /\ f[ahead[c]] < f[c]
       /\ \A d \in Calls : Active(d) /\ f[d] < f[c] => f[d] <= f[ahead[c]]

LineInv == LockType /\ \E f \in [Calls -> Nat] : Line(f)

LEMMA LineInit == Init => LineInv
  <1>. SUFFICES ASSUME Init PROVE LineInv
    OBVIOUS
  <1>1. LockType
    BY DEF Init, LockType, Pcs, Inside
  <1>2. \A c \in Calls : ~Active(c)
    BY DEF Init, Active
  <1>3. [c \in Calls |-> 0] \in [Calls -> Nat]
    OBVIOUS
  <1>4. Line([c \in Calls |-> 0])
    BY <1>2 DEF Init, Line
  <1>. QED  BY <1>1, <1>3, <1>4 DEF LineInv

\* A step in which nobody asks for the lock or leaves it.
LEMMA StayKeeps ==
  ASSUME LineInv, LockType', UNCHANGED <<slot, ahead, released>>,
         \A c \in Calls : Active(c)' <=> Active(c)
  PROVE  LineInv'
  <1>1. PICK f \in [Calls -> Nat] : Line(f)
    BY DEF LineInv
  <1>2. \A c \in Calls : Free(c)' <=> Free(c)
    BY DEF Free
  <1>3. \A c \in Calls : Active(c) /\ ~Free(c) => ahead[c] \in Calls
    BY DEF Free, LineInv, LockType
  <1>4. Line(f)'
    BY <1>1, <1>2, <1>3 DEF Line, LineInv, LockType
  <1>. QED  BY <1>4 DEF LineInv

\* A call that asks takes its place at the end of the line.
LEMMA QueueKeeps ==
  ASSUME LineInv, NEW c \in Calls, Queue(c)
  PROVE  LineInv'
  <1>. USE DEF LineInv
  <1>1. PICK f \in [Calls -> Nat] : Line(f)
    OBVIOUS
  <1>a. (IF slot = None THEN 0 ELSE f[slot] + 1) \in Nat
    BY DEF LockType
  <1>b. PICK n \in Nat : n = IF slot = None THEN 0 ELSE f[slot] + 1
    BY <1>a
  <1>2. PICK g \in [Calls -> Nat] : g = [f EXCEPT ![c] = n]
    OBVIOUS
  <1>3. LockType'
    BY DEF LockType, Queue, Goto, Pcs, Locks, Inside, Free
  <1>4. /\ Active(c)' /\ ~Active(c)
        /\ slot' = c /\ ahead'[c] = slot /\ released' = released
        /\ \A d \in Calls \ {c} :
             /\ Active(d)' <=> Active(d)
             /\ Free(d)' <=> Free(d)
             /\ ahead'[d] = ahead[d]
             /\ g[d] = f[d]
        /\ g[c] = n
    BY <1>2 DEF LockType, Queue, Goto, Active, Locks, Free
  <1>5. \A d \in Calls : Active(d) => f[d] < n
    BY <1>1, <1>b DEF Line, LockType
  <1>6. Line(g)'
    <2>1. \A d, e \in Calls : Active(d)' /\ Active(e)' /\ g[d] = g[e] => d = e
      BY <1>1, <1>4, <1>5 DEF Line
    <2>2. \A d \in Calls : Active(d)' => g[d] <= g[c]
      BY <1>2, <1>4, <1>5
    <2>3. ASSUME NEW d \in Calls, Active(d)', Free(d)', NEW e \in Calls, Active(e)'
          PROVE  g[d] <= g[e]
      <3>1. CASE d = c
        <4>1. slot = None
          BY <1>1, <1>4, <2>3, <3>1 DEF Free, Line, LockType, Active
        <4>. QED  BY <1>1, <1>2, <1>4, <2>3, <3>1, <4>1 DEF Line
      <3>2. CASE d # c
        BY <1>1, <1>2, <1>4, <1>5, <2>3, <3>2 DEF Line
      <3>. QED  BY <3>1, <3>2
    <2>4. ASSUME NEW d \in Calls, Active(d)', ~Free(d)'
          PROVE  /\ Active(ahead[d])'
                 /\ g[ahead'[d]] < g[d]
                 /\ \A e \in Calls : Active(e)' /\ g[e] < g[d] => g[e] <= g[ahead'[d]]
      <3>1. CASE d = c
        <4>1. slot # None /\ slot # c /\ ahead'[d] = slot
          BY <1>1, <1>4, <2>4, <3>1 DEF Free, Line
        <4>2. slot \in Calls \ {c} /\ Active(slot)
          BY <1>1, <4>1 DEF Line, LockType
        <4>3. \A e \in Calls : Active(e) => f[e] <= f[slot]
          BY <1>1, <4>1 DEF Line
        <4>. QED  BY <1>2, <1>4, <1>5, <3>1, <4>1, <4>2, <4>3
      <3>2. CASE d # c
        BY <1>1, <1>4, <1>5, <2>4, <3>2, SMTT(30) DEF Free, Line, LockType
      <3>. QED  BY <3>1, <3>2
    <2>. QED  BY <1>4, <2>1, <2>2, <2>3, <2>4, NoneAssumption DEF Line
  <1>. QED  BY <1>2, <1>3, <1>6

\* The first in line leaves: the next one, if any, is free.
LEMMA LeaveKeeps ==
  ASSUME LineInv, LockType', NEW c \in Calls, Active(c), Free(c),
         Unlock(c), Goto(c, "done"), UNCHANGED <<call, ahead>>
  PROVE  LineInv'
  <1>1. PICK f \in [Calls -> Nat] : Line(f)
    BY DEF LineInv
  <1>. USE DEF LineInv
  <1>2. /\ ~Active(c)'
        /\ released' = released \cup {c}
        /\ slot' = IF slot = c THEN None ELSE slot
        /\ ahead' = ahead
        /\ \A d \in Calls \ {c} : Active(d)' <=> Active(d)
    BY DEF LockType, Unlock, Goto, Active, Locks
  <1>3. \A d \in Calls : Active(d) => d = c \/ f[c] < f[d]
    BY <1>1 DEF Line
  <1>4. \A d \in Calls : Free(d)' <=> Free(d) \/ ahead[d] = c
    BY <1>2, NoneAssumption DEF Free, LockType
  <1>5. slot' = None => \A d \in Calls : ~Active(d)'
    BY <1>1, <1>2, <1>3 DEF Line, LockType
  <1>6. slot' # None => /\ Active(slot)'
                        /\ \A d \in Calls : Active(d)' => f[d] <= f[slot']
    BY <1>1, <1>2 DEF Line, LockType
  <1>7. ASSUME NEW d \in Calls, Active(d)', Free(d)', NEW e \in Calls, Active(e)'
        PROVE  f[d] <= f[e]
    <2>1. CASE Free(d)
      BY <1>1, <1>2, <1>7, <2>1 DEF Line
    <2>2. CASE ~Free(d)
      <3>1. ahead[d] = c
        BY <1>4, <1>7, <2>2
      <3>2. f[e] < f[d] => f[e] <= f[c]
        BY <1>1, <1>2, <1>7, <2>2, <3>1 DEF Line
      <3>3. f[c] < f[e]
        BY <1>2, <1>3, <1>7
      <3>. QED  BY <3>2, <3>3
    <2>. QED  BY <2>1, <2>2
  <1>8. ASSUME NEW d \in Calls, Active(d)', ~Free(d)'
        PROVE  /\ Active(ahead[d])'
               /\ f[ahead'[d]] < f[d]
               /\ \A e \in Calls : Active(e)' /\ f[e] < f[d] => f[e] <= f[ahead'[d]]
    <2>1. ~Free(d) /\ ahead[d] # c /\ ahead[d] \in Calls
      BY <1>2, <1>4, <1>8 DEF Free, LockType
    <2>. QED  BY <1>1, <1>2, <1>8, <2>1 DEF Line
  <1>9. Line(f)'
    BY <1>1, <1>2, <1>5, <1>6, <1>7, <1>8 DEF Line
  <1>. QED  BY <1>9

LEMMA TypeStep ==
  ASSUME LockType, [Next]_vars
  PROVE  LockType'
  <1>1. ASSUME NEW c \in Calls, Queue(c)
        PROVE  LockType'
    BY <1>1 DEF LockType, Queue, Goto, Pcs, Locks, Inside, Free
  <1>2. ASSUME NEW c \in Calls, LoadWrite(c) \/ Read(c)
        PROVE  LockType'
    BY <1>2 DEF LockType, LoadWrite, Read, Goto, Pcs, Locks, Inside, Free
  <1>3. ASSUME NEW c \in Calls, EnterEdit(c) \/ EnterCreate(c)
        PROVE  LockType'
    BY <1>3 DEF LockType, EnterEdit, EnterCreate, MayEnter, Proceed, Unlock, Goto,
                Pcs, Locks, Inside, Free
  <1>4. ASSUME NEW c \in Calls, Load(c) \/ CheckWrite(c) \/ Refused(c)
        PROVE  LockType'
    <2>1. CASE Load(c)
      BY <2>1 DEF LockType, Load, Proceed, Unlock, Goto, Pcs, Locks, Inside, Free
    <2>2. CASE CheckWrite(c)
      BY <2>2 DEF LockType, CheckWrite, Proceed, Unlock, Goto, Pcs, Locks, Inside, Free
    <2>3. CASE Refused(c)
      BY <2>3 DEF LockType, Refused, Proceed, Unlock, Goto, Pcs, Locks, Inside, Free
    <2>. QED  BY <1>4, <2>1, <2>2, <2>3
  <1>5. ASSUME NEW c \in Calls, Write(c) \/ Update(c)
        PROVE  LockType'
    BY <1>5, SMTT(30) DEF LockType, Write, Update, Unlock, Goto, Pcs, Locks, Inside, Free
  <1>6. CASE Tick \/ UNCHANGED vars
    BY <1>6 DEF LockType, Tick, vars, Locks, Inside, Free
  <1>. QED  BY <1>1, <1>2, <1>3, <1>4, <1>5, <1>6 DEF Next, Step

\* A call that ends: with the lock it leaves the line, without it nothing of
\* the line changes.
LEMMA EndKeeps ==
  ASSUME LineInv, LockType', NEW c \in Calls,
         Locks(c) => Active(c) /\ Free(c),
         Unlock(c), Goto(c, "done"), UNCHANGED <<call, ahead>>
  PROVE  LineInv'
  <1>1. CASE Locks(c)
    BY <1>1, LeaveKeeps
  <1>2. CASE ~Locks(c)
    <2>1. UNCHANGED <<slot, released>>
      BY <1>2 DEF Unlock
    <2>2. \A d \in Calls : Active(d)' <=> Active(d)
      BY <1>2 DEF Active, Locks, Goto, LineInv, LockType
    <2>. QED  BY <2>1, <2>2, StayKeeps
  <1>. QED  BY <1>1, <1>2

\* Proceed keeps the line if both ways out do.
LEMMA ProceedKeeps ==
  ASSUME LineInv, LockType', NEW c \in Calls, NEW ok, NEW l,
         Proceed(c, ok, l), UNCHANGED <<call, ahead>>,
         Locks(c) => Active(c) /\ Free(c),
         Locks(c) => l \in {"load", "ask"}
  PROVE  LineInv'
  <1>1. CASE ok
    <2>1. \A d \in Calls : Active(d)' <=> Active(d)
      BY <1>1 DEF Proceed, Active, Locks, Goto, LineInv, LockType
    <2>2. UNCHANGED <<slot, released>>
      BY <1>1 DEF Proceed
    <2>. QED  BY <2>1, <2>2, StayKeeps
  <1>2. CASE ~ok
    BY <1>2, EndKeeps DEF Proceed
  <1>. QED  BY <1>1, <1>2

LEMMA LineStep ==
  ASSUME LineInv, [Next]_vars
  PROVE  LineInv'
  <1>1. LockType /\ LockType'
    BY TypeStep DEF LineInv
  <1>2. ASSUME NEW c \in Calls, Queue(c)
        PROVE  LineInv'
    BY <1>2, QueueKeeps
  <1>3. ASSUME NEW c \in Calls, LoadWrite(c) \/ Read(c)
        PROVE  LineInv'
    <2>1. \A d \in Calls : Active(d)' <=> Active(d)
      BY <1>1, <1>3 DEF LoadWrite, Read, Active, Locks, Goto, LockType
    <2>. QED  BY <1>1, <1>3, <2>1, StayKeeps DEF LoadWrite, Read
  <1>4. ASSUME NEW c \in Calls, EnterEdit(c)
        PROVE  LineInv'
    <2>1. Active(c) /\ Free(c)
      BY <1>4 DEF EnterEdit, MayEnter, Active, Locks, Free
    <2>. QED  BY <1>1, <1>4, <2>1, ProceedKeeps DEF EnterEdit
  <1>5. ASSUME NEW c \in Calls, EnterCreate(c)
        PROVE  LineInv'
    <2>1. \A d \in Calls : Active(d)' <=> Active(d)
      BY <1>1, <1>5 DEF EnterCreate, MayEnter, Active, Locks, Goto, LockType
    <2>. QED  BY <1>1, <1>5, <2>1, StayKeeps DEF EnterCreate
  <1>6. ASSUME NEW c \in Calls, Load(c)
        PROVE  LineInv'
    <2>1. Locks(c) => Active(c) /\ Free(c)
      BY <1>1, <1>6 DEF Load, LockType, Inside, Active
    <2>2. PICK found \in BOOLEAN : Proceed(c, found, "ask")
      BY <1>6 DEF Load
    <2>. QED  BY <1>1, <1>6, <2>1, <2>2, ProceedKeeps DEF Load
  <1>7. ASSUME NEW c \in Calls, CheckWrite(c)
        PROVE  LineInv'
    <2>1. ~Locks(c)
      BY <1>1, <1>7 DEF CheckWrite, LockType
    <2>. QED  BY <1>1, <1>7, <2>1, ProceedKeeps DEF CheckWrite
  <1>8. ASSUME NEW c \in Calls, Refused(c)
        PROVE  LineInv'
    <2>1. Locks(c) => Active(c) /\ Free(c)
      BY <1>1, <1>8 DEF Refused, LockType, Inside, Active
    <2>. QED  BY <1>1, <1>8, <2>1, EndKeeps DEF Refused, Proceed
  <1>9. ASSUME NEW c \in Calls, Write(c)
        PROVE  LineInv'
    <2>1. \A d \in Calls : Active(d)' <=> Active(d)
      BY <1>1, <1>9 DEF Write, Active, Locks, Goto, LockType
    <2>. QED  BY <1>1, <1>9, <2>1, StayKeeps DEF Write
  <1>10. ASSUME NEW c \in Calls, Update(c)
         PROVE  LineInv'
    <2>1. Locks(c) => Active(c) /\ Free(c)
      BY <1>1, <1>10 DEF Update, LockType, Inside, Active
    <2>. QED  BY <1>1, <1>10, <2>1, EndKeeps DEF Update
  <1>11. CASE Tick \/ UNCHANGED vars
    <2>1. \A d \in Calls : Active(d)' <=> Active(d)
      BY <1>11 DEF Tick, vars, Active, Locks
    <2>. QED  BY <1>1, <1>11, <2>1, StayKeeps DEF Tick, vars
  <1>. QED
    BY <1>2, <1>3, <1>4, <1>5, <1>6, <1>7, <1>8, <1>9, <1>10, <1>11 DEF Next, Step

\* Of any number of calls that ask for the lock of a file only one at a time is
\* inside, in whatever order they queue, write, are refused or throw.
THEOREM LockAdmitsOne == Spec => []OneInside
  <1>1. LineInv => OneInside
    <2>. SUFFICES ASSUME LineInv, NEW c \in Calls, NEW d \in Calls,
                         Inside(c), Inside(d)
                  PROVE  c = d
      BY DEF OneInside
    <2>1. PICK f \in [Calls -> Nat] : Line(f)
      BY DEF LineInv
    <2>2. Active(c) /\ Free(c) /\ Active(d) /\ Free(d)
      BY DEF LineInv, LockType, Inside, Active
    <2>3. f[c] = f[d]
      BY <2>1, <2>2 DEF Line
    <2>. QED  BY <2>1, <2>2, <2>3 DEF Line
  <1>. QED  BY <1>1, LineInit, LineStep, PTL DEF Spec

\* The map of locks keeps nothing for a file that no call is at work on.
THEOREM LockLeavesNothing == Spec => []SlotIsFreed
  <1>1. LineInv => SlotIsFreed
    BY DEF LineInv, LockType, Line, Active, SlotIsFreed
  <1>. QED  BY <1>1, LineInit, LineStep, PTL DEF Spec

\* Both: the slot is deleted neither too early nor too late.
THEOREM LockSound == Spec => []LockIsSound
  <1>. QED  BY LockAdmitsOne, LockLeavesNothing, PTL DEF LockIsSound

-----------------------------------------------------------------------------
(***************************************************************************)
(* Types.                                                                  *)
(***************************************************************************)
LEMMA LineTyped ==
  ASSUME line \in Seq(Calls), NEW c \in Calls, LeaveLine(c)
  PROVE  line' \in Seq(Calls)
  BY DEF LeaveLine

LEMMA TypeOKStep ==
  ASSUME TypeOK, [Next]_vars
  PROVE  TypeOK'
  <1>0. disk.content \in Calls \cup {None}
    BY DEF TypeOK
  <1>1. ASSUME NEW c \in Calls, Queue(c) \/ LoadWrite(c) \/ Read(c)
        PROVE  TypeOK'
    <2>1. PICK to \in Pcs : pc' = [pc EXCEPT ![c] = to]
      BY <1>1 DEF Queue, LoadWrite, Read, Goto, Pcs
    <2>2. pc' \in [Calls -> Pcs]
      BY <2>1 DEF TypeOK
    <2>3. CASE Queue(c)
      <3>1. line' \in Seq(Calls)
        BY <2>3 DEF Queue, TypeOK
      <3>. QED  BY <2>2, <2>3, <3>1 DEF TypeOK, Queue
    <2>4. CASE LoadWrite(c) \/ Read(c)
      BY <1>0, <2>2, <2>4 DEF TypeOK, LoadWrite, Read
    <2>. QED  BY <1>1, <2>3, <2>4
  <1>2. ASSUME NEW c \in Calls, EnterEdit(c) \/ EnterCreate(c) \/ CheckWrite(c)
        PROVE  TypeOK'
    <2>1. line' \in Seq(Calls)
      BY <1>2, LineTyped DEF TypeOK, EnterEdit, EnterCreate, CheckWrite
    <2>. QED
      BY <1>2, <2>1, ZenonT(40)
      DEF TypeOK, EnterEdit, EnterCreate, CheckWrite, Proceed, Unlock, Goto, Pcs
  <1>3. ASSUME NEW c \in Calls, Load(c)
        PROVE  TypeOK'
    <2>1. /\ pc' = [pc EXCEPT ![c] = "ask"] \/ pc' = [pc EXCEPT ![c] = "done"]
          /\ slot' \in {slot, None} /\ released' \in {released, released \cup {c}}
      BY <1>3 DEF Load, Proceed, Unlock, Goto
    <2>2. /\ seen' = [seen EXCEPT ![c] = disk.content]
          /\ UNCHANGED <<call, ahead, disk, read, now, line>>
      BY <1>3 DEF Load
    <2>. QED  BY <1>0, <2>1, <2>2 DEF TypeOK, Pcs
  <1>4. ASSUME NEW c \in Calls, Refused(c)
        PROVE  TypeOK'
    BY <1>4 DEF TypeOK, Refused, Proceed, Unlock, Goto, Pcs
  <1>5. ASSUME NEW c \in Calls, Write(c)
        PROVE  TypeOK'
    BY <1>5 DEF TypeOK, Write, Goto, Pcs
  <1>6. ASSUME NEW c \in Calls, Update(c)
        PROVE  TypeOK'
    <2>1. read' \in [Sessions -> 0..MaxTime]
      BY <1>6, TimeAssumption DEF TypeOK, Update
    <2>. QED  BY <1>6, <2>1 DEF TypeOK, Update, Unlock, Goto, Pcs
  <1>7. CASE Tick
    BY <1>7, TimeAssumption DEF TypeOK, Tick
  <1>8. CASE UNCHANGED vars
    BY <1>8 DEF TypeOK, vars
  <1>. QED  BY <1>1, <1>2, <1>3, <1>4, <1>5, <1>6, <1>7, <1>8 DEF Next, Step

\* For any calls and sessions what the tools know of the file, and of each
\* other, keeps its type: no time is noted that the clock has not shown.
THEOREM FileTimeType == Spec => []TypeOK
  <1>1. Init => TypeOK
    BY TimeAssumption DEF Init, TypeOK, Pcs
  <1>. QED  BY <1>1, TypeOKStep, PTL DEF Spec

-----------------------------------------------------------------------------
(***************************************************************************)
(* Edits.  From the moment an edit has read the text until it writes, only *)
(* a call that takes no lock changes the file.                             *)
(***************************************************************************)
Built ==
  /\ \A c \in Calls : pc[c] = "check" => call[c].tool = "write"
  /\ \A c \in Calls : pc[c] = "ask" /\ ~Locks(c) => call[c].tool = "write"
  /\ \A c \in Calls : call[c].tool = "edit" /\ pc[c] = "ask" =>
       disk.content = seen[c] \/ WrittenUnlocked

LEMMA BuiltStep ==
  ASSUME LockType, OneInside, Built, [Next]_vars
  PROVE  Built'
  <1>. USE DEF LockType
  <1>1. ASSUME NEW c \in Calls, Queue(c) \/ LoadWrite(c) \/ Read(c)
        PROVE  Built'
    BY <1>1 DEF Built, Queue, LoadWrite, Read, Goto, Locks, WrittenUnlocked
  <1>2. ASSUME NEW c \in Calls, EnterEdit(c) \/ EnterCreate(c) \/ CheckWrite(c)
        PROVE  Built'
    BY <1>2 DEF Built, EnterEdit, EnterCreate, CheckWrite, MayEnter, Proceed, Goto,
                Locks, WrittenUnlocked
  <1>3. ASSUME NEW c \in Calls, Load(c)
        PROVE  Built'
    <2>1. /\ call' = call /\ disk' = disk
          /\ pc' = [pc EXCEPT ![c] = "ask"] \/ pc' = [pc EXCEPT ![c] = "done"]
          /\ seen' = [seen EXCEPT ![c] = disk.content]
          /\ pc[c] = "load"
      BY <1>3 DEF Load, Proceed, Goto
    <2>. QED  BY <2>1 DEF Built, Locks, WrittenUnlocked, Inside
  <1>4. ASSUME NEW c \in Calls, Refused(c) \/ Update(c)
        PROVE  Built'
    BY <1>4 DEF Built, Refused, Update, Proceed, Goto, Locks, WrittenUnlocked
  <1>5. ASSUME NEW c \in Calls, Write(c)
        PROVE  Built'
    <2>1. CASE Locks(c)
      <3>1. \A d \in Calls : call[d].tool = "edit" /\ pc[d] = "ask" => d = c
        BY <1>5, <2>1 DEF Write, OneInside, Inside, Locks
      <3>. QED  BY <1>5, <2>1, <3>1 DEF Built, Write, Goto, Locks
    <2>2. CASE ~Locks(c)
      <3>1. call[c].tool = "write"
        BY <1>5, <2>2 DEF Built, Write
      <3>2. WrittenUnlocked'
        BY <1>5, <3>1 DEF Write, WrittenUnlocked
      <3>. QED  BY <1>5, <3>2 DEF Built, Write, Goto, Locks
    <2>. QED  BY <2>1, <2>2
  <1>6. CASE Tick \/ UNCHANGED vars
    BY <1>6 DEF Built, Tick, vars, Locks, WrittenUnlocked
  <1>. QED  BY <1>1, <1>2, <1>3, <1>4, <1>5, <1>6 DEF Next, Step

\* An edit writes over the text it read or over what a call without the lock
\* wrote: between calls that take the lock no change is lost.
THEOREM LockedEditsLoseNothing == Spec => LockedEditsBuildOnDisk
  <1>1. Init => Built
    BY DEF Init, Built
  <1>2. LockType /\ OneInside /\ Built /\ [Next]_vars => Built'
    BY BuiltStep
  <1>3. LineInv => LockType
    BY DEF LineInv
  <1>4. Spec => [](LockType /\ OneInside)
    BY <1>3, LineInit, LineStep, LockAdmitsOne, PTL DEF Spec
  <1>5. Built => \A c \in Calls : EditWrites(c) => disk.content = seen[c] \/ WrittenUnlocked
    BY DEF Built, EditWrites
  <1>. QED  BY <1>1, <1>2, <1>4, <1>5, PTL DEF Spec, LockedEditsBuildOnDisk

-----------------------------------------------------------------------------
(***************************************************************************)
(* Turns.  The line is linked by the promises: each call in it waits for   *)
(* the one before it, and the slot holds the last.  So nobody but its      *)
(* first may enter, and it finds nobody inside.                            *)
(***************************************************************************)
Linked ==
  /\ line \in Seq(Calls)
  /\ \A i, j \in 1..Len(line) : line[i] = line[j] => i = j
  /\ \A c \in Calls : Locks(c) /\ pc[c] = "queued" <=> \E i \in 1..Len(line) : line[i] = c
  /\ line # <<>> => slot = line[Len(line)]
  /\ \A i \in 2..Len(line) : ahead[line[i]] = line[i - 1]

TurnInv == LineInv /\ Linked

\* Whoever may enter is the first of the line.
LEMMA FirstEnters ==
  ASSUME TurnInv, NEW c \in Calls, Locks(c), MayEnter(c)
  PROVE  /\ line # <<>> /\ c = Head(line)
         /\ LeaveLine(c) => line' = Tail(line)
  <1>. USE DEF TurnInv
  <1>1. PICK i \in 1..Len(line) : line[i] = c
    BY DEF MayEnter, Linked
  <1>2. line \in Seq(Calls)
    BY DEF Linked
  <1>3. i = 1
    <2>. SUFFICES ASSUME i # 1 PROVE FALSE
      OBVIOUS
    <2>1. i \in 2..Len(line) /\ i - 1 \in 1..Len(line)
      BY <1>2
    <2>2. ahead[c] = line[i - 1] /\ line[i - 1] \in Calls
      BY <1>1, <1>2, <2>1 DEF Linked
    <2>3. pc[line[i - 1]] = "queued"
      BY <2>1, <2>2 DEF Linked
    <2>4. ahead[c] \in released
      BY <2>2, NoneAssumption DEF MayEnter
    <2>. QED  BY <2>2, <2>3, <2>4 DEF LineInv, LockType
  <1>4. line # <<>> /\ c = Head(line)
    BY <1>1, <1>2, <1>3
  <1>5. ASSUME LeaveLine(c) PROVE line' = Tail(line)
    <2>1. PICK j \in DOMAIN line :
            /\ line[j] = c
            /\ line' = SubSeq(line, 1, j - 1) \o SubSeq(line, j + 1, Len(line))
      BY <1>5 DEF LeaveLine
    <2>2. j = 1
      BY <1>1, <1>2, <1>3, <2>1, SMTT(30) DEF Linked
    <2>3. line' = SubSeq(line, 1, 0) \o SubSeq(line, 2, Len(line))
      BY <2>1, <2>2
    <2>4. SubSeq(line, 1, 0) = <<>> /\ SubSeq(line, 2, Len(line)) = Tail(line)
      BY <1>2, <1>4
    <2>5. Tail(line) \in Seq(Calls)
      BY <1>2, <1>4
    <2>. QED  BY <2>3, <2>4, <2>5
  <1>. QED  BY <1>4, <1>5

\* It enters an empty room.
LEMMA RoomIsEmpty ==
  ASSUME LineInv, NEW c \in Calls, Locks(c), MayEnter(c)
  PROVE  \A d \in Calls : ~Inside(d)
  <1>. SUFFICES ASSUME NEW d \in Calls, Inside(d) PROVE FALSE
    OBVIOUS
  <1>1. PICK f \in [Calls -> Nat] : Line(f)
    BY DEF LineInv
  <1>2. Active(c) /\ Free(c) /\ Active(d) /\ Free(d)
    BY DEF LineInv, LockType, Inside, Active, MayEnter, Free
  <1>3. f[c] = f[d]
    BY <1>1, <1>2 DEF Line
  <1>4. c = d
    BY <1>1, <1>2, <1>3 DEF Line
  <1>. QED  BY <1>4 DEF Inside, MayEnter

\* A call at the end of the line.
LEMMA QueueLinks ==
  ASSUME LineInv, Linked, NEW c \in Calls, Queue(c)
  PROVE  Linked'
  <1>1. /\ line \in Seq(Calls) /\ pc \in [Calls -> Pcs]
        /\ ahead \in [Calls -> Calls \cup {None}]
    BY DEF Linked, LineInv, LockType
  <1>2. /\ line' = Append(line, c) /\ slot' = c /\ ahead' = [ahead EXCEPT ![c] = slot]
        /\ pc' = [pc EXCEPT ![c] = "queued"] /\ call' = call /\ Locks(c) /\ pc[c] = "new"
    BY DEF Queue, Goto
  <1>3. /\ line' \in Seq(Calls) /\ Len(line') = Len(line) + 1 /\ Len(line) \in Nat
        /\ line'[Len(line')] = c
        /\ \A i \in 1..Len(line) : line'[i] = line[i] /\ line[i] \in Calls
        /\ line' # <<>>
    BY <1>1, <1>2
  <1>4. \A i \in 1..Len(line) : line[i] # c
    BY <1>2 DEF Linked
  <1>5. \A i, j \in 1..Len(line') : line'[i] = line'[j] => i = j
    BY <1>3, <1>4 DEF Linked
  <1>6. \A d \in Calls : (Locks(d) /\ pc[d] = "queued")' <=> \E i \in 1..Len(line') : line'[i] = d
    <2>1. \A d \in Calls : (\E i \in 1..Len(line') : line'[i] = d) <=>
                             d = c \/ \E i \in 1..Len(line) : line[i] = d
      BY <1>3
    <2>2. \A d \in Calls : (Locks(d) /\ pc[d] = "queued")' <=>
                             d = c \/ (Locks(d) /\ pc[d] = "queued")
      BY <1>1, <1>2 DEF Locks
    <2>. QED  BY <2>1, <2>2 DEF Linked
  <1>7. ASSUME NEW i \in 2..Len(line') PROVE ahead'[line'[i]] = line'[i - 1]
    <2>1. CASE i = Len(line) + 1
      <3>1. line # <<>> /\ i - 1 = Len(line) /\ i - 1 \in 1..Len(line)
        BY <1>1, <1>3, <2>1
      <3>. QED  BY <1>1, <1>2, <1>3, <2>1, <3>1 DEF Linked
    <2>2. CASE i # Len(line) + 1
      <3>1. i \in 2..Len(line) /\ i - 1 \in 1..Len(line) /\ i \in 1..Len(line)
        BY <1>3, <2>2
      <3>. QED  BY <1>1, <1>2, <1>3, <1>4, <3>1 DEF Linked
    <2>. QED  BY <2>1, <2>2
  <1>. QED  BY <1>2, <1>3, <1>5, <1>6, <1>7 DEF Linked

\* The first of the line goes in, or throws at once.
LEMMA EnterLinks ==
  ASSUME TurnInv, NEW c \in Calls, Locks(c), MayEnter(c), LeaveLine(c),
         NEW to \in Pcs \ {"queued"}, Goto(c, to),
         slot' \in {slot, IF slot = c THEN None ELSE slot}, UNCHANGED <<call, ahead>>
  PROVE  Linked'
  <1>. USE DEF TurnInv
  <1>1. line \in Seq(Calls) /\ pc \in [Calls -> Pcs]
    BY DEF Linked, LineInv, LockType
  <1>2. line # <<>> /\ c = line[1] /\ line' = Tail(line)
    BY <1>1, FirstEnters
  <1>3. /\ line' \in Seq(Calls) /\ Len(line') = Len(line) - 1 /\ Len(line) \in Nat \ {0}
        /\ \A i \in 1..Len(line') : line'[i] = line[i + 1]
    BY <1>1, <1>2
  <1>4. \A i, j \in 1..Len(line') : line'[i] = line'[j] => i = j
    BY <1>3 DEF Linked
  <1>5. \A d \in Calls : (\E i \in 1..Len(line') : line'[i] = d) <=>
                           d # c /\ \E i \in 1..Len(line) : line[i] = d
    <2>1. SUFFICES ASSUME NEW d \in Calls
                   PROVE  (\E i \in 1..Len(line') : line'[i] = d) <=>
                            d # c /\ \E i \in 1..Len(line) : line[i] = d
      OBVIOUS
    <2>2. ASSUME NEW i \in 1..Len(line'), line'[i] = d
          PROVE  d # c /\ \E j \in 1..Len(line) : line[j] = d
      <3>1. i + 1 \in 1..Len(line) /\ i + 1 # 1 /\ 1 \in 1..Len(line) /\ line[i + 1] = d
        BY <1>3, <2>2
      <3>. QED  BY <1>2, <3>1 DEF Linked
    <2>3. ASSUME d # c, NEW i \in 1..Len(line), line[i] = d
          PROVE  \E j \in 1..Len(line') : line'[j] = d
      <3>1. i # 1 /\ i - 1 \in 1..Len(line') /\ (i - 1) + 1 = i
        BY <1>2, <1>3, <2>3
      <3>. QED  BY <1>3, <2>3, <3>1
    <2>. QED  BY <2>2, <2>3
  <1>6. \A d \in Calls : (Locks(d) /\ pc[d] = "queued")' <=>
                           d # c /\ Locks(d) /\ pc[d] = "queued"
    BY <1>1 DEF Locks, Goto
  <1>7. \A d \in Calls : (Locks(d) /\ pc[d] = "queued")' <=> \E i \in 1..Len(line') : line'[i] = d
    BY <1>5, <1>6 DEF Linked
  <1>8. line' # <<>> => slot' = line'[Len(line')]
    <2>. SUFFICES ASSUME line' # <<>> PROVE slot' = line'[Len(line')]
      OBVIOUS
    <2>1. Len(line') \in 1..Len(line') /\ Len(line) \in 1..Len(line) /\ 1 \in 1..Len(line)
          /\ Len(line) # 1 /\ line'[Len(line')] = line[Len(line)]
      BY <1>3
    <2>2. line[Len(line)] # c /\ slot = line[Len(line)]
      BY <1>2, <2>1 DEF Linked
    <2>. QED  BY <2>1, <2>2
  <1>9. ASSUME NEW i \in 2..Len(line') PROVE ahead'[line'[i]] = line'[i - 1]
    <2>1. /\ i \in 1..Len(line') /\ i - 1 \in 1..Len(line') /\ i + 1 \in 2..Len(line)
          /\ (i - 1) + 1 = i /\ (i + 1) - 1 = i
      BY <1>3
    <2>. QED  BY <1>3, <2>1 DEF Linked
  <1>. QED  BY <1>3, <1>4, <1>7, <1>8, <1>9 DEF Linked

\* A step of a call that does not wait, and does not begin to.
LEMMA OthersLink ==
  ASSUME TurnInv, NEW c \in Calls, Locks(c) => pc[c] # "queued",
         NEW to \in Pcs, Locks(c) => to # "queued", Goto(c, to),
         slot' \in {slot, IF slot = c THEN None ELSE slot}, UNCHANGED <<call, ahead, line>>
  PROVE  Linked'
  <1>. USE DEF TurnInv
  <1>1. line \in Seq(Calls) /\ pc \in [Calls -> Pcs]
    BY DEF Linked, LineInv, LockType
  <1>2. \A d \in Calls : (Locks(d) /\ pc[d] = "queued")' <=> Locks(d) /\ pc[d] = "queued"
    BY <1>1 DEF Locks, Goto
  <1>3. line # <<>> => slot' = slot
    <2>. SUFFICES ASSUME line # <<>> PROVE slot' = slot
      OBVIOUS
    <2>1. Len(line) \in 1..Len(line) /\ line[Len(line)] \in Calls
      BY <1>1
    <2>2. Locks(slot) /\ pc[slot] = "queued"
      BY <2>1 DEF Linked
    <2>. QED  BY <2>2
  <1>. QED  BY <1>2, <1>3 DEF Linked

-----------------------------------------------------------------------------
(***************************************************************************)
(* The steps of FileTime are steps of the lock.                            *)
(***************************************************************************)
LEMMA OccupantIs ==
  ASSUME OneInside
  PROVE  /\ \A c \in Calls : Inside(c) => Occupant = c
         /\ (\A c \in Calls : ~Inside(c)) => Occupant = None
  BY DEF Occupant, OneInside

\* A call that ends outside of the lock, or inside.
LEMMA EndMaps ==
  ASSUME TurnInv, TurnInv', OneInside, OneInside', NEW c \in Calls,
         Locks(c) => Inside(c), Goto(c, "done"), UNCHANGED <<call, line>>
  PROVE  [Lock!Next]_(Lock!vars)
  <1>1. pc \in [Calls -> Pcs]
    BY DEF TurnInv, LineInv, LockType
  <1>2. \A d \in Calls : Inside(d)' <=> d # c /\ Inside(d)
    BY <1>1 DEF Goto, Inside, Locks
  <1>3. CASE Locks(c)
    <2>1. Occupant = c
      BY <1>3, OccupantIs
    <2>2. \A d \in Calls : ~Inside(d)'
      BY <1>2, <1>3 DEF OneInside
    <2>3. Occupant' = None
      BY <2>2, OccupantIs DEF Occupant
    <2>. QED  BY <2>1, <2>3, NoneAssumption DEF Lock!Leave, Lock!Next
  <1>4. CASE ~Locks(c)
    <2>1. \A d \in Calls : Inside(d)' <=> Inside(d)
      BY <1>2, <1>4 DEF Inside
    <2>2. Occupant' = Occupant
      BY <2>1 DEF Occupant
    <2>. QED  BY <2>2 DEF Lock!vars
  <1>. QED  BY <1>3, <1>4

\* A step that lets nobody in or out.
LEMMA StayMaps ==
  ASSUME UNCHANGED line, \A d \in Calls : Inside(d)' <=> Inside(d)
  PROVE  [Lock!Next]_(Lock!vars)
  <1>1. Occupant' = Occupant
    BY DEF Occupant
  <1>. QED  BY <1>1 DEF Lock!vars

LEMMA QueueMaps ==
  ASSUME TurnInv, OneInside, NEW c \in Calls, Queue(c)
  PROVE  [Lock!Next]_(Lock!vars)
  <1>1. pc[c] = "new" /\ line' = Append(line, c) /\ pc \in [Calls -> Pcs]
    BY DEF Queue, TurnInv, LineInv, LockType
  <1>2. \A i \in DOMAIN line : line[i] # c
    BY <1>1 DEF TurnInv, Linked
  <1>3. ~Inside(c)
    BY <1>1 DEF Inside
  <1>4. Occupant # c
    BY <1>3, NoneAssumption, OccupantIs DEF Occupant
  <1>5. \A d \in Calls : Inside(d)' <=> Inside(d)
    BY <1>1 DEF Queue, Goto, Inside, Locks
  <1>6. Occupant' = Occupant
    BY <1>5 DEF Occupant
  <1>. QED  BY <1>1, <1>2, <1>4, <1>6 DEF Lock!Join, Lock!Next

LEMMA EnterMaps ==
  ASSUME TurnInv, OneInside, OneInside', NEW c \in Calls, Locks(c), MayEnter(c), LeaveLine(c),
         NEW to \in {"load", "ask", "done"}, Goto(c, to), UNCHANGED call
  PROVE  [Lock!Next]_(Lock!vars)
  <1>1. line # <<>> /\ c = Head(line) /\ line' = Tail(line)
    BY FirstEnters
  <1>2. Occupant = None /\ \A d \in Calls : ~Inside(d)
    BY RoomIsEmpty, OccupantIs DEF TurnInv
  <1>3. pc \in [Calls -> Pcs]
    BY DEF TurnInv, LineInv, LockType
  <1>4. \A d \in Calls : Inside(d)' <=> d = c /\ to # "done"
    BY <1>2, <1>3 DEF Goto, Inside, Locks
  <1>5. CASE to = "done"
    <2>1. Occupant' = None
      BY <1>4, <1>5 DEF Occupant
    <2>. QED  BY <1>1, <1>2, <2>1 DEF Lock!Pass, Lock!Next
  <1>6. CASE to # "done"
    <2>1. Occupant' = c
      BY <1>4, <1>6 DEF Occupant
    <2>. QED  BY <1>1, <1>2, <2>1 DEF Lock!Enter, Lock!Next
  <1>. QED  BY <1>5, <1>6

LEMMA TurnStep ==
  ASSUME TurnInv, OneInside, OneInside', [Next]_vars
  PROVE  TurnInv' /\ [Lock!Next]_(Lock!vars)
  <1>0. LineInv /\ LineInv' /\ LockType /\ pc \in [Calls -> Pcs]
    BY LineStep DEF TurnInv, LineInv, LockType
  <1>1. ASSUME NEW c \in Calls, Queue(c)
        PROVE  TurnInv' /\ [Lock!Next]_(Lock!vars)
    BY <1>0, <1>1, QueueLinks, QueueMaps DEF TurnInv
  <1>2. ASSUME NEW c \in Calls, EnterEdit(c) \/ EnterCreate(c)
        PROVE  TurnInv' /\ [Lock!Next]_(Lock!vars)
    <2>1. PICK to \in {"load", "ask", "done"} : Goto(c, to)
      BY <1>2 DEF EnterEdit, EnterCreate, Proceed
    <2>2. /\ Locks(c) /\ MayEnter(c) /\ LeaveLine(c) /\ UNCHANGED <<call, ahead>>
          /\ slot' \in {slot, IF slot = c THEN None ELSE slot}
      BY <1>2 DEF EnterEdit, EnterCreate, Proceed, Unlock, Locks
    <2>3. to \in Pcs \ {"queued"}
      BY DEF Pcs
    <2>4. Linked'
      BY <2>1, <2>2, <2>3, EnterLinks
    <2>. QED  BY <1>0, <2>1, <2>2, <2>4, EnterMaps DEF TurnInv
  <1>3. ASSUME NEW c \in Calls, LoadWrite(c) \/ Read(c) \/ Write(c)
        PROVE  TurnInv' /\ [Lock!Next]_(Lock!vars)
    <2>1. PICK to \in {"check", "update"} : Goto(c, to)
      BY <1>3 DEF LoadWrite, Read, Write
    <2>2. /\ pc[c] \in {"new", "ask"} /\ UNCHANGED <<call, slot, ahead, line>>
          /\ Locks(c) => pc[c] = "ask" /\ to = "update"
      BY <1>0, <1>3, <2>1 DEF LoadWrite, Read, Write, Locks, Goto
    <2>3. Linked'
      BY <2>1, <2>2, OthersLink DEF Pcs
    <2>4. \A d \in Calls : Inside(d)' <=> Inside(d)
      BY <1>0, <2>1, <2>2 DEF Goto, Inside, Locks
    <2>. QED  BY <1>0, <2>2, <2>3, <2>4, StayMaps DEF TurnInv
  <1>4. ASSUME NEW c \in Calls, Load(c) \/ CheckWrite(c) \/ Refused(c) \/ Update(c)
        PROVE  TurnInv' /\ [Lock!Next]_(Lock!vars)
    <2>1. PICK to \in {"ask", "done"} : Goto(c, to)
      BY <1>4 DEF Load, CheckWrite, Refused, Update, Proceed
    <2>2. /\ pc[c] \in {"load", "check", "ask", "update"} /\ UNCHANGED <<call, ahead, line>>
          /\ slot' \in {slot, IF slot = c THEN None ELSE slot}
          /\ Locks(c) => Inside(c)
      BY <1>0, <1>4 DEF Load, CheckWrite, Refused, Update, Proceed, Unlock, LockType, Inside
    <2>3. Linked'
      BY <2>1, <2>2, OthersLink DEF Pcs
    <2>4. CASE to = "done"
      BY <1>0, <2>1, <2>2, <2>3, <2>4, EndMaps DEF TurnInv
    <2>5. CASE to = "ask"
      <3>1. Locks(c) => Inside(c)'
        BY <1>0, <2>1, <2>2, <2>5 DEF Goto, Inside, Locks
      <3>2. \A d \in Calls : Inside(d)' <=> Inside(d)
        BY <1>0, <2>1, <2>2, <3>1 DEF Goto, Inside, Locks
      <3>. QED  BY <1>0, <2>2, <2>3, <3>2, StayMaps DEF TurnInv
    <2>. QED  BY <2>4, <2>5
  <1>5. CASE Tick \/ UNCHANGED vars
    <2>1. UNCHANGED <<call, pc, slot, ahead, line>>
      BY <1>5 DEF Tick, vars
    <2>2. \A d \in Calls : Inside(d)' <=> Inside(d)
      BY <2>1 DEF Inside, Locks
    <2>3. Linked'
      BY <2>1 DEF TurnInv, Linked, Locks
    <2>. QED  BY <1>0, <2>1, <2>2, <2>3, StayMaps DEF TurnInv
  <1>. QED
    BY <1>1, <1>2, <1>3, <1>4, <1>5 DEF Next, Step

\* Without the fairness of its users: the promises that calls leave for one
\* another are a lock that lets in one call at a time, each in the turn in
\* which it asked, whether those before it wrote, were refused or threw.
THEOREM TurnsAreKept == Spec => Lock!Init /\ [][Lock!Next]_(Lock!vars)
  <1>1. Init => TurnInv /\ Lock!Init
    <2>. SUFFICES ASSUME Init PROVE TurnInv /\ Lock!Init
      OBVIOUS
    <2>1. line = <<>> /\ \A c \in Calls : pc[c] = "new"
      BY DEF Init
    <2>2. Linked
      BY <2>1 DEF Linked
    <2>3. Occupant = None
      BY <2>1 DEF Occupant, Inside
    <2>. QED  BY <2>1, <2>2, <2>3, LineInit DEF TurnInv, Lock!Init
  <1>2. TurnInv /\ OneInside /\ OneInside' /\ [Next]_vars =>
          TurnInv' /\ [Lock!Next]_(Lock!vars)
    BY TurnStep
  <1>. QED  BY <1>1, <1>2, LockAdmitsOne, PTL DEF Spec

(***************************************************************************)
(* Undo and redo.                                                          *)
(***************************************************************************)
Piece == [id : Nat, hash : Trees, after : Trees, files : SUBSET Files]
Mark == [id : Nat \ {0}, snapshot : Trees]
Places == {"idle", "delete", "save", "turn", "shell"} \cup Undoes
Plans == UNION {[g -> Contents \cup {Absent}] : g \in SUBSET Files}

\* Pieces have identifiers of their own and name the files they changed.
Pieces ==
  /\ history \in SUBSET Piece
  /\ last \in Nat
  /\ \A p \in history : p.id \in 1..last
  /\ \A p, q \in history : p.id = q.id => p = q
  /\ \A p \in history : p.files = {f \in Files : p.after[f] # p.hash[f]}

Typed ==
  /\ tree \in Trees /\ origin \in Trees /\ intact \in Trees
  /\ marker \in Mark \cup {Unset}
  /\ busy \in Clients \cup {Unset}
  /\ at \in [Clients -> Places]
  /\ target \in [Clients -> Mark \cup {Unset}]
  /\ plan \in [Clients -> Plans]
  /\ doomed \in [Clients -> SUBSET Nat]
  /\ raced \in BOOLEAN /\ astray \in BOOLEAN
  /\ \A c \in Clients : at[c] \in {"track", "undo"} => target[c] \in Mark
  /\ \A c \in Clients : at[c] = "restore" => target[c] \in Mark

(***************************************************************************)
(* What the pieces say of the files.                                       *)
(***************************************************************************)
LEMMA SmallestExists ==
  ASSUME NEW S \in SUBSET Nat, S # {}
  PROVE  \E n \in S : \A m \in S : n <= m
<1>1. PICK x \in S : \A y \in S : ~(<<y, x>> \in OpToRel(<, Nat))
  BY NatLessThanWellFounded, WFMin
<1>2. \A y \in S : ~(y < x)
  BY <1>1 DEF OpToRel
<1> QED
  BY <1>2

\* A set of pieces has a first and a newest one.
LEMMA FirstIs ==
  ASSUME Pieces, NEW h \in SUBSET history, h # {}
  PROVE  First(h) \in h /\ \A q \in h : First(h).id <= q.id
<1> DEFINE S == {p.id : p \in h}
<1>1. S \in SUBSET Nat /\ S # {}
  BY DEF Pieces, Piece
<1>2. PICK n \in S : \A m \in S : n <= m
  BY <1>1, SmallestExists
<1>3. PICK p \in h : \A q \in h : p.id <= q.id
  BY <1>2
<1> QED
  BY <1>3 DEF First

\* The newest is found by what its identifier is short of the last one taken.
LEMMA NewestIs ==
  ASSUME Pieces, NEW h \in SUBSET history, h # {}
  PROVE  Newest(h) \in h /\ \A q \in h : q.id <= Newest(h).id
<1> DEFINE S == {last - p.id : p \in h}
<1>1. \A p \in h : p.id \in 1..last
  BY DEF Pieces
<1>2. last \in Nat
  BY DEF Pieces
<1>3. S \in SUBSET Nat /\ S # {}
  BY <1>1, <1>2
<1>4. PICK n \in S : \A m \in S : n <= m
  BY <1>3, SmallestExists
<1>5. PICK p \in h : n = last - p.id
  BY <1>4
<1>6. \A q \in h : q.id <= p.id
  <2> SUFFICES ASSUME NEW q \in h PROVE q.id <= p.id
    OBVIOUS
  <2>1. n <= last - q.id
    BY <1>4
  <2> QED
    BY <1>1, <1>2, <1>5, <2>1
<1> QED
  BY <1>6 DEF Newest

\* The files that the pieces before i led to.
Sight(i) == Tip(Before(i))

LEMMA TipTyped ==
  ASSUME Pieces, origin \in Trees, NEW h \in SUBSET history
  PROVE  Tip(h) \in Trees
<1>1. CASE h = {}
  BY <1>1 DEF Tip
<1>2. CASE h # {}
  <2>1. Newest(h) \in Piece
    BY <1>2, NewestIs DEF Pieces
  <2> QED
    BY <1>2, <2>1 DEF Tip, Piece
<1> QED
  BY <1>1, <1>2

\* The newest of some pieces says what they led to.
LEMMA TipIs ==
  ASSUME Pieces, NEW h \in SUBSET history, NEW p \in h, \A q \in h : q.id <= p.id
  PROVE  Tip(h) = p.after
<1>1. Newest(h) \in h /\ p.id <= Newest(h).id /\ Newest(h).id <= p.id
  BY NewestIs
<1>2. Newest(h).id \in Nat /\ p.id \in Nat
  BY <1>1 DEF Pieces
<1>3. Newest(h) = p
  BY <1>1, <1>2 DEF Pieces
<1> QED
  BY <1>3 DEF Tip

LEMMA SightAll ==
  ASSUME Pieces, NEW i \in Nat, \A p \in history : p.id < i
  PROVE  Sight(i) = Tip(history)
<1>1. Before(i) = history
  BY DEF Before
<1> QED
  BY <1>1 DEF Sight

\* The pieces before j that know what was before them.
LinkedTo(j) == \A p \in history : p.id < j => p.hash = Sight(p.id)

\* What no piece from i to j touched is after them as it was before them.
LEMMA Untouched ==
  ASSUME Pieces, NEW i \in Nat, NEW j \in Nat, i <= j, NEW f \in Files, LinkedTo(j),
         \A p \in history : i <= p.id /\ p.id < j => f \notin p.files
  PROVE  Sight(j)[f] = Sight(i)[f]
<1> DEFINE Bad == {k \in i..j : Sight(k)[f] # Sight(i)[f]}
<1> SUFFICES ASSUME Bad # {} PROVE FALSE
  OBVIOUS
<1>1. Bad \in SUBSET Nat
  OBVIOUS
<1>2. PICK k \in Bad : \A m \in Bad : k <= m
  BY <1>1, SmallestExists
<1>3. k \in Nat /\ k - 1 \in i..j /\ k - 1 \notin Bad /\ k <= j
  BY <1>2
<1>4. Sight(k - 1)[f] = Sight(i)[f] /\ Sight(k)[f] # Sight(i)[f]
  BY <1>2, <1>3
<1> HIDE DEF Bad
<1>5. \A p \in history : p.id \in Nat
  BY DEF Pieces
<1>6. CASE \E p \in history : p.id = k - 1
  <2>1. PICK p \in history : p.id = k - 1
    BY <1>6
  <2>2. p \in Before(k) /\ \A q \in Before(k) : q.id <= p.id
    BY <1>3, <1>5, <2>1 DEF Before
  <2>3. Before(k) \in SUBSET history
    BY DEF Before
  <2>4. Sight(k) = p.after
    BY <2>2, <2>3, TipIs DEF Sight
  <2>5. p.hash = Sight(k - 1)
    BY <1>3, <2>1 DEF LinkedTo
  <2>6. f \notin p.files
    BY <1>3, <2>1
  <2>7. p.after[f] = p.hash[f]
    BY <2>6 DEF Pieces
  <2> QED
    BY <1>4, <2>4, <2>5, <2>7
<1>7. CASE ~\E p \in history : p.id = k - 1
  <2>1. Before(k) = Before(k - 1)
    BY <1>3, <1>5, <1>7 DEF Before
  <2> QED
    BY <1>4, <2>1 DEF Sight
<1> QED
  BY <1>6, <1>7

\* The plan of an undo: what each file has to be given that the pieces from i
\* on touched, for the files to be those that the pieces before i led to.
LEMMA WantedIs ==
  ASSUME Pieces, NEW i \in Nat, NEW f \in Touched(From(i)),
         \A p \in history : p.hash = Sight(p.id)
  PROVE  f \in Files /\ Wanted(From(i))[f] = Sight(i)[f]
<1> DEFINE h == {p \in From(i) : f \in p.files}
           p == First(h)
<1>1. h \in SUBSET history /\ h # {}
  BY DEF Touched, From
<1>2. p \in h /\ \A q \in h : p.id <= q.id
  BY <1>1, FirstIs
<1>3. Wanted(From(i))[f] = p.hash[f]
  BY DEF Wanted
<1> HIDE DEF p
<1>4. p \in history /\ i <= p.id /\ f \in p.files
  BY <1>2 DEF From
<1>5. f \in Files /\ p.id \in Nat
  BY <1>4 DEF Pieces, Piece
<1>6. \A q \in history : i <= q.id /\ q.id < p.id => f \notin q.files
  <2> SUFFICES ASSUME NEW q \in history, i <= q.id, q.id < p.id, f \in q.files PROVE FALSE
    OBVIOUS
  <2>1. q.id \in Nat
    BY DEF Pieces
  <2>2. q \in h
    BY <2>1 DEF From
  <2>3. p.id <= q.id
    BY <1>2, <2>2
  <2> QED
    BY <1>5, <2>1, <2>3
<1>7. LinkedTo(p.id)
  BY DEF LinkedTo
<1>8. Sight(p.id)[f] = Sight(i)[f]
  BY <1>4, <1>5, <1>6, <1>7, Untouched
<1> QED
  BY <1>3, <1>4, <1>5, <1>8

LEMMA WantedTyped ==
  ASSUME Pieces, NEW i \in Nat
  PROVE  Wanted(From(i)) \in Plans /\ DOMAIN Wanted(From(i)) = Touched(From(i))
<1>1. \A f \in Touched(From(i)) :
        First({p \in From(i) : f \in p.files}).hash[f] \in Contents \cup {Absent}
  <2> SUFFICES ASSUME NEW f \in Touched(From(i))
               PROVE  First({p \in From(i) : f \in p.files}).hash[f]
                        \in Contents \cup {Absent}
    OBVIOUS
  <2> DEFINE h == {p \in From(i) : f \in p.files}
  <2>1. h \in SUBSET history /\ h # {}
    BY DEF Touched, From
  <2>2. First(h) \in h
    BY <2>1, FirstIs
  <2>3. First(h) \in history /\ f \in First(h).files
    BY <2>1, <2>2
  <2> HIDE DEF h
  <2>4. First(h).hash \in Trees /\ f \in Files
    BY <2>3 DEF Pieces, Piece
  <2>5. First(h).hash[f] \in Contents \cup {Absent}
    BY <2>4 DEF Trees
  <2> QED
    BY <2>5 DEF h
<1>2. Touched(From(i)) \in SUBSET Files
  BY DEF Touched, From, Pieces, Piece
<1>3. Wanted(From(i)) \in [Touched(From(i)) -> Contents \cup {Absent}]
  BY <1>1 DEF Wanted
<1> QED
  BY <1>2, <1>3 DEF Plans

(***************************************************************************)
(* Types.                                                                  *)
(***************************************************************************)
TypedInv == Pieces /\ Typed

\* What a cleanup does to the places of the calls.
LEMMA CleanupTyped ==
  ASSUME TypedInv, NEW c \in Clients, Cleanup(c)
  PROVE  /\ \E l \in {"save", "delete"} : at' = [at EXCEPT ![c] = l]
         /\ doomed' \in [Clients -> SUBSET Nat]
<1>1. CASE marker = Unset
  BY <1>1 DEF Cleanup, MoveTo, TypedInv, Typed
<1>2. CASE marker # Unset
  <2>1. Removed(marker.id) \in SUBSET Nat
    BY DEF Removed, Ids, From, TypedInv, Pieces, Piece
  <2> QED
    BY <1>2, <2>1 DEF Cleanup, MoveTo, TypedInv, Typed
<1> QED
  BY <1>1, <1>2

LEMMA TypedStep ==
  ASSUME TypedInv, [RevertNext]_revertVars
  PROVE  TypedInv'
<1> USE DEF TypedInv
<1>1. ASSUME NEW c \in Clients, Prompt(c) \/ Shell(c) PROVE TypedInv'
  <2>1. PICK l \in {"save", "delete"} : at' = [at EXCEPT ![c] = l]
    BY <1>1, CleanupTyped DEF Prompt, Shell
  <2>2. doomed' \in [Clients -> SUBSET Nat]
    BY <1>1, CleanupTyped DEF Prompt, Shell
  <2>3. raced' \in BOOLEAN
    BY <1>1 DEF Prompt, Shell, Typed
  <2>4. busy' \in Clients \cup {Unset}
    BY <1>1 DEF Prompt, Shell, Typed
  <2>5. UNCHANGED <<tree, origin, history, last, marker, target, plan, intact, astray>>
    BY <1>1 DEF Prompt, Shell
  <2> QED
    BY <2>1, <2>2, <2>3, <2>4, <2>5 DEF Typed, Pieces, Places
<1>2. ASSUME NEW c \in Clients, Delete(c) PROVE TypedInv'
  BY <1>2 DEF Delete, Typed, Pieces
<1>3. ASSUME NEW c \in Clients, EndCleanup(c) PROVE TypedInv'
  BY <1>3 DEF EndCleanup, Typed, Pieces, MoveTo, Places, Empty, Trees
<1>4. ASSUME NEW c \in Clients, Save(c) PROVE TypedInv'
  BY <1>4 DEF Save, Typed, Pieces, MoveTo, Places
<1>5. ASSUME NEW c \in Clients, TakeStep(c) PROVE TypedInv'
  <2>1. PICK t \in Trees \ {tree} :
          /\ tree' = t
          /\ history' = history \cup {[id |-> last + 1, hash |-> tree, after |-> t,
                                       files |-> {f \in Files : t[f] # tree[f]}]}
    BY <1>5 DEF TakeStep
  <2> DEFINE p == [id |-> last + 1, hash |-> tree, after |-> t,
                   files |-> {f \in Files : t[f] # tree[f]}]
  <2>2. /\ p \in Piece /\ p.id = last + 1
        /\ p.files = {f \in Files : p.after[f] # p.hash[f]}
    BY DEF Typed, Pieces, Piece
  <2>3. history' = history \cup {p} /\ last' = last + 1
    BY <1>5, <2>1 DEF TakeStep
  <2> HIDE DEF p
  <2>4. Pieces'
    <3>1. \A q \in history : q.id \in 1..last /\ q.id # last + 1
      BY DEF Pieces
    <3>2. history' \in SUBSET Piece /\ last' \in Nat
      BY <2>2, <2>3 DEF Pieces
    <3>3. \A q \in history' : q.id \in 1..last'
      BY <2>2, <2>3, <3>1 DEF Pieces
    <3>4. \A q, r \in history' : q.id = r.id => q = r
      BY <2>2, <2>3, <3>1 DEF Pieces
    <3> QED
      BY <2>2, <2>3, <3>2, <3>3, <3>4 DEF Pieces
  <2>5. Typed'
    BY <1>5, <2>1 DEF TakeStep, Typed
  <2> QED
    BY <2>4, <2>5
<1>6. ASSUME NEW c \in Clients, EndTurn(c) PROVE TypedInv'
  BY <1>6 DEF EndTurn, Typed, Pieces, MoveTo, Places
<1>7. ASSUME NEW c \in Clients, Revert(c) PROVE TypedInv'
  BY <1>7 DEF Revert, Typed, Pieces, MoveTo, Places, Undoes
<1>8. ASSUME NEW c \in Clients, Find(c) PROVE TypedInv'
  <2>1. UNCHANGED <<tree, origin, history, last, marker, busy, doomed, intact, raced, astray>>
    BY <1>8 DEF Find
  <2>2. CASE /\ MoveTo(c, "idle")
             /\ UNCHANGED <<target, plan>>
    BY <2>1, <2>2 DEF Typed, Pieces, MoveTo, Places
  <2>3. ASSUME NEW i \in Ids(history),
               target' = [target EXCEPT ![c] = [id |-> i, snapshot |-> Empty]],
               plan' = [plan EXCEPT ![c] = Wanted(From(i))],
               MoveTo(c, "track")
        PROVE  TypedInv'
    <3>1. i \in Nat \ {0}
      BY DEF Ids, Pieces
    <3>2. [id |-> i, snapshot |-> Empty] \in Mark
      BY <3>1 DEF Mark, Empty, Trees
    <3>3. Wanted(From(i)) \in Plans
      BY <3>1, WantedTyped
    <3> QED
      BY <2>1, <2>3, <3>2, <3>3 DEF Typed, Pieces, MoveTo, Places, Undoes
  <2> QED
    BY <1>8, <2>2, <2>3 DEF Find
<1>9. ASSUME NEW c \in Clients, Track(c) PROVE TypedInv'
  <2>1. Kept \in Trees
    BY DEF Kept, Typed, Mark
  <2>2. target[c] \in Mark
    BY <1>9 DEF Track, Typed
  <2>3. [target[c] EXCEPT !.snapshot = Kept] \in Mark
    BY <2>1, <2>2 DEF Mark
  <2> QED
    BY <1>9, <2>3 DEF Track, Typed, Pieces, MoveTo, Places, Undoes
<1>10. ASSUME NEW c \in Clients, UndoFile(c) PROVE TypedInv'
  <2>1. PICK f \in DOMAIN plan[c] :
       /\ tree' = [tree EXCEPT ![f] = plan[c][f]]
       /\ plan' = [plan EXCEPT ![c] = [g \in DOMAIN plan[c] \ {f} |-> plan[c][g]]]
    BY <1>10 DEF UndoFile
  <2>2. /\ DOMAIN plan[c] \in SUBSET Files
        /\ plan[c] \in [DOMAIN plan[c] -> Contents \cup {Absent}]
    BY DEF Typed, Plans
  <2> DEFINE g == DOMAIN plan[c] \ {f}
             rest == [x \in g |-> plan[c][x]]
  <2>3. rest \in Plans
    <3>1. g \in SUBSET Files /\ rest \in [g -> Contents \cup {Absent}]
      BY <2>2
    <3> QED
      BY <3>1 DEF Plans
  <2>4. tree' \in Trees
    BY <2>1, <2>2 DEF Typed, Trees
  <2>5. plan' = [plan EXCEPT ![c] = rest]
    BY <2>1
  <2> HIDE DEF rest
  <2> QED
    BY <1>10, <2>3, <2>4, <2>5 DEF UndoFile, Typed, Pieces
<1>11. ASSUME NEW c \in Clients, SetRevert(c) PROVE TypedInv'
  BY <1>11 DEF SetRevert, Typed, Pieces, MoveTo, Places
<1>12. ASSUME NEW c \in Clients, Unrevert(c) PROVE TypedInv'
  BY <1>12 DEF Unrevert, Typed, Pieces, MoveTo, Places, Undoes
<1>13. ASSUME NEW c \in Clients, Restore(c) PROVE TypedInv'
  <2>1. target[c].snapshot \in Trees
    BY <1>13 DEF Restore, Typed, Mark
  <2>2. tree' \in Trees
    BY <1>13, <2>1 DEF Restore, Restored, Typed, Trees
  <2> QED
    BY <1>13, <2>2 DEF Restore, Typed, Pieces, MoveTo, Places, Undoes
<1>14. ASSUME NEW c \in Clients, ClearRevert(c) PROVE TypedInv'
  BY <1>14 DEF ClearRevert, Typed, Pieces, MoveTo, Places, Empty, Trees
<1>15. CASE UNCHANGED revertVars
  BY <1>15 DEF revertVars, Typed, Pieces
<1> QED
  BY <1>1, <1>2, <1>3, <1>4, <1>5, <1>6, <1>7, <1>8, <1>9, <1>10, <1>11, <1>12,
     <1>13, <1>14, <1>15 DEF RevertNext

LEMMA TypedInit ==
  ASSUME RevertInit
  PROVE  TypedInv
<1>1. Nothing \in Plans
  <2>1. Nothing \in [{} -> Contents \cup {Absent}]
    BY DEF Nothing
  <2> QED
    BY <2>1 DEF Plans
<1>2. Empty \in Trees
  BY DEF Empty, Trees
<1>3. Pieces
  BY DEF RevertInit, Pieces
<1>4. Typed
  BY <1>1, <1>2 DEF RevertInit, Typed, Places
<1> QED
  BY <1>3, <1>4 DEF TypedInv

(***************************************************************************)
(* Who works on a session.                                                 *)
(***************************************************************************)
\* An undo that met nobody is alone: the session is idle and the other calls
\* have not begun; and once a prompt stores its message nothing is undone.
Alone ==
  /\ \A c \in Clients : at[c] \in {"turn", "shell"} => busy = c
  /\ ~raced => \A c \in Clients : at[c] \in Undoes =>
                 busy = Unset /\ \A d \in Clients : d # c => at[d] = "idle"
  /\ ~raced => \A c \in Clients : at[c] \in {"save", "turn", "shell"} => marker = Unset

LEMMA AloneStep ==
  ASSUME TypedInv, Alone, [RevertNext]_revertVars
  PROVE  Alone'
<1>1. at \in [Clients -> Places]
  BY DEF TypedInv, Typed
<1>2. ASSUME NEW c \in Clients, Prompt(c) \/ Shell(c) PROVE Alone'
  <2>1. PICK l \in {"save", "delete"} :
          at' = [at EXCEPT ![c] = l] /\ (l = "save" => marker = Unset)
    BY <1>2 DEF Prompt, Shell, Cleanup, MoveTo
  <2>2. /\ raced' = (raced \/ Undoing) /\ marker' = marker /\ at[c] = "idle"
        /\ busy' = busy \/ (busy = Unset /\ busy' = c)
    BY <1>2 DEF Prompt, Shell
  <2>3. \A d \in Clients : at'[d] \in {"turn", "shell"} => busy' = d
    BY <1>1, <2>1, <2>2, UnsetAssumption DEF Alone
  <2>4. ASSUME ~raced' PROVE \A d \in Clients : at'[d] \notin Undoes
    BY <1>1, <2>1, <2>2, <2>4 DEF Undoing, Undoes
  <2>5. ASSUME ~raced', NEW d \in Clients, at'[d] \in {"save", "turn", "shell"}
        PROVE  marker' = Unset
    BY <1>1, <2>1, <2>2, <2>5 DEF Alone
  <2> QED
    BY <2>3, <2>4, <2>5 DEF Alone
<1>3. ASSUME NEW c \in Clients, Delete(c) PROVE Alone'
  BY <1>3 DEF Delete, Alone
<1>4. ASSUME NEW c \in Clients, EndCleanup(c) PROVE Alone'
  BY <1>1, <1>4 DEF EndCleanup, Alone, MoveTo, Undoes
<1>5. ASSUME NEW c \in Clients, Save(c) PROVE Alone'
  BY <1>1, <1>5, UnsetAssumption DEF Save, Alone, MoveTo, Undoes
<1>6. ASSUME NEW c \in Clients, TakeStep(c) PROVE Alone'
  BY <1>6 DEF TakeStep, Alone
<1>7. ASSUME NEW c \in Clients, EndTurn(c) PROVE Alone'
  BY <1>1, <1>7 DEF EndTurn, Alone, MoveTo, Undoes
<1>8. ASSUME NEW c \in Clients, Revert(c) \/ Unrevert(c) PROVE Alone'
  <2>1. PICK l \in {"find", "restore"} : at' = [at EXCEPT ![c] = l]
    BY <1>8 DEF Revert, Unrevert, MoveTo
  <2>2. /\ raced' = (raced \/ Undoing \/ Prompting) /\ busy = Unset
        /\ busy' = busy /\ marker' = marker
    BY <1>8 DEF Revert, Unrevert
  <2>3. \A d \in Clients : at[d] \notin {"turn", "shell"}
    BY <2>2, UnsetAssumption DEF Alone
  <2>4. ASSUME ~raced' PROVE \A d \in Clients : at[d] = "idle"
    BY <1>1, <2>2, <2>3, <2>4 DEF Undoing, Prompting, Places, Undoes
  <2> QED
    BY <1>1, <2>1, <2>2, <2>3, <2>4 DEF Alone, Undoes
<1>9. ASSUME NEW c \in Clients, Find(c) \/ Track(c) \/ Restore(c) PROVE Alone'
  <2>1. PICK l \in Undoes \cup {"idle"} : at' = [at EXCEPT ![c] = l]
    BY <1>9 DEF Find, Track, Restore, MoveTo, Undoes
  <2>2. at[c] \in Undoes /\ UNCHANGED <<raced, busy, marker>>
    BY <1>9 DEF Find, Track, Restore, Undoes
  <2> QED
    BY <1>1, <2>1, <2>2 DEF Alone, Undoes
<1>10. ASSUME NEW c \in Clients, UndoFile(c) PROVE Alone'
  BY <1>10 DEF UndoFile, Alone
<1>11. ASSUME NEW c \in Clients, SetRevert(c) \/ ClearRevert(c) PROVE Alone'
  <2>1. /\ at' = [at EXCEPT ![c] = "idle"] /\ at[c] \in Undoes
        /\ UNCHANGED <<raced, busy>>
    BY <1>11 DEF SetRevert, ClearRevert, MoveTo, Undoes
  <2>2. ~raced => \A d \in Clients : at'[d] = "idle"
    BY <1>1, <2>1 DEF Alone
  <2>3. \A d \in Clients : at'[d] \in {"turn", "shell"} => busy' = d
    BY <1>1, <2>1 DEF Alone
  <2> QED
    BY <2>1, <2>2, <2>3 DEF Alone, Undoes
<1>12. CASE UNCHANGED revertVars
  BY <1>12 DEF revertVars, Alone
<1> QED
  BY <1>2, <1>3, <1>4, <1>5, <1>6, <1>7, <1>8, <1>9, <1>10, <1>11, <1>12 DEF RevertNext

\* A cleanup still has to delete what is undone, and nothing else.
Doomed ==
  /\ \A c \in Clients : at[c] # "delete" => doomed[c] = {}
  /\ \A c \in Clients : \A i \in doomed[c] : i <= last
  /\ ~raced => \A c \in Clients : at[c] = "delete" =>
       \A p \in history : p.id \in doomed[c] <=> marker # Unset /\ p.id >= marker.id

LEMMA DoomedStep ==
  ASSUME TypedInv, Alone, Doomed, [RevertNext]_revertVars
  PROVE  Doomed'
<1>1. /\ at \in [Clients -> Places] /\ doomed \in [Clients -> SUBSET Nat] /\ last \in Nat
      /\ \A p \in history : p.id \in 1..last
  BY DEF TypedInv, Typed, Pieces
<1>2. ASSUME NEW c \in Clients, Prompt(c) \/ Shell(c) PROVE Doomed'
  <2>1. UNCHANGED <<history, last, marker>> /\ (raced => raced')
    BY <1>2 DEF Prompt, Shell
  <2>2. CASE marker = Unset
    <3>1. at' = [at EXCEPT ![c] = "save"] /\ doomed' = doomed /\ at[c] = "idle"
      BY <1>2, <2>2 DEF Prompt, Shell, Cleanup, MoveTo
    <3> QED
      BY <1>1, <2>1, <3>1 DEF Doomed
  <2>3. CASE marker # Unset
    <3>1. /\ at' = [at EXCEPT ![c] = "delete"]
          /\ doomed' = [doomed EXCEPT ![c] = Removed(marker.id)]
      BY <1>2, <2>3 DEF Prompt, Shell, Cleanup, MoveTo
    <3>2. \A i : i \in Removed(marker.id) <=> \E p \in history : p.id >= marker.id /\ i = p.id
      BY DEF Removed, Ids, From
    <3>3. \A i \in Removed(marker.id) : i <= last
      BY <1>1, <3>2
    <3>4. \A p \in history : p.id \in Removed(marker.id) <=> p.id >= marker.id
      BY <3>2 DEF TypedInv, Pieces
    <3> QED
      BY <1>1, <2>1, <2>3, <3>1, <3>3, <3>4 DEF Doomed
  <2> QED
    BY <2>2, <2>3
<1>3. ASSUME NEW c \in Clients, Delete(c) PROVE Doomed'
  <2>1. PICK i \in doomed[c] :
          /\ history' = {p \in history : p.id # i}
          /\ doomed' = [doomed EXCEPT ![c] = doomed[c] \ {i}]
    BY <1>3 DEF Delete
  <2>2. UNCHANGED <<last, marker, at, raced>>
    BY <1>3 DEF Delete
  <2> QED
    BY <1>1, <2>1, <2>2 DEF Doomed
<1>4. ASSUME NEW c \in Clients, EndCleanup(c) PROVE Doomed'
  <2>1. /\ at[c] = "delete" /\ doomed[c] = {} /\ marker' = Unset
        /\ at' = [at EXCEPT ![c] = "save"]
        /\ UNCHANGED <<history, last, doomed, raced>>
    BY <1>4 DEF EndCleanup, MoveTo
  <2>2. ~raced => \A p \in history : ~(marker # Unset /\ p.id >= marker.id)
    BY <2>1 DEF Doomed
  <2> QED
    BY <1>1, <2>1, <2>2 DEF Doomed
<1>5. ASSUME NEW c \in Clients, Save(c) \/ EndTurn(c) \/ Find(c) \/ Track(c) \/ Restore(c)
      PROVE  Doomed'
  <2>1. PICK l \in {"turn", "shell", "idle", "track", "undo", "restored"} :
          at' = [at EXCEPT ![c] = l]
    BY <1>5 DEF Save, EndTurn, Find, Track, Restore, MoveTo
  <2>2. at[c] # "delete" /\ UNCHANGED <<history, last, marker, doomed, raced>>
    BY <1>5 DEF Save, EndTurn, Find, Track, Restore
  <2> QED
    BY <1>1, <2>1, <2>2 DEF Doomed
<1>6. ASSUME NEW c \in Clients, TakeStep(c) PROVE Doomed'
  <2>1. PICK p : history' = history \cup {p} /\ p.id = last + 1
    <3>1. PICK t \in Trees :
            history' = history \cup {[id |-> last + 1, hash |-> tree, after |-> t,
                                     files |-> {f \in Files : t[f] # tree[f]}]}
      BY <1>6 DEF TakeStep
    <3> DEFINE p == [id |-> last + 1, hash |-> tree, after |-> t,
                     files |-> {f \in Files : t[f] # tree[f]}]
    <3>2. history' = history \cup {p} /\ p.id = last + 1
      BY <3>1
    <3> QED
      BY <3>2
  <2>2. last' = last + 1 /\ at[c] = "turn" /\ UNCHANGED <<marker, at, doomed, raced>>
    BY <1>6 DEF TakeStep
  <2>3. ~raced => marker = Unset
    BY <2>2 DEF Alone
  <2>4. \A d \in Clients : \A i \in doomed[d] : i <= last'
    BY <1>1, <2>2 DEF Doomed
  <2>5. \A d \in Clients : p.id \notin doomed[d]
    BY <1>1, <2>1 DEF Doomed
  <2> QED
    BY <2>1, <2>2, <2>3, <2>4, <2>5 DEF Doomed
<1>7. ASSUME NEW c \in Clients, Revert(c) \/ Unrevert(c) PROVE Doomed'
  <2>1. PICK l \in Places \ {"delete"} : at' = [at EXCEPT ![c] = l]
    BY <1>7 DEF Revert, Unrevert, MoveTo, Places, Undoes
  <2>2. at[c] = "idle" /\ (raced => raced') /\ UNCHANGED <<history, last, marker, doomed>>
    BY <1>7 DEF Revert, Unrevert
  <2> QED
    BY <1>1, <2>1, <2>2 DEF Doomed
<1>8. ASSUME NEW c \in Clients, SetRevert(c) \/ ClearRevert(c) PROVE Doomed'
  <2>1. /\ at' = [at EXCEPT ![c] = "idle"] /\ at[c] \in Undoes
        /\ UNCHANGED <<history, last, doomed, raced>>
    BY <1>8 DEF SetRevert, ClearRevert, MoveTo, Undoes
  <2>2. ~raced => \A d \in Clients : at'[d] = "idle"
    BY <1>1, <2>1 DEF Alone
  <2> QED
    BY <1>1, <2>1, <2>2 DEF Doomed, Undoes
<1>9. CASE (\E c \in Clients : UndoFile(c)) \/ UNCHANGED revertVars
  BY <1>9 DEF UndoFile, revertVars, Doomed
<1> QED
  BY <1>2, <1>3, <1>4, <1>5, <1>6, <1>7, <1>8, <1>9 DEF RevertNext

\* The snapshot of the marker is what the files were before the first undo,
\* however often undo is repeated.
Saved ==
  ~raced =>
    /\ marker # Unset => marker.snapshot = intact
    /\ \A c \in Clients : at[c] \in {"find", "track"} /\ marker = Unset => tree = intact
    /\ \A c \in Clients : at[c] = "undo" => target[c].snapshot = intact
    /\ \A c \in Clients : at[c] \in {"restore", "restored"} =>
         marker # Unset /\ target[c] = marker
    /\ \A c \in Clients : at[c] = "restored" =>
         \A f \in Files : marker.snapshot[f] # Absent => tree[f] = marker.snapshot[f]

LEMMA SavedStep ==
  ASSUME TypedInv, Alone, Saved, [RevertNext]_revertVars
  PROVE  Saved'
<1>1. /\ at \in [Clients -> Places] /\ target \in [Clients -> Mark \cup {Unset}]
      /\ tree \in Trees
  BY DEF TypedInv, Typed
<1> SUFFICES ASSUME ~raced' PROVE Saved'
  BY DEF Saved
<1>2. ~raced
  BY DEF RevertNext, revertVars, Prompt, Shell, Delete, EndCleanup, Save, TakeStep,
         EndTurn, Revert,
         Find, Track, UndoFile, SetRevert, Unrevert, Restore, ClearRevert
<1> USE <1>2
<1>3. ASSUME NEW c \in Clients, at[c] \notin Undoes, at'[c] \notin Undoes,
             \A d \in Clients : d # c => at'[d] = at[d],
             marker' = Unset \/ UNCHANGED <<marker, intact>>,
             \A d \in Clients : at[d] \notin Undoes
      PROVE  Saved'
  BY <1>3 DEF Saved, Undoes
<1>4. ASSUME NEW c \in Clients, at[c] \in {"delete", "save", "turn", "shell"}
      PROVE  \A d \in Clients : at[d] \notin Undoes
  BY <1>1, <1>4 DEF Alone, Undoes
<1>5. ASSUME NEW c \in Clients, Prompt(c) \/ Shell(c) PROVE Saved'
  <2>1. /\ \E l \in {"save", "delete"} : at' = [at EXCEPT ![c] = l]
        /\ at[c] = "idle" /\ ~Undoing /\ UNCHANGED <<marker, intact>>
    BY <1>5 DEF Prompt, Shell, Cleanup, MoveTo
  <2> QED
    BY <1>1, <1>3, <2>1 DEF Undoing, Undoes
<1>6. ASSUME NEW c \in Clients,
             Delete(c) \/ EndCleanup(c) \/ Save(c) \/ TakeStep(c) \/ EndTurn(c)
      PROVE  Saved'
  <2>1. /\ at[c] \in {"delete", "save", "turn", "shell"}
        /\ marker' = Unset \/ UNCHANGED <<marker, intact>>
    BY <1>6 DEF Delete, EndCleanup, Save, TakeStep, EndTurn
  <2>2. at' = at \/ \E l \in {"save", "turn", "shell", "idle"} : at' = [at EXCEPT ![c] = l]
    BY <1>6 DEF Delete, EndCleanup, Save, TakeStep, EndTurn, MoveTo
  <2>3. at[c] \notin Undoes /\ at'[c] \notin Undoes /\ \A d \in Clients : d # c => at'[d] = at[d]
    BY <1>1, <2>1, <2>2 DEF Undoes
  <2> QED
    BY <1>3, <1>4, <2>1, <2>3
<1>7. ASSUME NEW c \in Clients, at'[c] = "idle" \/ at'[c] \in Undoes,
             \A d \in Clients : d # c => at'[d] = "idle",
             marker' # Unset => marker'.snapshot = intact',
             at'[c] \in {"find", "track"} /\ marker' = Unset => tree' = intact',
             at'[c] = "undo" => target'[c].snapshot = intact',
             at'[c] \in {"restore", "restored"} => marker' # Unset /\ target'[c] = marker',
             at'[c] = "restored" =>
               \A f \in Files : marker'.snapshot[f] # Absent => tree'[f] = marker'.snapshot[f]
      PROVE  Saved'
  <2> SUFFICES ASSUME NEW d \in Clients
               PROVE  /\ at'[d] \in {"find", "track"} /\ marker' = Unset => tree' = intact'
                      /\ at'[d] = "undo" => target'[d].snapshot = intact'
                      /\ at'[d] \in {"restore", "restored"} =>
                           marker' # Unset /\ target'[d] = marker'
                      /\ at'[d] = "restored" => \A f \in Files :
                           marker'.snapshot[f] # Absent => tree'[f] = marker'.snapshot[f]
    BY <1>7 DEF Saved
  <2> QED
    BY <1>7
<1>8. ASSUME NEW c \in Clients, Revert(c) \/ Unrevert(c) PROVE Saved'
  <2>1. ~Undoing /\ ~Prompting /\ busy = Unset /\ UNCHANGED <<tree, marker>>
    BY <1>8 DEF Revert, Unrevert
  <2>2. \A d \in Clients : at[d] = "idle"
    BY <1>1, <2>1, UnsetAssumption DEF Undoing, Prompting, Alone, Places, Undoes
  <2>3. CASE Revert(c)
    <3>1. /\ at' = [at EXCEPT ![c] = "find"]
          /\ intact' = IF marker = Unset THEN tree ELSE intact
      BY <2>3 DEF Revert, MoveTo
    <3>2. at'[c] = "find" /\ \A d \in Clients : d # c => at'[d] = "idle"
      BY <1>1, <2>2, <3>1
    <3> QED
      BY <1>7, <2>1, <3>1, <3>2 DEF Saved, Undoes
  <2>4. CASE Unrevert(c)
    <3>1. /\ at' = [at EXCEPT ![c] = "restore"] /\ target' = [target EXCEPT ![c] = marker]
          /\ marker # Unset /\ intact' = intact
      BY <2>4 DEF Unrevert, MoveTo
    <3>2. at'[c] = "restore" /\ target'[c] = marker /\ \A d \in Clients : d # c => at'[d] = "idle"
      BY <1>1, <2>2, <3>1
    <3> QED
      BY <1>7, <2>1, <3>1, <3>2 DEF Saved, Undoes
  <2> QED
    BY <1>8, <2>3, <2>4
<1>9. ASSUME NEW c \in Clients, at[c] \in Undoes, NEW l \in Places, at' = [at EXCEPT ![c] = l]
      PROVE  at'[c] = l /\ \A d \in Clients : d # c => at'[d] = "idle"
  BY <1>1, <1>9 DEF Alone
<1>10. ASSUME NEW c \in Clients, Find(c) PROVE Saved'
  <2>1. /\ at[c] = "find" /\ UNCHANGED <<tree, marker, intact>>
        /\ \E l \in {"idle", "track"} : at' = [at EXCEPT ![c] = l]
    BY <1>10 DEF Find, MoveTo
  <2>2. at'[c] \in {"idle", "track"} /\ \A d \in Clients : d # c => at'[d] = "idle"
    BY <1>9, <2>1 DEF Undoes, Places
  <2> QED
    BY <1>7, <2>1, <2>2 DEF Saved, Undoes
<1>11. ASSUME NEW c \in Clients, Track(c) PROVE Saved'
  <2>1. /\ at[c] = "track" /\ UNCHANGED <<tree, marker, intact>>
        /\ at' = [at EXCEPT ![c] = "undo"] /\ target' = [target EXCEPT ![c].snapshot = Kept]
    BY <1>11 DEF Track, MoveTo
  <2>2. at'[c] = "undo" /\ \A d \in Clients : d # c => at'[d] = "idle"
    BY <1>9, <2>1 DEF Undoes, Places
  <2>3. target[c] \in Mark
    BY <2>1 DEF TypedInv, Typed
  <2>4. target'[c].snapshot = Kept
    BY <1>1, <2>1, <2>3 DEF Mark
  <2>5. Kept = intact
    BY <2>1 DEF Kept, Saved
  <2> QED
    BY <1>7, <2>1, <2>2, <2>4, <2>5 DEF Saved, Undoes
<1>12. ASSUME NEW c \in Clients, UndoFile(c) PROVE Saved'
  <2>1. at[c] = "undo" /\ UNCHANGED <<marker, intact, at, target>>
    BY <1>12 DEF UndoFile
  <2>2. \A d \in Clients : d # c => at'[d] = "idle"
    BY <2>1 DEF Alone, Undoes
  <2> QED
    BY <1>7, <2>1, <2>2 DEF Saved, Undoes
<1>13. ASSUME NEW c \in Clients, SetRevert(c) PROVE Saved'
  <2>1. /\ at[c] = "undo" /\ intact' = intact /\ marker' = target[c]
        /\ at' = [at EXCEPT ![c] = "idle"]
    BY <1>13 DEF SetRevert, MoveTo
  <2>2. at'[c] = "idle" /\ \A d \in Clients : d # c => at'[d] = "idle"
    BY <1>9, <2>1 DEF Undoes, Places
  <2> QED
    BY <1>7, <2>1, <2>2 DEF Saved, Undoes
<1>14. ASSUME NEW c \in Clients, Restore(c) PROVE Saved'
  <2>1. /\ at[c] = "restore" /\ UNCHANGED <<marker, intact, target>>
        /\ at' = [at EXCEPT ![c] = "restored"] /\ tree' = Restored(target[c].snapshot)
    BY <1>14 DEF Restore, MoveTo
  <2>2. at'[c] = "restored" /\ \A d \in Clients : d # c => at'[d] = "idle"
    BY <1>9, <2>1 DEF Undoes, Places
  <2>3. marker # Unset /\ target[c] = marker
    BY <2>1 DEF Saved
  <2>4. \A f \in Files : marker.snapshot[f] # Absent => tree'[f] = marker.snapshot[f]
    BY <2>1, <2>3 DEF Restored
  <2> QED
    BY <1>7, <2>1, <2>2, <2>3, <2>4 DEF Saved, Undoes
<1>15. ASSUME NEW c \in Clients, ClearRevert(c) PROVE Saved'
  <2>1. at[c] = "restored" /\ marker' = Unset /\ at' = [at EXCEPT ![c] = "idle"]
    BY <1>15 DEF ClearRevert, MoveTo
  <2>2. at'[c] = "idle" /\ \A d \in Clients : d # c => at'[d] = "idle"
    BY <1>9, <2>1 DEF Undoes, Places
  <2> QED
    BY <1>7, <2>1, <2>2
<1>16. CASE UNCHANGED revertVars
  BY <1>16 DEF revertVars, Saved
<1> QED
  BY <1>5, <1>6, <1>8, <1>10, <1>11, <1>12, <1>13, <1>14, <1>15, <1>16 DEF RevertNext

(***************************************************************************)
(* The files and the messages.                                             *)
(***************************************************************************)
Deleting == \E c \in Clients : at[c] = "delete"

\* What was before a piece is what the pieces before it led to.
Chained == \A p \in history :
  marker = Unset \/ p.id < marker.id \/ ~Deleting => p.hash = Sight(p.id)

\* The files are those of the messages in sight until an undo changes them.
InSight == (\A c \in Clients : at[c] \notin {"undo", "restored"}) => tree = Told

\* A snapshot has what all the messages led to.
Whole ==
  /\ marker # Unset /\ ~Deleting => marker.snapshot = Tip(history)
  /\ \A c \in Clients : at[c] = "undo" => target[c].snapshot = Tip(history)
  /\ \A c \in Clients : at[c] = "restored" => tree = marker.snapshot

\* An undo that goes back gives to each file what the messages it leaves in
\* sight led to: the plan has it, or the file holds it already.
Planned ==
  \A c \in Clients :
    at[c] \in {"track", "undo"} /\ (marker = Unset \/ target[c].id <= marker.id) =>
      \A f \in Files :
        Sight(target[c].id)[f] = IF f \in DOMAIN plan[c] THEN plan[c][f] ELSE tree[f]

Agrees == ~raced /\ ~astray => Chained /\ InSight /\ Whole /\ Planned

LEMMA SightSame ==
  ASSUME UNCHANGED <<history, origin>>
  PROVE  /\ \A i \in Nat : Sight(i)' = Sight(i)
         /\ Tip(history)' = Tip(history)
  BY DEF Sight, Tip, Before

LEMMA ToldIs ==
  /\ marker = Unset => Told = Tip(history)
  /\ marker # Unset => Told = Sight(marker.id)
  BY DEF Told, Sight

LEMMA NewestOf ==
  ASSUME NEW h, NEW p \in h, p.id \in Nat,
         \A q \in h : q.id \in Nat /\ q.id <= p.id /\ (q.id = p.id => q = p)
  PROVE  Newest(h) = p
<1>1. Newest(h) \in h /\ \A q \in h : q.id <= Newest(h).id
  BY DEF Newest
<1>2. p.id <= Newest(h).id /\ Newest(h).id <= p.id /\ Newest(h).id \in Nat
  BY <1>1
<1>3. Newest(h).id = p.id
  BY <1>2
<1> QED
  BY <1>1, <1>3

\* Nothing is undone or redone while another call is in the session.
LEMMA NoUndo ==
  ASSUME TypedInv, Alone, ~raced, NEW c \in Clients, at[c] \in {"delete", "save", "turn", "shell"}
  PROVE  \A d \in Clients : at[d] \notin Undoes
  BY DEF Alone, Undoes

LEMMA DeleteAgrees ==
  ASSUME TypedInv, Alone, Doomed, Agrees, ~raced, ~astray, NEW c \in Clients, Delete(c)
  PROVE  Agrees'
<1>1. PICK i \in doomed[c] : history' = {p \in history : p.id # i}
  BY DEF Delete
<1>2. at[c] = "delete" /\ UNCHANGED <<tree, origin, marker, at>>
  BY DEF Delete
<1>3. \A d \in Clients : at[d] \notin Undoes
  BY <1>2, NoUndo
<1>4. Deleting /\ Deleting'
  BY <1>2 DEF Deleting
<1>5. InSight /\ Chained
  BY DEF Agrees
<1>6. tree = Told
  BY <1>3, <1>5 DEF InSight, Undoes
<1>7. CASE marker = Unset
  <2>1. history' = history
    BY <1>1, <1>2, <1>7 DEF Doomed
  <2>2. Chained'
    <3>1. \A p \in history : p.id \in Nat
      BY DEF TypedInv, Pieces
    <3> QED
      BY <1>2, <1>5, <1>7, <2>1, <3>1, SightSame DEF Chained
  <2>3. Told' = Told
    BY <1>2, <2>1 DEF Told, Tip, Before
  <2> QED
    BY <1>2, <1>3, <1>6, <1>7, <2>2, <2>3 DEF Agrees, InSight, Whole, Planned, Undoes
<1>8. CASE marker # Unset
  <2>1. marker.id \in Nat /\ \A p \in history : p.id \in Nat
    BY <1>8 DEF TypedInv, Typed, Mark, Pieces
  <2>2. \A p \in history : p.id = i => p.id >= marker.id
    BY <1>1, <1>2, <1>8 DEF Doomed
  <2>3. \A j \in Nat : j <= marker.id => Before(j)' = Before(j)
    BY <1>1, <2>1, <2>2 DEF Before
  <2>4. \A j \in Nat : j <= marker.id => Sight(j)' = Sight(j)
    BY <1>2, <2>3 DEF Sight, Tip
  <2>5. Chained'
    BY <1>1, <1>2, <1>4, <1>5, <1>8, <2>1, <2>4 DEF Chained
  <2>6. Told' = Told
    <3>1. Told = Sight(marker.id)
      BY <1>8, ToldIs
    <3>2. Told' = Sight(marker.id)'
      BY <1>2, <1>8 DEF Told, Sight
    <3>3. Before(marker.id)' = Before(marker.id)
      BY <1>1, <1>2, <2>1, <2>2 DEF Before
    <3> QED
      BY <1>2, <3>1, <3>2, <3>3 DEF Sight, Tip
  <2> QED
    BY <1>2, <1>3, <1>4, <1>6, <2>5, <2>6 DEF Agrees, InSight, Whole, Planned, Undoes
<1> QED
  BY <1>7, <1>8

LEMMA EndCleanupAgrees ==
  ASSUME TypedInv, Alone, Doomed, Agrees, ~raced, ~astray, NEW c \in Clients, EndCleanup(c)
  PROVE  Agrees'
<1>1. /\ at[c] = "delete" /\ doomed[c] = {} /\ marker' = Unset
      /\ at' = [at EXCEPT ![c] = "save"] /\ UNCHANGED <<tree, origin, history>>
  BY DEF EndCleanup, MoveTo
<1>2. \A d \in Clients : at[d] \notin Undoes
  BY <1>1, NoUndo
<1>3. \A d \in Clients : at'[d] \notin Undoes
  BY <1>1, <1>2 DEF TypedInv, Typed, Undoes
<1>4. InSight /\ Chained
  BY DEF Agrees
<1>5. tree = Told
  BY <1>2, <1>4 DEF InSight, Undoes
<1>6. \A p \in history : p.id \in Nat
  BY DEF TypedInv, Pieces
<1>7. marker # Unset => marker.id \in Nat
  BY DEF TypedInv, Typed, Mark
<1>8. marker # Unset => \A p \in history : p.id < marker.id
  BY <1>1, <1>6, <1>7 DEF Doomed
<1>9. \A p \in history : p.hash = Sight(p.id)
  BY <1>4, <1>8 DEF Chained
<1>10. Tip(history) = Told
  BY <1>7, <1>8, SightAll, ToldIs DEF TypedInv
<1>11. Told' = Tip(history)
  BY <1>1 DEF Told, Tip
<1>12. Chained'
  BY <1>1, <1>6, <1>9, SightSame DEF Chained
<1> QED
  BY <1>1, <1>3, <1>5, <1>10, <1>11, <1>12 DEF Agrees, InSight, Whole, Planned, Undoes

LEMMA TakeStepAgrees ==
  ASSUME TypedInv, Alone, Agrees, ~raced, ~astray, NEW c \in Clients, TakeStep(c)
  PROVE  Agrees'
<1>1. /\ at[c] = "turn" /\ UNCHANGED <<origin, marker, at>>
  BY DEF TakeStep
<1>2. marker = Unset /\ \A d \in Clients : at[d] \notin Undoes
  BY <1>1, NoUndo DEF Alone
<1>3. InSight /\ Chained
  BY DEF Agrees
<1>4. tree = Tip(history)
  BY <1>2, <1>3, ToldIs DEF InSight, Undoes
<1>5. PICK p : /\ history' = history \cup {p} /\ p.id = last + 1
               /\ p.hash = tree /\ tree' = p.after
  <2>1. PICK t \in Trees :
          /\ tree' = t
          /\ history' = history \cup {[id |-> last + 1, hash |-> tree, after |-> t,
                                       files |-> {f \in Files : t[f] # tree[f]}]}
    BY DEF TakeStep
  <2> DEFINE p == [id |-> last + 1, hash |-> tree, after |-> t,
                   files |-> {f \in Files : t[f] # tree[f]}]
  <2>2. /\ history' = history \cup {p} /\ p.id = last + 1
        /\ p.hash = tree /\ tree' = p.after
    BY <2>1
  <2> QED
    BY <2>2
<1>6. last \in Nat /\ \A q \in history : q.id \in Nat /\ q.id < p.id
  BY <1>5 DEF TypedInv, Pieces
<1>7. p.id \in Nat /\ p \in history' /\ history' # {}
  BY <1>5, <1>6
<1>8. \A i \in Nat : i <= p.id => Before(i)' = Before(i)
  BY <1>5, <1>6 DEF Before
<1>9. \A i \in Nat : i <= p.id => Sight(i)' = Sight(i)
  BY <1>1, <1>8 DEF Sight, Tip
<1>10. Sight(p.id) = Tip(history)
  BY <1>6, <1>7, SightAll DEF TypedInv
<1>11. \A q \in history : q.hash = Sight(q.id)
  BY <1>2, <1>3 DEF Chained
<1>12. Chained'
  BY <1>4, <1>5, <1>6, <1>7, <1>9, <1>10, <1>11 DEF Chained
<1>13. Told' = tree'
  <2>1. Newest(history') = p
    <3>1. \A q \in history' : q.id \in Nat /\ q.id <= p.id /\ (q.id = p.id => q = p)
      BY <1>5, <1>6, <1>7
    <3> QED
      BY <1>7, <3>1, NewestOf
  <2>2. Told' = Newest(history').after
    BY <1>1, <1>2, <1>7 DEF Told, Tip
  <2> QED
    BY <1>5, <2>1, <2>2
<1> QED
  BY <1>1, <1>2, <1>12, <1>13 DEF Agrees, InSight, Whole, Planned, Undoes

LEMMA FindAgrees ==
  ASSUME TypedInv, Chained, InSight, ~Deleting, NEW c \in Clients, NEW i \in Nat,
         \A d \in Clients : at[d] \notin {"undo", "restored"},
         marker = Unset \/ i <= marker.id, NEW f \in Files
  PROVE  Sight(i)[f] = IF f \in DOMAIN Wanted(From(i)) THEN Wanted(From(i))[f] ELSE tree[f]
<1>1. tree = Told /\ \A p \in history : p.hash = Sight(p.id)
  BY DEF Chained, InSight
<1>2. DOMAIN Wanted(From(i)) = Touched(From(i))
  BY WantedTyped DEF TypedInv
<1>3. \A p \in history : p.id \in Nat /\ p.id < last + 1
  BY DEF TypedInv, Pieces
<1>4. last + 1 \in Nat
  BY DEF TypedInv, Pieces
<1>5. CASE f \in Touched(From(i))
  BY <1>1, <1>2, <1>5, WantedIs DEF TypedInv
<1>6. CASE f \notin Touched(From(i))
  <2>1. \A p \in history : i <= p.id => f \notin p.files
    BY <1>3, <1>6 DEF Touched, From
  <2>2. CASE marker = Unset
    <3>1. tree = Sight(last + 1)
      BY <1>1, <1>3, <1>4, <2>2, SightAll, ToldIs DEF TypedInv
    <3>2. CASE i <= last + 1
      <4>1. Sight(last + 1)[f] = Sight(i)[f]
        BY <1>1, <1>4, <2>1, <3>2, Untouched DEF TypedInv, LinkedTo
      <4> QED
        BY <1>2, <1>6, <3>1, <4>1
    <3>3. CASE ~(i <= last + 1)
      <4>1. \A p \in history : p.id < i
        BY <1>3, <1>4, <3>3
      <4>2. Sight(i) = Tip(history) /\ Sight(last + 1) = Tip(history)
        BY <1>3, <1>4, <4>1, SightAll DEF TypedInv
      <4> QED
        BY <1>2, <1>6, <3>1, <4>2
    <3> QED
      BY <3>2, <3>3
  <2>3. CASE marker # Unset
    <3>1. marker.id \in Nat /\ i <= marker.id
      BY <2>3 DEF TypedInv, Typed, Mark
    <3>2. Sight(marker.id)[f] = Sight(i)[f]
      BY <1>1, <2>1, <3>1, Untouched DEF TypedInv, LinkedTo
    <3>3. tree = Sight(marker.id)
      BY <1>1, <2>3, ToldIs
    <3> QED
      BY <1>2, <1>6, <3>2, <3>3
  <2> QED
    BY <2>2, <2>3
<1> QED
  BY <1>5, <1>6

\* A call of undo or redo goes on: nobody else has begun.
LEMMA UndoMoves ==
  ASSUME TypedInv, Alone, ~raced, NEW c \in Clients, at[c] \in Undoes,
         NEW l \in Places, at' = [at EXCEPT ![c] = l]
  PROVE  at'[c] = l /\ \A d \in Clients : d # c => at[d] = "idle" /\ at'[d] = "idle"
  BY DEF TypedInv, Typed, Alone

\* What is left to show where one call alone is in the session.
LEMMA AgreesAlone ==
  ASSUME NEW c \in Clients, at'[c] # "delete",
         \A d \in Clients : d # c => at'[d] = "idle",
         \A p \in history' : p.hash = Sight(p.id)',
         at'[c] \notin {"undo", "restored"} => tree' = Told',
         marker' # Unset => marker'.snapshot = Tip(history)',
         at'[c] = "undo" => target'[c].snapshot = Tip(history)',
         at'[c] = "restored" => tree' = marker'.snapshot,
         at'[c] \in {"track", "undo"} /\ (marker' = Unset \/ target'[c].id <= marker'.id) =>
           \A f \in Files : Sight(target[c].id)'[f] =
             IF f \in DOMAIN plan'[c] THEN plan'[c][f] ELSE tree'[f]
  PROVE  Agrees'
<1>1. Chained'
  BY DEF Chained
<1>2. InSight'
  BY DEF InSight
<1>3. Whole'
  BY DEF Whole
<1>4. Planned'
  <2> SUFFICES ASSUME NEW d \in Clients, at'[d] \in {"track", "undo"},
                      marker' = Unset \/ target'[d].id <= marker'.id, NEW f \in Files
               PROVE  Sight(target[d].id)'[f] =
                        IF f \in DOMAIN plan'[d] THEN plan'[d][f] ELSE tree'[f]
    BY DEF Planned
  <2>1. d = c
    OBVIOUS
  <2> QED
    BY <2>1
<1> QED
  BY <1>1, <1>2, <1>3, <1>4 DEF Agrees

\* Nothing of an undo is disturbed where no undo is at work.
LEMMA AgreesAside ==
  ASSUME TypedInv, Agrees, ~raced, ~astray, UNCHANGED <<tree, origin, history, marker>>,
         NEW c \in Clients, NEW l \in Places, at' = [at EXCEPT ![c] = l],
         \A d \in Clients : at[d] \notin {"track", "undo", "restored"},
         l \notin {"track", "undo", "restored"},
         marker # Unset => l = "delete" \/ at[c] # "delete"
  PROVE  Agrees'
<1>1. /\ \A d \in Clients : at'[d] \notin {"track", "undo", "restored"}
      /\ marker # Unset => (Deleting => Deleting')
  BY DEF TypedInv, Typed, Deleting
<1>2. /\ \A p \in history : Sight(p.id)' = Sight(p.id)
      /\ Tip(history)' = Tip(history) /\ Told' = Told
  BY SightSame DEF TypedInv, Pieces, Told, Tip, Before
<1>3. Chained'
  BY <1>1, <1>2 DEF Agrees, Chained
<1>4. InSight' /\ Whole' /\ Planned'
  BY <1>1, <1>2 DEF Agrees, InSight, Whole, Planned
<1> QED
  BY <1>3, <1>4 DEF Agrees

LEMMA AgreesStep ==
  ASSUME TypedInv, Alone, Doomed, Saved, Agrees, [RevertNext]_revertVars
  PROVE  Agrees'
<1>1. at \in [Clients -> Places] /\ \A p \in history : p.id \in Nat
  BY DEF TypedInv, Typed, Pieces
<1> SUFFICES ASSUME ~raced', ~astray' PROVE Agrees'
  BY DEF Agrees
<1>2. ~raced /\ ~astray
  <2>1. ~raced
    BY DEF RevertNext, revertVars, Prompt, Shell, Delete, EndCleanup, Save, TakeStep,
           EndTurn, Revert,
           Find, Track, UndoFile, SetRevert, Unrevert, Restore, ClearRevert
  <2>2. astray' = astray \/ \E c \in Clients : SetRevert(c) \/ Restore(c)
    BY DEF RevertNext, revertVars, Prompt, Shell, Delete, EndCleanup, Save, TakeStep,
           EndTurn, Revert,
           Find, Track, UndoFile, Unrevert, ClearRevert
  <2>3. ASSUME NEW c \in Clients, SetRevert(c) PROVE ~astray
    BY <2>3 DEF SetRevert
  <2>4. ASSUME NEW c \in Clients, Restore(c) PROVE ~astray
    BY <2>4 DEF Restore
  <2> QED
    BY <2>1, <2>2, <2>3, <2>4
<1> USE <1>2
<1>3. ASSUME NEW c \in Clients, Prompt(c) \/ Shell(c) PROVE Agrees'
  <2>1. PICK l \in {"save", "delete"} : at' = [at EXCEPT ![c] = l]
    BY <1>3 DEF Prompt, Shell, Cleanup, MoveTo
  <2>2. at[c] = "idle" /\ ~Undoing /\ UNCHANGED <<tree, origin, history, marker>>
    BY <1>3 DEF Prompt, Shell
  <2> QED
    BY <2>1, <2>2, AgreesAside DEF Undoing, Undoes, Places
<1>4. ASSUME NEW c \in Clients, Delete(c) \/ EndCleanup(c) \/ TakeStep(c) PROVE Agrees'
  BY <1>4, DeleteAgrees, EndCleanupAgrees, TakeStepAgrees
<1>5. ASSUME NEW c \in Clients, Save(c) \/ EndTurn(c) PROVE Agrees'
  <2>1. PICK l \in {"turn", "shell", "idle"} : at' = [at EXCEPT ![c] = l]
    BY <1>5 DEF Save, EndTurn, MoveTo
  <2>2. at[c] \in {"save", "turn", "shell"} /\ UNCHANGED <<tree, origin, history, marker>>
    BY <1>5 DEF Save, EndTurn
  <2>3. \A d \in Clients : at[d] \notin Undoes
    BY <2>2, NoUndo
  <2> QED
    BY <2>1, <2>2, <2>3, AgreesAside DEF Undoes, Places
<1>6. ASSUME NEW c \in Clients, Revert(c) \/ Unrevert(c) PROVE Agrees'
  <2>1. PICK l \in {"find", "restore"} : at' = [at EXCEPT ![c] = l]
    BY <1>6 DEF Revert, Unrevert, MoveTo
  <2>2. at[c] = "idle" /\ ~Undoing /\ UNCHANGED <<tree, origin, history, marker>>
    BY <1>6 DEF Revert, Unrevert
  <2> QED
    BY <2>1, <2>2, AgreesAside DEF Undoing, Undoes, Places
<1>7. ASSUME NEW c \in Clients, at[c] \in Undoes
      PROVE  /\ ~Deleting /\ \A p \in history : p.hash = Sight(p.id)
             /\ at[c] \notin {"undo", "restored"} => tree = Told
             /\ marker # Unset => marker.snapshot = Tip(history)
  <2>1. \A d \in Clients : d # c => at[d] = "idle"
    BY <1>7 DEF Alone
  <2>2. ~Deleting
    BY <1>7, <2>1 DEF Deleting, Undoes
  <2> QED
    BY <2>1, <2>2 DEF Agrees, Chained, InSight, Whole
<1>8. ASSUME NEW c \in Clients, Find(c) PROVE Agrees'
  <2>1. at[c] = "find" /\ UNCHANGED <<tree, origin, history, marker>>
    BY <1>8 DEF Find
  <2>2. \A d \in Clients : d # c => at[d] = "idle"
    BY <2>1 DEF Alone, Undoes
  <2>3. CASE MoveTo(c, "idle")
    BY <2>1, <2>2, <2>3, AgreesAside DEF MoveTo, Places
  <2>4. ASSUME NEW i \in Ids(history),
               target' = [target EXCEPT ![c] = [id |-> i, snapshot |-> Empty]],
               plan' = [plan EXCEPT ![c] = Wanted(From(i))],
               MoveTo(c, "track")
        PROVE  Agrees'
    <3>1. at'[c] = "track" /\ \A d \in Clients : d # c => at'[d] = "idle"
      BY <2>1, <2>4, UndoMoves DEF MoveTo, Undoes, Places
    <3>2. target'[c].id = i /\ plan'[c] = Wanted(From(i)) /\ i \in Nat
      BY <1>1, <2>4 DEF TypedInv, Typed, Ids
    <3>3. /\ ~Deleting /\ tree = Told /\ \A p \in history : p.hash = Sight(p.id)
          /\ marker # Unset => marker.snapshot = Tip(history)
      BY <1>7, <2>1 DEF Undoes
    <3>4. Chained /\ InSight
      BY DEF Agrees
    <3>5. ASSUME marker = Unset \/ i <= marker.id, NEW f \in Files
          PROVE  Sight(i)[f] = IF f \in DOMAIN Wanted(From(i)) THEN Wanted(From(i))[f] ELSE tree[f]
      BY <2>1, <2>2, <3>2, <3>3, <3>4, <3>5, FindAgrees
    <3>6. /\ Sight(i)' = Sight(i) /\ Tip(history)' = Tip(history)
          /\ \A p \in history : Sight(p.id)' = Sight(p.id)
      BY <1>1, <2>1, <3>2, SightSame
    <3>7. Told' = Told
      BY <2>1 DEF Told, Tip, Before
    <3>8. Sight(target[c].id)' = Sight(i)
      BY <2>1, <3>2 DEF Sight, Tip, Before
    <3> QED
      BY <2>1, <3>1, <3>2, <3>3, <3>5, <3>6, <3>7, <3>8, AgreesAlone
  <2> QED
    BY <1>8, <2>3, <2>4 DEF Find
<1>9. ASSUME NEW c \in Clients, Track(c) PROVE Agrees'
  <2>1. /\ at[c] = "track" /\ UNCHANGED <<tree, origin, history, marker, plan>>
        /\ at' = [at EXCEPT ![c] = "undo"] /\ target' = [target EXCEPT ![c].snapshot = Kept]
    BY <1>9 DEF Track, MoveTo
  <2>2. at'[c] = "undo" /\ \A d \in Clients : d # c => at'[d] = "idle"
    BY <2>1, UndoMoves DEF Undoes, Places
  <2>3. target[c] \in Mark /\ target \in [Clients -> Mark \cup {Unset}]
    BY <2>1 DEF TypedInv, Typed
  <2>4. target'[c].snapshot = Kept /\ target'[c].id = target[c].id
    BY <2>1, <2>3 DEF Mark
  <2>5. /\ tree = Told /\ \A p \in history : p.hash = Sight(p.id)
        /\ marker # Unset => marker.snapshot = Tip(history)
    BY <1>7, <2>1 DEF Undoes
  <2>6. Kept = Tip(history)
    BY <2>5, ToldIs DEF Kept
  <2>7. /\ \A i \in Nat : Sight(i)' = Sight(i)
        /\ Tip(history)' = Tip(history)
    BY <2>1, SightSame
  <2>8. Sight(target[c].id)' = Sight(target[c].id)
    BY <2>1, <2>4 DEF Sight, Tip, Before
  <2>9. marker = Unset \/ target[c].id <= marker.id => \A f \in Files :
          Sight(target[c].id)[f] = IF f \in DOMAIN plan[c] THEN plan[c][f] ELSE tree[f]
    BY <2>1 DEF Agrees, Planned
  <2> QED
    BY <1>1, <2>1, <2>2, <2>4, <2>5, <2>6, <2>7, <2>8, <2>9, AgreesAlone
<1>10. ASSUME NEW c \in Clients, UndoFile(c) PROVE Agrees'
  <2>1. at[c] = "undo" /\ UNCHANGED <<origin, history, marker, at, target>>
    BY <1>10 DEF UndoFile
  <2>2. \A d \in Clients : d # c => at[d] = "idle"
    BY <2>1 DEF Alone, Undoes
  <2>3. PICK f \in DOMAIN plan[c] :
          /\ tree' = [tree EXCEPT ![f] = plan[c][f]]
          /\ plan' = [plan EXCEPT ![c] = [g \in DOMAIN plan[c] \ {f} |-> plan[c][g]]]
    BY <1>10 DEF UndoFile
  <2>4. /\ DOMAIN plan[c] \in SUBSET Files /\ tree \in [Files -> Contents \cup {Absent}]
        /\ plan'[c] = [g \in DOMAIN plan[c] \ {f} |-> plan[c][g]]
    BY <2>3 DEF TypedInv, Typed, Plans, Trees
  <2>5. /\ \A p \in history : p.hash = Sight(p.id)
        /\ marker # Unset => marker.snapshot = Tip(history)
        /\ target[c].snapshot = Tip(history)
    BY <1>7, <2>1 DEF Undoes, Agrees, Whole
  <2>6. /\ \A i \in Nat : Sight(i)' = Sight(i)
        /\ Tip(history)' = Tip(history)
        /\ Sight(target[c].id)' = Sight(target[c].id)
    BY <2>1 DEF Sight, Tip, Before
  <2>7. ASSUME marker = Unset \/ target[c].id <= marker.id, NEW g \in Files
        PROVE  Sight(target[c].id)[g] = IF g \in DOMAIN plan'[c] THEN plan'[c][g] ELSE tree'[g]
    <3>1. Sight(target[c].id)[g] = IF g \in DOMAIN plan[c] THEN plan[c][g] ELSE tree[g]
      BY <2>1, <2>7 DEF Agrees, Planned
    <3>2. CASE g = f
      BY <2>3, <2>4, <3>1, <3>2
    <3>3. CASE g # f
      BY <2>3, <2>4, <3>1, <3>3
    <3> QED
      BY <3>2, <3>3
  <2> QED
    BY <1>1, <2>1, <2>2, <2>5, <2>6, <2>7, AgreesAlone
<1>11. ASSUME NEW c \in Clients, SetRevert(c) PROVE Agrees'
  <2>1. /\ at[c] = "undo" /\ plan[c] = Nothing /\ marker' = target[c]
        /\ at' = [at EXCEPT ![c] = "idle"] /\ UNCHANGED <<tree, origin, history>>
        /\ marker = Unset \/ ~(target[c].id > marker.id)
    BY <1>11 DEF SetRevert, MoveTo
  <2>2. at'[c] = "idle" /\ \A d \in Clients : d # c => at'[d] = "idle"
    BY <2>1, UndoMoves DEF Undoes, Places
  <2>3. /\ \A p \in history : p.hash = Sight(p.id)
        /\ target[c].snapshot = Tip(history)
    BY <1>7, <2>1 DEF Undoes, Agrees, Whole
  <2>4. target[c] \in Mark /\ target[c] # Unset
    BY <2>1, UnsetAssumption DEF TypedInv, Typed, Mark
  <2>5. marker = Unset \/ target[c].id <= marker.id
    BY <2>1, <2>4 DEF TypedInv, Typed, Mark
  <2>6. tree = Sight(target[c].id)
    <3>1. \A f \in Files : Sight(target[c].id)[f] = tree[f]
      BY <2>1, <2>5 DEF Agrees, Planned, Nothing
    <3>2. Before(target[c].id) \in SUBSET history
      BY DEF Before
    <3>3. Sight(target[c].id) \in Trees /\ tree \in Trees
      BY <3>2, TipTyped DEF Sight, TypedInv, Typed
    <3> QED
      BY <3>1, <3>3 DEF Trees
  <2>7. /\ \A i \in Nat : Sight(i)' = Sight(i)
        /\ Tip(history)' = Tip(history)
    BY <2>1, SightSame
  <2>8. Told' = Sight(target[c].id)
    BY <2>1, <2>4 DEF Told, Sight, Tip, Before
  <2> QED
    BY <1>1, <2>1, <2>2, <2>3, <2>6, <2>7, <2>8, AgreesAlone
<1>12. ASSUME NEW c \in Clients, Restore(c) PROVE Agrees'
  <2>1. /\ at[c] = "restore" /\ UNCHANGED <<origin, history, marker, target>>
        /\ at' = [at EXCEPT ![c] = "restored"] /\ tree' = target[c].snapshot
    BY <1>12 DEF Restore, MoveTo
  <2>2. at'[c] = "restored" /\ \A d \in Clients : d # c => at'[d] = "idle"
    BY <2>1, UndoMoves DEF Undoes, Places
  <2>3. target[c] = marker
    BY <2>1 DEF Saved
  <2>4. /\ \A p \in history : p.hash = Sight(p.id)
        /\ marker # Unset => marker.snapshot = Tip(history)
    BY <1>7, <2>1 DEF Undoes
  <2>5. /\ \A i \in Nat : Sight(i)' = Sight(i)
        /\ Tip(history)' = Tip(history)
    BY <2>1, SightSame
  <2> QED
    BY <1>1, <2>1, <2>2, <2>3, <2>4, <2>5, AgreesAlone
<1>13. ASSUME NEW c \in Clients, ClearRevert(c) PROVE Agrees'
  <2>1. /\ at[c] = "restored" /\ marker' = Unset /\ UNCHANGED <<tree, origin, history>>
        /\ at' = [at EXCEPT ![c] = "idle"]
    BY <1>13 DEF ClearRevert, MoveTo
  <2>2. at'[c] = "idle" /\ \A d \in Clients : d # c => at'[d] = "idle"
    BY <2>1, UndoMoves DEF Undoes, Places
  <2>3. /\ \A p \in history : p.hash = Sight(p.id)
        /\ marker # Unset => marker.snapshot = Tip(history)
    BY <1>7, <2>1 DEF Undoes
  <2>4. marker # Unset /\ tree = marker.snapshot
    BY <2>1 DEF Saved, Agrees, Whole
  <2>5. /\ \A i \in Nat : Sight(i)' = Sight(i)
        /\ Tip(history)' = Tip(history)
    BY <2>1, SightSame
  <2>6. Told' = Tip(history)
    BY <2>1 DEF Told, Tip
  <2> QED
    BY <1>1, <2>1, <2>2, <2>3, <2>4, <2>5, <2>6, AgreesAlone
<1>14. CASE UNCHANGED revertVars
  <2>1. Chained' /\ InSight'
    BY <1>14 DEF revertVars, Agrees, Chained, InSight, Deleting, Sight, Told, Tip, Before
  <2>2. Whole'
    BY <1>14 DEF revertVars, Agrees, Whole, Deleting, Tip
  <2>3. /\ at' = at /\ marker' = marker /\ target' = target /\ plan' = plan /\ tree' = tree
        /\ \A i : Sight(i)' = Sight(i)
    BY <1>14 DEF revertVars, Sight, Tip, Before
  <2>4. Planned'
    BY <2>3 DEF Agrees, Planned
  <2> QED
    BY <2>1, <2>2, <2>4 DEF Agrees
<1> QED
  BY <1>3, <1>4, <1>5, <1>6, <1>8, <1>9, <1>10, <1>11, <1>12, <1>13, <1>14 DEF RevertNext

(***************************************************************************)
(* The theorems.                                                           *)
(***************************************************************************)
UndoInv == TypedInv /\ Alone /\ Doomed /\ Saved /\ Agrees

LEMMA UndoInit ==
  ASSUME RevertInit
  PROVE  UndoInv
<1>1. TypedInv
  BY TypedInit
<1>2. Alone /\ Doomed
  BY DEF RevertInit, Alone, Doomed, Undoes
<1>3. Saved
  BY DEF RevertInit, Saved
<1>4. Agrees
  BY DEF RevertInit, Agrees, Chained, InSight, Whole, Planned, Told, Tip
<1> QED
  BY <1>1, <1>2, <1>3, <1>4 DEF UndoInv

LEMMA UndoStep ==
  ASSUME UndoInv, [RevertNext]_revertVars
  PROVE  UndoInv'
  BY TypedStep, AloneStep, DoomedStep, SavedStep, AgreesStep DEF UndoInv

LEMMA UndoAlways == RevertSpec => []UndoInv
<1>1. RevertInit => UndoInv
  BY UndoInit
<1>2. UndoInv /\ [RevertNext]_revertVars => UndoInv'
  BY UndoStep
<1> QED
  BY <1>1, <1>2, PTL DEF RevertSpec

\* The files, the pieces, the marker and what the calls hold keep their types;
\* pieces have identifiers of their own and name exactly what they changed.
THEOREM UndoType == RevertSpec => [](Pieces /\ Typed)
<1>1. UndoInv => Pieces /\ Typed
  BY DEF UndoInv, TypedInv
<1> QED
  BY <1>1, UndoAlways, PTL

\* Undo after undo, and prompts that make it final, keep the files those that the
\* messages in sight led to (SessionRevert.revert, cleanup), unless an undo met
\* another call or a redo went astray.
THEOREM UndoKeepsFiles == RevertSpec => []FilesMatchMessages
<1>1. UndoInv => FilesMatchMessages
  BY DEF UndoInv, Agrees, InSight, FilesMatchMessages, Undoing, Undoes
<1> QED
  BY <1>1, UndoAlways, PTL

\* Unrevert brings back what the files held before the first of the undos, though
\* each of them changed the files and stored a marker anew.
THEOREM RedoGivesBack == RevertSpec => UnrevertGivesBack
<1>1. UndoInv /\ [RevertNext]_revertVars =>
        [\A c \in Clients :
           at[c] = "restored" /\ at'[c] = "idle" /\ ~raced =>
             \A f \in Files : intact[f] # Absent => tree[f] = intact[f]]_revertVars
  BY DEF UndoInv, Saved
<1> QED
  BY <1>1, UndoAlways, PTL DEF RevertSpec, UnrevertGivesBack

\* Only a cleanup deletes, and what it has listed is still undone.
LEMMA DeletesUndone ==
  ASSUME UndoInv, [RevertNext]_revertVars, ~raced, NEW i \in Ids(history) \ Ids(history')
  PROVE  marker # Unset /\ i >= marker.id
<1>1. PICK p \in history : i = p.id /\ p \notin history'
  BY DEF Ids
<1>2. PICK c \in Clients : Delete(c) \/ TakeStep(c)
  BY <1>1 DEF RevertNext, revertVars, Prompt, Shell, EndCleanup, Save, EndTurn, Revert,
              Find, Track, UndoFile, SetRevert, Unrevert, Restore, ClearRevert
<1>3. CASE Delete(c)
  <2>1. at[c] = "delete" /\ p.id \in doomed[c]
    BY <1>1, <1>3 DEF Delete
  <2> QED
    BY <1>1, <2>1 DEF UndoInv, Doomed
<1>4. CASE TakeStep(c)
  BY <1>1, <1>4 DEF TakeStep
<1> QED
  BY <1>2, <1>3, <1>4

\* cleanup deletes the messages that are undone and no other, also where a second
\* prompt deletes by a list it made before the first one was done.
THEOREM OnlyUndoneGoes == RevertSpec => OnlyUndoneIsDeleted
<1>1. UndoInv /\ [RevertNext]_revertVars =>
        [~raced => \A i \in Ids(history) \ Ids(history') :
                     marker # Unset /\ i >= marker.id]_revertVars
  BY DeletesUndone
<1> QED
  BY <1>1, UndoAlways, PTL DEF RevertSpec, OnlyUndoneIsDeleted

-----------------------------------------------------------------------------
(***************************************************************************)
(* The promise of undo and redo.  An undo of many steps counts as one, the *)
(* step that stores the marker, and a redo as the step that clears it.     *)
(* Until then the files shown are those of the messages in sight, which no *)
(* other call changes; and the piece an undo goes back to stays stored.    *)
(***************************************************************************)
Aimed ==
  ~raced => \A c \in Clients : at[c] \in {"track", "undo"} => target[c].id \in Ids(history)

LEMMA RacedStays ==
  ASSUME [RevertNext]_revertVars
  PROVE  (raced => raced') /\ (astray => astray')
<1>1. ASSUME NEW c \in Clients, Prompt(c) \/ Shell(c) \/ Revert(c) \/ Unrevert(c)
      PROVE  (raced => raced') /\ (astray => astray')
  <2>1. astray' = astray /\ \E x \in BOOLEAN : raced' = (raced \/ x)
    BY <1>1 DEF Prompt, Shell, Revert, Unrevert, Undoing, Prompting
  <2> QED
    BY <2>1
<1>4. ASSUME NEW c \in Clients, SetRevert(c) \/ Restore(c)
      PROVE  (raced => raced') /\ (astray => astray')
  <2>1. raced' = raced /\ \E x \in BOOLEAN : astray' = (astray \/ x)
    BY <1>4 DEF SetRevert, Restore
  <2> QED
    BY <2>1
<1>2. ASSUME NEW c \in Clients,
             \/ Delete(c) \/ EndCleanup(c) \/ Save(c) \/ TakeStep(c) \/ EndTurn(c)
             \/ Find(c) \/ Track(c) \/ UndoFile(c) \/ ClearRevert(c)
      PROVE  raced' = raced /\ astray' = astray
  BY <1>2 DEF Delete, EndCleanup, Save, TakeStep, EndTurn, Find, Track, UndoFile, ClearRevert
<1>3. CASE UNCHANGED revertVars
  BY <1>3 DEF revertVars
<1> QED
  BY <1>1, <1>2, <1>3, <1>4 DEF RevertNext

\* The steps that leave the line of the pieces alone.
Aside(c) ==
  \/ Prompt(c) \/ Shell(c) \/ Save(c) \/ EndTurn(c) \/ Revert(c) \/ Find(c) \/ Track(c)
  \/ UndoFile(c) \/ Unrevert(c) \/ Restore(c)

LEMMA AsideLeaves ==
  ASSUME NEW c \in Clients, Aside(c)
  PROVE  UNCHANGED <<origin, history, marker>>
<1>1. CASE Prompt(c) \/ Shell(c) \/ Save(c) \/ EndTurn(c) \/ Revert(c)
  BY <1>1 DEF Prompt, Shell, Save, EndTurn, Revert
<1>2. CASE Find(c) \/ Track(c) \/ UndoFile(c) \/ Unrevert(c) \/ Restore(c)
  BY <1>2 DEF Find, Track, UndoFile, Unrevert, Restore
<1> QED
  BY <1>1, <1>2 DEF Aside

LEMMA AimedStep ==
  ASSUME UndoInv, Aimed, [RevertNext]_revertVars
  PROVE  Aimed'
<1> SUFFICES ASSUME ~raced', NEW d \in Clients, at'[d] \in {"track", "undo"}
             PROVE  target'[d].id \in Ids(history')
  BY DEF Aimed
<1>1. ~raced
  BY RacedStays
<1>2. /\ at \in [Clients -> Places] /\ target \in [Clients -> Mark \cup {Unset}]
      /\ \A c \in Clients : at[c] \in Undoes => \A e \in Clients : e # c => at[e] = "idle"
      /\ \A c \in Clients : at[c] \in {"track", "undo"} => target[c].id \in Ids(history)
      /\ \A c \in Clients : at[c] \in {"track", "undo"} => target[c] \in Mark
  BY <1>1 DEF UndoInv, TypedInv, Typed, Alone, Aimed
<1>3. ASSUME NEW c \in Clients, Prompt(c) \/ Shell(c) \/ Save(c) \/ EndTurn(c) \/ Revert(c)
      PROVE  target'[d].id \in Ids(history')
  <2>1. /\ history' = history /\ target' = target
        /\ \E l \in Places \ {"track", "undo"} : at' = [at EXCEPT ![c] = l]
    BY <1>3 DEF Prompt, Shell, Cleanup, Save, EndTurn, Revert, MoveTo, Places, Undoes
  <2> QED
    BY <1>2, <2>1
<1>4. ASSUME NEW c \in Clients, Find(c) PROVE target'[d].id \in Ids(history')
  <2>1. history' = history
    BY <1>4 DEF Find
  <2>2. CASE d = c
    BY <1>2, <1>4, <2>1, <2>2 DEF Find, MoveTo
  <2>3. CASE d # c
    BY <1>2, <1>4, <2>3 DEF Find, MoveTo, Undoes
  <2> QED
    BY <2>2, <2>3
<1>5. ASSUME NEW c \in Clients, Track(c) PROVE target'[d].id \in Ids(history')
  <2>1. /\ history' = history
        /\ at[c] = "track" /\ at' = [at EXCEPT ![c] = "undo"]
        /\ target' = [target EXCEPT ![c].snapshot = Kept]
    BY <1>5 DEF Track, MoveTo
  <2>2. target'[d].id = target[d].id
    BY <1>2, <2>1 DEF Mark
  <2> QED
    BY <1>2, <2>1, <2>2
<1>6. ASSUME NEW c \in Clients,
             UndoFile(c) \/ SetRevert(c) \/ Unrevert(c) \/ Restore(c) \/ ClearRevert(c)
      PROVE  target'[d].id \in Ids(history')
  <2>1. history' = history
    BY <1>6 DEF UndoFile, SetRevert, Unrevert, Restore, ClearRevert
  <2>2. \/ at' = at /\ target' = target
        \/ /\ \E l \in {"idle", "restore", "restored"} : at' = [at EXCEPT ![c] = l]
           /\ \E m : target' = target \/ target' = [target EXCEPT ![c] = m]
    BY <1>6 DEF UndoFile, SetRevert, Unrevert, Restore, ClearRevert, MoveTo
  <2> QED
    BY <1>2, <2>1, <2>2
<1>7. ASSUME NEW c \in Clients, Delete(c) \/ EndCleanup(c) \/ TakeStep(c)
      PROVE  target'[d].id \in Ids(history')
  <2>1. /\ target' = target /\ at[c] \in {"delete", "turn"}
        /\ at' = at \/ at' = [at EXCEPT ![c] = "save"]
    BY <1>7 DEF Delete, EndCleanup, TakeStep, MoveTo
  <2>2. at[d] \in {"track", "undo"} /\ d # c
    BY <1>2, <2>1
  <2> QED
    BY <1>2, <2>1, <2>2 DEF Undoes
<1>8. CASE UNCHANGED revertVars
  BY <1>2, <1>8 DEF revertVars
<1> QED
  BY <1>3, <1>4, <1>5, <1>6, <1>7, <1>8 DEF RevertNext

LEMMA ShownIsTold ==
  ASSUME UndoInv, ~raced, ~astray
  PROVE  Shown = Told
<1>1. ~Undoing => tree = Told
  BY DEF UndoInv, Agrees, InSight, Undoing, Undoes
<1> QED
  BY <1>1 DEF Shown

LEMMA LedIsTip == \A h : Promised!Led(h) = Tip(h)
  BY DEF Promised!Led, Tip, Newest

LEMMA SightIsTold ==
  ASSUME UndoInv
  PROVE  /\ Promised!InSight = IF marker = Unset THEN history ELSE Before(marker.id)
         /\ Promised!Led(Promised!InSight) = Told
<1>1. marker # Unset => marker.id \in Nat \ {0}
  BY DEF UndoInv, TypedInv, Typed, Mark
<1>2. Promised!InSight = IF marker = Unset THEN history ELSE Before(marker.id)
  BY <1>1 DEF Promised!InSight, Before
<1> QED
  BY <1>2, LedIsTip DEF Told

\* The same after a step.
LEMMA ShownIsToldNext == UndoInv' /\ ~raced' /\ ~astray' => Shown' = Told'
<1>1. UndoInv /\ ~raced /\ ~astray => Shown = Told
  BY ShownIsTold
<1>2. (UndoInv /\ ~raced /\ ~astray => Shown = Told)'
  BY <1>1, PTL
<1> QED
  BY <1>2

LEMMA SightIsToldNext == UndoInv' => Promised!Led(Promised!InSight)' = Told'
<1>1. UndoInv => Promised!Led(Promised!InSight) = Told
  BY SightIsTold
<1>2. (UndoInv => Promised!Led(Promised!InSight) = Told)'
  BY <1>1, PTL
<1> QED
  BY <1>2

\* A step that leaves origin, history and marker alone shows the same files.
LEMMA QuietIsPromised ==
  ASSUME UNCHANGED <<origin, history, marker>>, Shown = Told, Shown' = Told',
         ~raced, ~astray, ~raced', ~astray'
  PROVE  UNCHANGED Promised!vars
<1>1. Told' = Told
  BY DEF Told, Tip, Before
<1> QED
  BY <1>1 DEF Promised!vars

LEMMA DeleteIsPromised ==
  ASSUME UndoInv, NEW c \in Clients, Delete(c), ~raced, ~astray, ~raced', ~astray'
  PROVE  [Promised!Next]_(Promised!vars)
<1>1. PICK i \in doomed[c] : history' = {p \in history : p.id # i}
  BY DEF Delete
<1>2. UNCHANGED <<tree, origin, marker, at>> /\ at[c] = "delete"
  BY DEF Delete
<1>3. ~Undoing /\ ~Undoing'
  BY <1>2 DEF Undoing, Undoes, UndoInv, Alone
<1>4. Shown' = Shown
  BY <1>2, <1>3 DEF Shown
<1>5. CASE \E p \in history : p.id = i
  <2>1. PICK p \in history : p.id = i
    BY <1>5
  <2>2. marker # Unset /\ p.id >= marker.id
    BY <1>1, <1>2, <2>1 DEF UndoInv, Doomed
  <2>3. p \notin Promised!InSight
    <3>1. marker.id \in Nat /\ p.id \in Nat
      BY <2>2 DEF UndoInv, TypedInv, Typed, Mark, Pieces
    <3> QED
      BY <2>2, <3>1, SightIsTold DEF Before
  <2>4. history' = history \ {p}
    BY <1>1, <2>1 DEF UndoInv, TypedInv, Pieces
  <2>5. Promised!Drop
    BY <1>2, <1>4, <2>1, <2>3, <2>4 DEF Promised!Drop
  <2> QED
    BY <2>5 DEF Promised!Next
<1>6. CASE ~\E p \in history : p.id = i
  BY <1>1, <1>2, <1>4, <1>6 DEF Promised!vars
<1> QED
  BY <1>5, <1>6

LEMMA EndCleanupIsPromised ==
  ASSUME UndoInv, NEW c \in Clients, EndCleanup(c), ~raced, ~astray, ~raced', ~astray'
  PROVE  [Promised!Next]_(Promised!vars)
<1>1. /\ UNCHANGED <<tree, origin, history>> /\ marker' = Unset
      /\ at[c] = "delete" /\ doomed[c] = {} /\ at' = [at EXCEPT ![c] = "save"]
  BY DEF EndCleanup, MoveTo
<1>2. ~Undoing /\ ~Undoing'
  BY <1>1 DEF Undoing, Undoes, UndoInv, Alone, TypedInv, Typed
<1>3. Shown' = Shown
  BY <1>1, <1>2 DEF Shown
<1>4. CASE marker = Unset
  BY <1>1, <1>3, <1>4 DEF Promised!vars
<1>5. CASE marker # Unset
  <2>1. \A p \in history : ~(p.id >= marker.id)
    BY <1>1, <1>5 DEF UndoInv, Doomed
  <2>2. marker.id \in Nat \ {0} /\ \A p \in history : p.id \in Nat
    BY <1>5 DEF UndoInv, TypedInv, Typed, Mark, Pieces
  <2>3. Before(marker.id) = history
    BY <2>1, <2>2 DEF Before
  <2>4. Promised!Settle
    BY <1>1, <1>3, <1>5, <2>2, <2>3, SightIsTold DEF Promised!Settle
  <2> QED
    BY <2>4 DEF Promised!Next
<1> QED
  BY <1>4, <1>5

LEMMA TakeStepIsPromised ==
  ASSUME UndoInv, NEW c \in Clients, TakeStep(c), ~raced, ~astray, ~raced', ~astray'
  PROVE  [Promised!Next]_(Promised!vars)
<1>1. PICK t \in Trees \ {tree} :
        /\ tree' = t
        /\ history' = history \cup {[id |-> last + 1, hash |-> tree, after |-> t,
                                     files |-> {f \in Files : t[f] # tree[f]}]}
  BY DEF TakeStep
<1>2. UNCHANGED <<origin, marker, at>> /\ at[c] = "turn"
  BY DEF TakeStep
<1>3. marker = Unset /\ ~Undoing
  BY <1>2 DEF Undoing, Undoes, UndoInv, Alone
<1>4. Shown' = tree'
  BY <1>2, <1>3 DEF Shown, Undoing
<1>5. PICK s \in history' : history' = history \cup {s} /\ s.id = last + 1 /\ s.after = tree'
  <2> DEFINE p == [id |-> last + 1, hash |-> tree, after |-> t,
                   files |-> {f \in Files : t[f] # tree[f]}]
  <2>1. p.id = last + 1 /\ p.after = tree'
    BY <1>1
  <2>2. history' = history \cup {p}
    BY <1>1
  <2> HIDE DEF p
  <2> QED
    BY <2>1, <2>2
<1>6. \A p \in history : p.id < s.id
  BY <1>5 DEF UndoInv, TypedInv, Pieces
<1>7. Promised!Take
  BY <1>2, <1>3, <1>4, <1>5, <1>6 DEF Promised!Take
<1> QED
  BY <1>7 DEF Promised!Next

LEMMA SetRevertIsPromised ==
  ASSUME UndoInv, UndoInv', Aimed, NEW c \in Clients, SetRevert(c),
         ~raced, ~astray, ~raced', ~astray', Shown = Told, Shown' = Told'
  PROVE  [Promised!Next]_(Promised!vars)
<1>1. /\ at[c] = "undo" /\ marker' = target[c] /\ UNCHANGED <<origin, history>>
      /\ marker = Unset \/ ~(target[c].id > marker.id)
  BY DEF SetRevert
<1>2. /\ target[c] \in Mark /\ target[c].id \in Nat \ {0} /\ target[c] # Unset
      /\ marker # Unset => marker.id \in Nat \ {0}
  BY <1>1, UnsetAssumption DEF UndoInv, TypedInv, Typed, Mark
<1>3. PICK p \in history : p.id = target[c].id
  BY <1>1 DEF Aimed, Ids
<1>4. CASE marker # Unset /\ marker.id = target[c].id
  <2>1. Told' = Told
    BY <1>1, <1>2, <1>4 DEF Told, Tip, Before
  <2> QED
    BY <1>1, <1>2, <1>4, <2>1 DEF Promised!vars
<1>5. CASE marker = Unset \/ target[c].id < marker.id
  <2>1. p \in Promised!InSight
    BY <1>3, <1>5, SightIsTold DEF Before
  <2>2. Shown' = Promised!Led(Promised!InSight)'
    BY SightIsToldNext
  <2>3. (IF marker' = Unset THEN 0 ELSE marker'.id) = p.id
    BY <1>1, <1>2, <1>3
  <2>4. /\ \E s \in Promised!InSight : (IF marker' = Unset THEN 0 ELSE marker'.id) = s.id
        /\ UNCHANGED <<origin, history>>
    BY <1>1, <2>1, <2>3
  <2>5. Promised!Undo
    BY <2>2, <2>4 DEF Promised!Undo
  <2> QED
    BY <2>5 DEF Promised!Next
<1> QED
  BY <1>1, <1>2, <1>4, <1>5

LEMMA ClearRevertIsPromised ==
  ASSUME UndoInv, NEW c \in Clients, ClearRevert(c),
         ~raced, ~astray, ~raced', ~astray', Shown' = Told'
  PROVE  [Promised!Next]_(Promised!vars)
<1>1. at[c] = "restored" /\ marker' = Unset /\ UNCHANGED <<origin, history>>
  BY DEF ClearRevert
<1>2. marker # Unset /\ marker.id \in Nat \ {0}
  BY <1>1 DEF UndoInv, Saved, TypedInv, Typed, Mark
<1>3. Shown' = Promised!Led(history)
  <2>1. Told' = Tip(history)
    BY <1>1 DEF Told, Tip
  <2> QED
    BY <2>1, LedIsTip
<1>4. Promised!Redo
  BY <1>1, <1>2, <1>3 DEF Promised!Redo
<1> QED
  BY <1>4 DEF Promised!Next

LEMMA UndoIsPromised ==
  ASSUME UndoInv, UndoInv', Aimed, [RevertNext]_revertVars
  PROVE  [Promised!Next]_(Promised!vars)
<1>1. CASE raced' \/ astray'
  BY <1>1 DEF Promised!Next, Promised!Break
<1>2. CASE ~raced' /\ ~astray'
  <2>1. ~raced /\ ~astray
    BY <1>2, RacedStays
  <2>2. Shown = Told /\ Shown' = Told'
    BY <1>2, <2>1, ShownIsTold, ShownIsToldNext
  <2>3. ASSUME NEW c \in Clients, Aside(c) PROVE [Promised!Next]_(Promised!vars)
    BY <1>2, <2>1, <2>2, <2>3, AsideLeaves, QuietIsPromised
  <2>4. CASE UNCHANGED revertVars
    BY <1>2, <2>1, <2>2, <2>4, QuietIsPromised DEF revertVars
  <2>5. ASSUME NEW c \in Clients, Delete(c) \/ EndCleanup(c) \/ TakeStep(c)
        PROVE  [Promised!Next]_(Promised!vars)
    BY <1>2, <2>1, <2>5, DeleteIsPromised, EndCleanupIsPromised, TakeStepIsPromised
  <2>6. ASSUME NEW c \in Clients, SetRevert(c) \/ ClearRevert(c)
        PROVE  [Promised!Next]_(Promised!vars)
    BY <1>2, <2>1, <2>2, <2>6, SetRevertIsPromised, ClearRevertIsPromised
  <2> QED
    BY <2>3, <2>4, <2>5, <2>6 DEF RevertNext, Aside
<1> QED
  BY <1>1, <1>2

\* Seen from outside, each undo, each redo and each deletion is one step along the
\* line of what the answers did, however many awaits it takes and whatever prompts
\* come between (SessionRevert.revert, unrevert, cleanup).
THEOREM UndoRefines == RevertSpec => UndoIsOneStep
<1>1. RevertInit => Promised!Init
  BY DEF RevertInit, Promised!Init, Shown, Undoing, Undoes
<1>2. RevertInit => Aimed
  BY DEF RevertInit, Aimed
<1>3. UndoInv /\ UndoInv' /\ Aimed /\ [RevertNext]_revertVars =>
        Aimed' /\ [Promised!Next]_(Promised!vars)
  BY AimedStep, UndoIsPromised
<1> QED
  BY <1>1, <1>2, <1>3, UndoAlways, PTL DEF RevertSpec, UndoIsOneStep, Promised!Spec
=============================================================================
