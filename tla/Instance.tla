------------------------------- MODULE Instance -------------------------------
(***************************************************************************)
(* The instances of the server, one per directory, with the states made in  *)
(* them when first used, while requests come and go, instances are reloaded *)
(* and disposed of, alone or all together, and the configuration changes    *)
(* (packages/opencode/src/project/instance.ts, project/state.ts and the end *)
(* of updateGlobal in config/config.ts).                                    *)
(*                                                                         *)
(* Instances and Map objects of states are named by the order they are made.*)
(* Config.state is the one state that can be reset and has no dispose       *)
(* function; Kinds stands for the states that have one.                     *)
(***************************************************************************)
EXTENDS Naturals, Sequences, FiniteSets

CONSTANTS
  Dirs,       \* the directories
  Requests,   \* the requests, each of which enters one instance
  Kinds,      \* the states with a dispose function
  Pass,       \* disposeAll at work, a process beside the requests
  MaxConfig   \* bound: versions of the configuration

ASSUME PassAssumption == Pass \notin Requests
ASSUME BoundAssumption == MaxConfig \in Nat \ {0}

VARIABLES
  cache,     \* cache: the instance of a directory, 0 if none
  boots,     \* every instance: its directory and how its promise stands
  records,   \* recordsByKey: the map of a directory, 0 if none
  maps,      \* every map of states that was made
  pc,        \* where a request, or the pass, stands
  at,        \* the instance it waits for or runs in, and then the map it disposes of
  tasks,     \* the dispose functions State.dispose still waits for
  todo,      \* entries: the cached instances the pass has not come to yet
  config,    \* the version of the configuration that a new Config.state reads
  writer,    \* whether updateGlobal still has to make the new version known
  cover      \* history: the instances and the version the pass began with

vars == <<cache, boots, records, maps, pc, at, tasks, todo, config, writer, cover>>

Procs == Requests \cup {Pass}

Nowhere == [boot |-> 0, map |-> 0]

Init ==
  /\ cache = [d \in Dirs |-> 0]
  /\ boots = <<>>
  /\ records = [d \in Dirs |-> 0]
  /\ maps = <<>>
  /\ pc = [p \in Procs |-> "new"]
  /\ at = [p \in Procs |-> Nowhere]
  /\ tasks = [p \in Procs |-> {}]
  /\ todo = {}
  /\ config = 1
  /\ writer = "idle"
  /\ cover = [boots |-> {}, config |-> 0]

Goto(p, l) == pc' = [pc EXCEPT ![p] = l]

\* p has done with the instance.
Done(p) == /\ Goto(p, IF p = Pass THEN "walk" ELSE "done")
           /\ at' = [at EXCEPT ![p] = Nowhere]

\* The directory of instance g; 0 is no instance.
DirOf(g) == IF g = 0 THEN 0 ELSE boots[g].dir

\* The processes inside State.dispose for d.
Disposing(d) == {p \in Procs : pc[p] \in {"dispose", "reload"} /\ DirOf(at[p].boot) = d}

(***************************************************************************)
(* State.create: a state is found in the map of its directory or made and   *)
(* put there; late are those made while the directory is being disposed of. *)
(***************************************************************************)
NewMap(d) == [dir |-> d, config |-> 0, made |-> {}, late |-> {},
              runs |-> [k \in Kinds |-> 0], shared |-> FALSE]

\* m becomes the content of the map of d.
Store(d, m) ==
  IF records[d] = 0
  THEN maps' = Append(maps, m) /\ records' = [records EXCEPT ![d] = Len(maps) + 1]
  ELSE maps' = [maps EXCEPT ![records[d]] = m] /\ UNCHANGED records

Current(d) == IF records[d] = 0 THEN NewMap(d) ELSE maps[records[d]]

Use(d, k) ==
  /\ k \notin Current(d).made
  /\ Store(d, [Current(d) EXCEPT !.made = @ \cup {k},
                 !.late = IF Disposing(d) = {} THEN @ ELSE @ \cup {k}])
  /\ UNCHANGED <<cache, boots, pc, at, tasks, todo, config, writer, cover>>

ReadConfig(d) ==
  /\ Current(d).config = 0
  /\ Store(d, [Current(d) EXCEPT !.config = config])
  /\ UNCHANGED <<cache, boots, pc, at, tasks, todo, config, writer, cover>>

UseState(d) == ReadConfig(d) \/ \E k \in Kinds : Use(d, k)

(***************************************************************************)
(* boot and track.  A boot that fails takes itself out of the cache.        *)
(***************************************************************************)
\* The boot of d that p starts and waits for.
Track(p, d) ==
  /\ boots' = Append(boots, [dir |-> d, status |-> "booting"])
  /\ cache' = [cache EXCEPT ![d] = Len(boots) + 1]
  /\ at' = [at EXCEPT ![p] = [boot |-> Len(boots) + 1, map |-> 0]]

\* init runs inside the new instance.
BootUse(g) == boots[g].status = "booting" /\ UseState(DirOf(g))

\* The promise of g settles, and those who wait for it go on: the requests
\* that asked for the instance enter it or throw, a reload returns.
Settled(g, ok) ==
  LET waits(p) == p \in Requests /\ at[p].boot = g
      enters(p) == waits(p) /\ pc[p] = "boot" /\ ok
      ends(p) == waits(p) /\ (pc[p] = "reboot" \/ (pc[p] = "boot" /\ ~ok))
  IN /\ boots[g].status = "booting"
     /\ boots' = [boots EXCEPT ![g].status = IF ok THEN "ready" ELSE "failed"]
     /\ pc' = [p \in Procs |->
                 IF enters(p) THEN "inside" ELSE IF ends(p) THEN "done" ELSE pc[p]]
     /\ at' = [p \in Procs |-> IF ends(p) THEN Nowhere ELSE at[p]]
     /\ UNCHANGED <<records, maps, tasks, todo, config, writer, cover>>

Booted(g) == Settled(g, TRUE) /\ UNCHANGED cache

\* Mutant: the failed promise stays.
MutBootFails(g) == Settled(g, FALSE) /\ UNCHANGED cache

BootFails(g) ==
  /\ Settled(g, FALSE)
  /\ cache' = [cache EXCEPT ![DirOf(g)] = IF @ = g THEN 0 ELSE @]

(***************************************************************************)
(* Instance.provide: the request waits for the instance and runs in it.     *)
(***************************************************************************)
Provide(r, d) ==
  /\ pc[r] = "new"
  /\ IF cache[d] = 0 THEN Track(r, d) /\ Goto(r, "boot")
     ELSE /\ at' = [at EXCEPT ![r].boot = cache[d]]
          /\ Goto(r, IF boots[cache[d]].status = "booting" THEN "boot" ELSE "inside")
          /\ UNCHANGED <<boots, cache>>
  /\ UNCHANGED <<records, maps, tasks, todo, config, writer, cover>>

RequestUse(r) == pc[r] = "inside" /\ UseState(DirOf(at[r].boot))

Leave(r) ==
  /\ pc[r] = "inside"
  /\ Done(r)
  /\ UNCHANGED <<cache, boots, records, maps, tasks, todo, config, writer, cover>>

(***************************************************************************)
(* State.dispose, which p calls for d: the dispose functions of the states  *)
(* it finds run in any order, an error in one is logged, and when all have  *)
(* ended the map is cleared and whatever map the directory has is dropped.  *)
(* Where the directory has no map it returns at once.                       *)
(***************************************************************************)
StateDispose(p, d, l) ==
  LET m == records[d]
  IN /\ Goto(p, l)
     /\ at' = [at EXCEPT ![p].map = m]
     /\ tasks' = [tasks EXCEPT ![p] = maps[m].made]
     /\ maps' = IF \E q \in Disposing(d) : at[q].map = m
                THEN [maps EXCEPT ![m].shared = TRUE] ELSE maps
     /\ UNCHANGED <<boots, cache>>

Task(p) ==
  \E k \in tasks[p] :
    /\ tasks' = [tasks EXCEPT ![p] = @ \ {k}]
    /\ maps' = [maps EXCEPT ![at[p].map].runs[k] = @ + 1]
    /\ UNCHANGED <<cache, boots, records, pc, at, todo, config, writer, cover>>

DropMap(p) ==
  LET d == DirOf(at[p].boot)
      m == at[p].map
  IN /\ records' = [records EXCEPT ![d] = 0]
     /\ maps' = [maps EXCEPT ![m] = [NewMap(d) EXCEPT
                   !.shared = \E q \in Disposing(d) \ {p} : at[q].map = m]]

\* What follows: the directory leaves the cache, and reload, which then waits
\* for it, boots it again at once.
Disposed(p, d, l) ==
  IF l = "reload" THEN Track(p, d) /\ Goto(p, "reboot")
  ELSE /\ cache' = [cache EXCEPT ![d] = 0]
       /\ Done(p)
       /\ UNCHANGED boots

\* Mutant: the dispose functions are started and not waited for.
MutCallDispose(p, d, l) ==
  /\ Disposed(p, d, l)
  /\ records' = [records EXCEPT ![d] = 0]
  /\ UNCHANGED <<tasks, maps>>

CallDispose(p, d, l) ==
  /\ IF records[d] = 0 THEN Disposed(p, d, l) /\ UNCHANGED <<tasks, maps>>
                       ELSE StateDispose(p, d, l)
  /\ UNCHANGED records

(***************************************************************************)
(* Instance.dispose and reload, called from within a request.               *)
(***************************************************************************)
StartDispose(r) ==
  /\ pc[r] = "inside"
  /\ \E l \in {"dispose", "reload"} : CallDispose(r, DirOf(at[r].boot), l)
  /\ UNCHANGED <<todo, config, writer, cover>>

EndDispose(p) ==
  /\ pc[p] \in {"dispose", "reload"} /\ tasks[p] = {}
  /\ DropMap(p)
  /\ Disposed(p, DirOf(at[p].boot), pc[p])
  /\ UNCHANGED <<tasks, todo, config, writer, cover>>

(***************************************************************************)
(* disposeAll, which the end of updateGlobal below and a route call.  While *)
(* one pass is at work every further call joins it.                         *)
(***************************************************************************)
BeginPass ==
  /\ pc[Pass] = "new"
  /\ Goto(Pass, "walk")
  /\ todo' = {cache[d] : d \in Dirs} \ {0}
  /\ cover' = [boots |-> todo', config |-> config]

\* The next instance in the order they were cached; one that was replaced
\* meanwhile is passed over.
Walk ==
  /\ pc[Pass] = "walk"
  /\ \E g \in todo :
       /\ \A h \in todo : g <= h
       /\ todo' = todo \ {g}
       /\ IF cache[DirOf(g)] = g
          THEN at' = [at EXCEPT ![Pass] = [boot |-> g, map |-> 0]] /\ Goto(Pass, "boot")
          ELSE UNCHANGED <<at, pc>>
  /\ UNCHANGED <<cache, boots, records, maps, tasks, config, writer, cover>>

\* Mutant: an instance that is still booting is passed over.
MutAwaited ==
  LET g == at[Pass].boot
  IN /\ pc[Pass] = "boot"
     /\ IF boots[g].status = "ready" /\ cache[DirOf(g)] = g
        THEN CallDispose(Pass, DirOf(g), "dispose")
        ELSE Done(Pass) /\ UNCHANGED <<tasks, maps, boots, cache, records>>
     /\ UNCHANGED <<todo, config, writer, cover>>

\* Mutant: the pass waits for the instance to be ready.
MutAwaitReady ==
  LET g == at[Pass].boot
  IN /\ pc[Pass] = "boot" /\ boots[g].status = "ready"
     /\ IF cache[DirOf(g)] = g
        THEN CallDispose(Pass, DirOf(g), "dispose")
        ELSE Done(Pass) /\ UNCHANGED <<tasks, maps, boots, cache, records>>
     /\ UNCHANGED <<todo, config, writer, cover>>

\* The pass waits for the instance to boot and looks again.
Awaited ==
  LET g == at[Pass].boot
  IN /\ pc[Pass] = "boot" /\ boots[g].status # "booting"
     /\ IF boots[g].status = "ready" /\ cache[DirOf(g)] = g
        THEN CallDispose(Pass, DirOf(g), "dispose")
        ELSE Done(Pass) /\ UNCHANGED <<tasks, maps, boots, cache, records>>
     /\ UNCHANGED <<todo, config, writer, cover>>

EndPass ==
  /\ pc[Pass] = "walk" /\ todo = {}
  /\ Goto(Pass, "new")
  /\ cover' = [boots |-> {}, config |-> 0]
  /\ UNCHANGED <<cache, boots, records, maps, at, tasks, todo, config, writer>>

(***************************************************************************)
(* updateGlobal: the new configuration is in place, and then the instances  *)
(* are told, by resetStateEntry or by disposing of them all.                *)
(***************************************************************************)
WriteConfig ==
  /\ writer = "idle" /\ config < MaxConfig
  /\ config' = config + 1
  /\ writer' \in {"reset", "dispose"}
  /\ UNCHANGED <<cache, boots, records, maps, pc, at, tasks, todo, cover>>

ResetStateEntry ==
  /\ writer = "reset"
  /\ writer' = "idle"
  /\ maps' = [m \in DOMAIN maps |->
                IF \E d \in Dirs : cache[d] # 0 /\ records[d] = m
                THEN [maps[m] EXCEPT !.config = 0] ELSE maps[m]]
  /\ UNCHANGED <<cache, boots, records, pc, at, tasks, todo, config, cover>>

DisposeForConfig ==
  /\ writer = "dispose"
  /\ writer' = "idle"
  /\ IF pc[Pass] = "new" THEN BeginPass ELSE UNCHANGED <<pc, todo, cover>>
  /\ UNCHANGED <<cache, boots, records, maps, at, tasks, config>>

Step(p) == Task(p) \/ EndDispose(p)

PassStep == Walk \/ Awaited \/ EndPass

Settle(g) == Booted(g) \/ BootFails(g)

Next ==
  \/ \E r \in Requests :
       \/ \E d \in Dirs : Provide(r, d)
       \/ RequestUse(r) \/ StartDispose(r) \/ Leave(r)
  \/ \E p \in Procs : Step(p)
  \/ \E g \in DOMAIN boots : BootUse(g) \/ Settle(g)
  \/ PassStep
  \/ WriteConfig \/ ResetStateEntry \/ DisposeForConfig

Spec == Init /\ [][Next]_vars

\* Boots, requests and dispose functions come to an end, well or badly.
Progress ==
  \/ \E g \in DOMAIN boots : Settle(g)
  \/ \E r \in Requests : Leave(r)
  \/ \E p \in Procs : Step(p)
  \/ PassStep

FairSpec == Spec /\ WF_vars(Progress)

-----------------------------------------------------------------------------
Boot == [dir : Dirs, status : {"booting", "ready", "failed"}]
Map == [dir : Dirs, config : 0..MaxConfig, made : SUBSET Kinds, late : SUBSET Kinds,
        runs : [Kinds -> Nat], shared : BOOLEAN]

TypeOK ==
  /\ boots \in Seq(Boot)
  /\ maps \in Seq(Map)
  /\ cache \in [Dirs -> 0..Len(boots)]
  /\ records \in [Dirs -> 0..Len(maps)]
  /\ pc \in [Procs -> {"new", "boot", "inside", "dispose", "reload", "reboot", "walk", "done"}]
  /\ at \in [Procs -> [boot : 0..Len(boots), map : 0..Len(maps)]]
  /\ tasks \in [Procs -> SUBSET Kinds]
  /\ todo \subseteq 1..Len(boots)
  /\ config \in 1..MaxConfig
  /\ writer \in {"idle", "reset", "dispose"}
  /\ cover \in [boots : SUBSET (1..Len(boots)), config : 0..MaxConfig]

\* The cache holds the newest instance of a directory and never one that failed
\* to boot, whichever disposal or failing boot took its turn to delete it.
CachedIsNewest ==
  \A d \in Dirs : cache[d] # 0 =>
    /\ boots[cache[d]].status # "failed"
    /\ \A g \in DOMAIN boots : DirOf(g) = d => g <= cache[d]

\* However reloads, disposals and passes interleave, the dispose function of a
\* state runs before the state is dropped, unless the state was made while its
\* directory was already being disposed of; and it runs once, unless two
\* disposals of the directory overlapped.
EachIsDisposedOnce ==
  [][/\ \A d \in Dirs : records[d] # 0 /\ records'[d] # records[d] =>
          LET m == maps[records[d]] IN \A k \in m.made \ m.late : m.runs[k] > 0
     /\ \A m \in DOMAIN maps' : ~maps'[m].shared =>
          \A k \in Kinds : maps'[m].runs[k] <= 1]_vars

\* When a pass ends, no directory whose instance it began with still holds a
\* configuration older than that moment, though the instance was replaced, was
\* booting or was being disposed of by others when its turn came.
PassLeavesNothingStale ==
  [][EndPass => \A g \in cover.boots :
       boots[g].status = "ready" /\ records[DirOf(g)] # 0
         => maps[records[DirOf(g)]].config \in {0} \cup cover.config..MaxConfig]_vars

\* disposeAll ends, though instances fail, are replaced or are disposed of under
\* it, so that the next call makes a pass of its own instead of joining it.
PassEnds == pc[Pass] # "new" ~> pc[Pass] = "new"
=============================================================================
